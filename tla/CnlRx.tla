--------------------------------- MODULE CnlRx ---------------------------------
(****************************************************************************)
(* The reception of data by one device (CNL_checkRxRequest,                 *)
(* CNL_actionReceiveData, IZAN_readReadyBuffer, IZAN_receiveData).  The     *)
(* chip puts CSDUs of two profiles into its banks, which are read in the    *)
(* order of arrival; the task copies what the first banks hold into the     *)
(* requests of their profile, reckoning from a cached reading of the bank   *)
(* headers how much is left.                                                *)
(*                                                                          *)
(* A message is a run of CSDUs of one profile; all of them but the last are *)
(* marked fragmented, and a fragmented CSDU is full.  Lengths are counted   *)
(* in units.  The link is down, or connected and awake; CnlCore has the     *)
(* other states.                                                            *)
(****************************************************************************)
EXTENDS Integers, Sequences

CONSTANTS
  Reqs,       \* requests to receive
  Discards,   \* requests that CNL_cancel makes to discard the data of a profile
  Profiles,   \* CNL_PROFILE_ID_0, CNL_PROFILE_ID_1
  NoPid,      \* CNL_EMPTY_PID
  CsduSize,   \* CNL_CSDU_SIZE
  RxCsduNum,  \* IZAN_RX_CSDU_NUM: the banks
  Lengths,    \* the lengths of requests
  QueueSize,  \* [Profiles -> Nat]: CNL_RX_QUEUE0_SIZE, CNL_RX_QUEUE1_SIZE
  Word,       \* 2^32, the modulus of lengths
  ReadsFail,  \* may every try of reading the banks fail?
  MaxCsdus,   \* bound: CSDUs that arrive
  MaxLinks    \* bound: links

All == Reqs \cup Discards

ASSUME RxAssumption ==
  /\ Reqs \cap Discards = {} /\ NoPid \notin Profiles
  /\ CsduSize \in Nat \ {0} /\ RxCsduNum \in Nat \ {0}
  /\ Lengths \subseteq Nat \ {0}
  /\ QueueSize \in [Profiles -> Nat \ {0}]
  /\ Word \in Nat /\ Word > CsduSize * RxCsduNum
  /\ ReadsFail \in BOOLEAN /\ MaxCsdus \in Nat /\ MaxLinks \in Nat

VARIABLES
  \* the chip
  banks,     \* the CSDUs that were received and not read
  pos,       \* units of the first bank that were read
  fifo,      \* the address of the next unit in the RXFIFO, within a bank
  chan,      \* does the chip receive from the peer?
  sta,       \* the status RXBANKNOTEMPT
  en,        \* is it enabled?
  peer,      \* the peer: CSDUs sent, messages begun, is the last one unfinished?
  \* the driver
  irq,       \* the interrupt handler
  ev,        \* event RX_READY
  over,      \* an event that ends the link
  sig,       \* is the device signalled?
  link,      \* is cnlState one of the connected states?
  rxReady, rxPid,
  dev,       \* rxRemain, rxFragment, rxNeedReset, rxBankHeadPos
  queue,     \* rx0Queue, rx1Queue
  req,       \* the requests; what they were given is history
  task,      \* the CNL task
  links      \* bound: links so far

chip   == <<banks, pos, fifo, chan, sta, en, peer>>
events == <<ev, over, sig>>
ready  == <<rxReady, rxPid>>
vars == <<chip, irq, events, link, ready, dev, queue, req, task, links>>

NewReq == [st |-> "out", pid |-> NoPid, len |-> 0, pos |-> 0, more |-> TRUE,
           from |-> {}, ended |-> FALSE, read |-> TRUE]

Init ==
  /\ banks = <<>> /\ pos = 0 /\ fifo = 0 /\ chan = FALSE /\ sta = FALSE /\ en = FALSE
  /\ peer = [sent |-> 0, msg |-> 0, open |-> NoPid]
  /\ irq = "idle" /\ ev = FALSE /\ over = FALSE /\ sig = FALSE /\ link = FALSE
  /\ rxReady = FALSE /\ rxPid = NoPid
  /\ dev = [remain |-> 0, more |-> TRUE, reset |-> FALSE, headPos |-> 0]
  /\ queue = [p \in Profiles |-> <<>>]
  /\ req = [r \in All |-> NewReq]
  /\ task = [pc |-> "wait", ready |-> 0, more |-> FALSE]
  /\ links = 0

At(pc) == task.pc = pc
Goto(pc) == task' = [task EXCEPT !.pc = pc]

(****************************************************************************)
(* The chip and the interrupt handler                                       *)
(****************************************************************************)
\* The peer may answer to a link before the driver has noted it.
ChipConnects ==
  /\ At("wait") /\ ~chan /\ ~link /\ links < MaxLinks
  /\ chan' = TRUE /\ links' = links + 1
  /\ UNCHANGED <<banks, pos, fifo, sta, en, peer, irq, events, link, ready, dev,
                 queue, req, task>>

\* A CSDU arrives.  The status is set when the first bank is filled; whether it is
\* set again by the next ones the driver does not rely on.
Arrive ==
  /\ chan /\ Len(banks) < RxCsduNum /\ peer.sent < MaxCsdus
  /\ \E p \in Profiles, n \in 1 .. CsduSize, more \in BOOLEAN :
       /\ more => n = CsduSize
       /\ peer.open \in {NoPid, p}
       /\ banks' = Append(banks, [pid |-> p, len |-> n, more |-> more, msg |-> peer.msg])
       /\ peer' = [sent |-> peer.sent + 1,
                   msg  |-> IF more THEN peer.msg ELSE peer.msg + 1,
                   open |-> IF more THEN p ELSE NoPid]
  /\ sta' \in IF banks = <<>> THEN {TRUE} ELSE {sta, TRUE}
  /\ UNCHANGED <<pos, fifo, chan, en, irq, events, link, ready, dev, queue, req,
                 task, links>>

\* C-Rls, a timeout or an order of the upper layer: an event that ends the link.
LinkLost ==
  /\ link /\ ~over
  /\ over' = TRUE /\ sig' = TRUE
  /\ chan' \in {chan, FALSE}
  /\ UNCHANGED <<banks, pos, fifo, sta, en, peer, irq, ev, link, ready, dev, queue,
                 req, task, links>>

\* IZAN_intHandler clears the status first and counts the banks afterwards.
IrqClear ==
  /\ irq = "idle" /\ sta /\ en
  /\ sta' = FALSE /\ irq' = "look"
  /\ UNCHANGED <<banks, pos, fifo, chan, en, peer, events, link, ready, dev, queue,
                 req, task, links>>

\* A status that was left over from banks already read is ignored.
IrqLook ==
  /\ irq = "look"
  /\ IF banks = <<>> THEN irq' = "idle" /\ UNCHANGED en
                     ELSE irq' = "add" /\ en' = FALSE
  /\ UNCHANGED <<banks, pos, fifo, chan, sta, peer, events, link, ready, dev, queue,
                 req, task, links>>

IrqAdd ==
  /\ irq = "add"
  /\ ev' = TRUE /\ sig' = TRUE /\ irq' = "idle"
  /\ UNCHANGED <<chip, over, link, ready, dev, queue, req, task, links>>

\* The handler holds the interrupt lock from clearing to masking.
IntLockFree == irq # "look"

(****************************************************************************)
(* Callers                                                                  *)
(****************************************************************************)
In(q, r) == \E i \in DOMAIN q : q[i] = r
Discarding(p) == \E d \in Discards : In(queue[p], d)
Callable(r) == req[r].st \in {"out", "answered"}

\* CNL_checkRequestStateAndParam reads the state without the lock.
Check(r) ==
  /\ Callable(r) /\ link
  /\ \E p \in Profiles, n \in Lengths :
       /\ ~Discarding(p)
       /\ req' = [req EXCEPT ![r] = [NewReq EXCEPT !.st = "checked", !.pid = p, !.len = n]]
  /\ UNCHANGED <<chip, irq, events, link, ready, dev, queue, task, links>>

\* CNL_cancel with the id of a profile makes a request, in any state of the link.
CheckDiscard(d) ==
  /\ Callable(d)
  /\ \E p \in Profiles :
       /\ ~Discarding(p)
       /\ req' = [req EXCEPT ![d] =
                    [NewReq EXCEPT !.st = "checked", !.pid = p, !.len = CsduSize]]
  /\ UNCHANGED <<chip, irq, events, link, ready, dev, queue, task, links>>

\* CNL_addRequestToRxQueue: QOVR when the queue is full.
AddToRxQueue(r) ==
  /\ req[r].st = "checked"
  /\ LET p == req[r].pid
     IN IF Len(queue[p]) < QueueSize[p]
        THEN /\ queue' = [queue EXCEPT ![p] = Append(@, r)]
             /\ req' = [req EXCEPT ![r].st = "queued"]
        ELSE /\ req' = [req EXCEPT ![r] = NewReq]
             /\ UNCHANGED queue
  /\ UNCHANGED <<chip, irq, ev, over, link, ready, dev, task, links>>

\* Mutant: the device is not signalled.
MutEnqueue(r) == AddToRxQueue(r) /\ UNCHANGED sig

\* CNL_addRequest signals the device; CNL_cancel does not.
Enqueue(r)        == AddToRxQueue(r) /\ sig' = TRUE
EnqueueDiscard(d) == AddToRxQueue(d) /\ UNCHANGED sig

(****************************************************************************)
(* The scheduler                                                            *)
(****************************************************************************)
Wakeup ==
  /\ At("wait") /\ sig
  /\ sig' = FALSE /\ Goto("sched")
  /\ UNCHANGED <<chip, irq, ev, over, link, ready, dev, queue, req, links>>

\* Mutant: the request is answered and left in its queue.
MutCancel(r) ==
  /\ task.pc \in {"wait", "sched"}
  /\ req[r].st \in {"queued", "begun"}
  /\ req' = [req EXCEPT ![r] = NewReq]
  /\ Goto("sched")
  /\ UNCHANGED <<chip, irq, events, link, ready, dev, queue, links>>

\* CNL_checkCancel takes a request out of its queue even when it was begun.
Removed(q, i) == [j \in 1 .. Len(q) - 1 |-> IF j < i THEN q[j] ELSE q[j + 1]]

Cancel(r) ==
  /\ task.pc \in {"wait", "sched"}
  /\ req[r].st \in {"queued", "begun"}
  /\ \E i \in DOMAIN queue[req[r].pid] :
       /\ queue[req[r].pid][i] = r
       /\ queue' = [queue EXCEPT ![req[r].pid] = Removed(@, i)]
  /\ req' = [req EXCEPT ![r] = NewReq]
  /\ Goto("sched")
  /\ UNCHANGED <<chip, irq, events, link, ready, dev, links>>

\* CNL_checkEvent: an event that ends the link comes before RX_READY.
CheckEvent ==
  /\ At("sched")
  /\ IF over THEN over' = FALSE /\ Goto("reset") /\ UNCHANGED <<ev, rxReady>>
             ELSE /\ ev' = FALSE /\ rxReady' = (rxReady \/ ev)
                  /\ Goto("rx") /\ UNCHANGED over
  /\ UNCHANGED <<chip, irq, sig, link, rxPid, dev, queue, req, links>>

\* IZAN_readReadyPid: of empty banks the register says anything.
ReadyPid == IF rxPid # NoPid THEN {rxPid}
            ELSE IF banks = <<>> THEN Profiles ELSE {Head(banks).pid}

\* CNL_checkRxRequest and the end of the task's loop, which goes on while there
\* are events.
\* CNL_getAction calls it only on a link that is connected
\* (cnl_schd.c:2667-2673), so the profile is not read off a dead one.
CheckRxRequest ==
  /\ At("rx")
  /\ IF link /\ rxReady
     THEN \E p \in ReadyPid :
            /\ rxPid' = p
            /\ Goto(IF queue[p] # <<>> THEN "ready"
                    ELSE IF ev \/ over THEN "sched" ELSE "wait")
     ELSE UNCHANGED rxPid /\ Goto(IF ev \/ over THEN "sched" ELSE "wait")
  /\ UNCHANGED <<chip, irq, events, link, rxReady, dev, queue, req, links>>

(****************************************************************************)
(* What the headers of the banks say.  The units from the first bank to the *)
(* k-th, all full but the last, when these are one profile's and the k-th   *)
(* ends a message or is followed by no other of the profile.                *)
(****************************************************************************)
End(k) == (k - 1) * CsduSize + banks[k].len
SameRun(k) == \A i \in 1 .. k : banks[i].pid = banks[1].pid /\ (i < k => banks[i].more)
EndsRun(k) ==
  /\ SameRun(k)
  /\ \/ ~banks[k].more
     \/ k = Len(banks)
     \/ banks[k + 1].pid # banks[k].pid

Headers ==
  IF banks = <<>>
  THEN {[units |-> 0, more |-> more] : more \in BOOLEAN}
  ELSE {[units |-> End(k), more |-> banks[k].more] : k \in {i \in DOMAIN banks : EndsRun(i)}}

\* Mutant: the address is reset after messages shorter than a bank.
MutNeedReset(h) == ~h.more /\ h.units < CsduSize
\* rxNeedReset: the message ends in a bank that is not full.
NeedReset(h) == ~h.more /\ h.units % CsduSize # 0

\* What is left is reckoned in an unsigned word.
Cached(h) ==
  [dev EXCEPT !.remain = (h.units - dev.headPos) % Word,
              !.more   = h.more,
              !.reset  = NeedReset(h)]

\* IZAN_readReadyBuffer: what is cached of a whole message is not read again.
ReadReadyBuffer ==
  /\ At("ready")
  /\ IF dev.remain # 0 /\ ~dev.more
     THEN UNCHANGED dev
     ELSE \E h \in Headers : dev' = Cached(h)
  /\ task' = [task EXCEPT !.pc = "receive", !.ready = dev'.remain]
  /\ UNCHANGED <<chip, irq, events, link, ready, queue, req, links>>

(****************************************************************************)
(* CNL_actionReceiveData                                                    *)
(****************************************************************************)
Least(a, b) == IF a < b THEN a ELSE b
First == Head(queue[rxPid])

Asked(r) == Least(task.ready, req[r].len - req[r].pos)

\* Mutant: the buffer is taken to hold all of the message.
MutMoreAfter(all) == dev.more
\* A buffer smaller than what is left cuts the message.
MoreAfter(all) == ~all \/ dev.more

\* Mutant: the position is kept at the end of a message.
MutHeadPosKept(all, n) == (dev.headPos + n) % CsduSize
HeadPosAfter(all, n) == IF all THEN 0 ELSE (dev.headPos + n) % CsduSize

\* The chip gives away n units: k banks become empty, so that the k-th was read to
\* its end, or all of it that there is.
Emptied(k, n) ==
  /\ k > 0 => End(k) <= pos + n
  /\ k < Len(banks) => pos + n < End(k + 1)
After(k, n) == IF k > 0 /\ (k = Len(banks) \/ End(k) = pos + n)
               THEN 0 ELSE (pos + n) % CsduSize
Touched(k, n) == {[pid |-> banks[i].pid, msg |-> banks[i].msg] :
                    i \in 1 .. (IF After(k, n) > 0 THEN Least(k + 1, Len(banks)) ELSE k)}

\* The request with n more units, k banks being emptied for them.
Filled(r, k, n, read) ==
  [req[r] EXCEPT !.st = "begun", !.pos = @ + n,
                 !.from = @ \cup Touched(k, n),
                 !.ended = k > 0 /\ After(k, n) = 0 /\ ~banks[k].more,
                 !.read = @ /\ read]

\* IZAN_receiveData: whether the message ends here is told from the cache.  When
\* reading fails three times the banks are released all the same.
ReceiveData ==
  /\ At("receive")
  /\ task.ready > 0 /\ queue[rxPid] # <<>>
  /\ LET r == First
         want == Asked(r)
         all  == want >= dev.remain
         n    == IF all THEN dev.remain ELSE want
         left == IF all THEN 0 ELSE dev.remain - want
     IN \E k \in 0 .. Len(banks), read \in IF ReadsFail THEN BOOLEAN ELSE {TRUE} :
          /\ Emptied(k, n)
          /\ banks' = SubSeq(banks, k + 1, Len(banks))
          /\ pos' = After(k, n)
          /\ fifo' = IF all /\ dev.reset THEN 0 ELSE (fifo + n) % CsduSize
          /\ dev' = [dev EXCEPT
               !.remain  = left,
               !.reset   = @ /\ ~all,
               !.headPos = HeadPosAfter(all, n)]
          /\ req' = [req EXCEPT ![r] = Filled(r, k, n, read)]
          /\ task' = [pc |-> "after", ready |-> task.ready - n,
                      more |-> MoreAfter(all)]
  /\ UNCHANGED <<chan, sta, en, peer, irq, events, link, ready, queue, links>>

NoMoreToReceive ==
  /\ At("receive") /\ (task.ready = 0 \/ queue[rxPid] = <<>>)
  /\ Goto("unmask")
  /\ UNCHANGED <<chip, irq, events, link, ready, dev, queue, req, links>>

HasRoom(r) == req[r].pos < req[r].len

\* IZAN_readReadyRxBuffer: is there already more of a message that was cut?
ReadReadyRxBuffer ==
  /\ At("after") /\ HasRoom(First) /\ task.more
  /\ \E other \in IF banks = <<>> THEN BOOLEAN ELSE {Head(banks).pid # rxPid} :
       IF other
       THEN UNCHANGED dev /\ Goto("receive")
       ELSE \E h \in Headers :
              /\ dev' = Cached(h)
              /\ task' = [task EXCEPT !.pc = "receive", !.ready = (@ + dev'.remain) % Word]
  /\ UNCHANGED <<chip, irq, events, link, ready, queue, req, links>>

\* A request is complete when it is full or the message has ended.  The answer is
\* given at the end of the action; nobody can find the request any more.
CompleteReceive ==
  /\ At("after") /\ ~(HasRoom(First) /\ task.more)
  /\ LET r == First
     IN IF r \in Discards
        THEN req' = [req EXCEPT ![r].pos = 0] /\ UNCHANGED queue
        ELSE /\ req' = [req EXCEPT ![r].st = "answered", ![r].more = task.more]
             /\ queue' = [queue EXCEPT ![rxPid] = Tail(@)]
  /\ Goto("receive")
  /\ UNCHANGED <<chip, irq, events, link, ready, dev, links>>

\* Mutant: data left in the banks is left to the interrupt.
MutCountBanks ==
  /\ At("unmask")
  /\ Goto("drop")
  /\ UNCHANGED <<chip, irq, ev, sig, over, link, ready, dev, queue, req, links>>

\* IZAN_receiveDataIntUnmask
CountBanks ==
  /\ At("unmask")
  /\ IF banks # <<>> THEN ev' = TRUE /\ sig' = TRUE /\ Goto("end")
                     ELSE Goto("drop") /\ UNCHANGED <<ev, sig>>
  /\ UNCHANGED <<chip, irq, over, link, ready, dev, queue, req, links>>

DropEvent ==
  /\ At("drop")
  /\ ev' = FALSE
  /\ Goto("enable")
  /\ UNCHANGED <<chip, irq, over, sig, link, ready, dev, queue, req, links>>

EnableInterrupt ==
  /\ At("enable") /\ IntLockFree
  /\ en' = TRUE
  /\ Goto("end")
  /\ UNCHANGED <<banks, pos, fifo, chan, sta, peer, irq, events, link, ready, dev,
                 queue, req, links>>

EndReceive ==
  /\ At("end")
  /\ IF task.ready = 0 THEN rxReady' = FALSE /\ rxPid' = NoPid ELSE UNCHANGED ready
  /\ Goto("sched")
  /\ UNCHANGED <<chip, irq, events, link, dev, queue, req, links>>

(****************************************************************************)
(* Changes of state                                                         *)
(****************************************************************************)
\* The step to a connected state enables the reception of data.
Connected ==
  /\ At("wait") /\ chan /\ ~link /\ IntLockFree
  /\ link' = TRUE /\ en' = TRUE
  /\ Goto("sched")
  /\ UNCHANGED <<banks, pos, fifo, chan, sta, peer, irq, events, ready, dev, queue,
                 req, links>>

\* IZAN_changeState to SEARCH and IZAN_releaseReset, which leaves rxBankHeadPos.
ResetChip ==
  /\ At("reset") /\ IntLockFree
  /\ banks' = <<>> /\ pos' = 0 /\ fifo' = 0 /\ chan' = FALSE /\ sta' = FALSE /\ en' = FALSE
  /\ peer' = [peer EXCEPT !.open = NoPid, !.msg = @ + 1]
  /\ ev' = FALSE
  /\ dev' = [dev EXCEPT !.remain = 0, !.more = TRUE, !.reset = FALSE]
  /\ Goto("state")
  /\ UNCHANGED <<irq, over, sig, link, ready, queue, req, links>>

CommitState ==
  /\ At("state")
  /\ link' = FALSE /\ Goto("purge")
  /\ UNCHANGED <<chip, irq, events, ready, dev, queue, req, links>>

\* CNL_purgeDataRequest answers LINKDOWN; CNL_releaseReset goes on under the lock
\* taken anew.
PurgeDataRequest ==
  /\ At("purge")
  /\ queue' = [p \in Profiles |-> <<>>]
  /\ req' = [r \in All |-> IF req[r].st \in {"queued", "begun"} THEN NewReq ELSE req[r]]
  /\ Goto("clear")
  /\ UNCHANGED <<chip, irq, events, link, ready, dev, links>>

ReleaseReset ==
  /\ At("clear")
  /\ rxReady' = FALSE /\ rxPid' = NoPid
  /\ ev' = FALSE /\ over' = FALSE
  /\ Goto("sched")
  /\ UNCHANGED <<chip, irq, sig, link, dev, queue, req, links>>

Scheduler == CheckEvent \/ CheckRxRequest \/ ReadReadyBuffer
Reception == ReceiveData \/ NoMoreToReceive \/ ReadReadyRxBuffer \/ CompleteReceive
               \/ CountBanks \/ DropEvent \/ EnableInterrupt \/ EndReceive
Release == ResetChip \/ CommitState \/ PurgeDataRequest \/ ReleaseReset
Task == Wakeup \/ Scheduler \/ Reception \/ Release
Interrupt == IrqClear \/ IrqLook \/ IrqAdd
Environment == ChipConnects \/ Arrive \/ LinkLost \/ Connected

Next ==
  \/ Environment \/ Interrupt \/ Task
  \/ \E r \in Reqs : Check(r) \/ Enqueue(r) \/ Cancel(r)
  \/ \E d \in Discards : CheckDiscard(d) \/ EnqueueDiscard(d)

Spec == Init /\ [][Next]_vars
\* The kernel runs the task and the interrupt handler.
FairSpec == Spec /\ WF_vars(Task) /\ WF_vars(Interrupt)

(****************************************************************************)
(* Properties                                                               *)
(****************************************************************************)
Pcs == {"wait", "sched", "rx", "ready", "receive", "after", "unmask", "drop", "enable", "end",
        "reset", "state", "purge", "clear"}

\* What banks, the cached reading and requests hold.
Csdu == [pid : Profiles, len : 1 .. CsduSize, more : BOOLEAN, msg : Nat]
Device == [remain : 0 .. Word - 1, more : BOOLEAN, reset : BOOLEAN,
           headPos : 0 .. CsduSize - 1]
Request == [st : {"out", "checked", "queued", "begun", "answered"},
            pid : Profiles \cup {NoPid}, len : Nat, pos : Nat, more : BOOLEAN,
            from : SUBSET [pid : Profiles, msg : Nat], ended : BOOLEAN, read : BOOLEAN]

TypeOK ==
  /\ banks \in Seq(Csdu) /\ Len(banks) <= RxCsduNum
  /\ pos \in 0 .. CsduSize - 1 /\ fifo \in 0 .. CsduSize - 1
  /\ chan \in BOOLEAN /\ sta \in BOOLEAN /\ en \in BOOLEAN
  /\ peer \in [sent : Nat, msg : Nat, open : Profiles \cup {NoPid}]
  /\ irq \in {"idle", "look", "add"}
  /\ ev \in BOOLEAN /\ over \in BOOLEAN /\ sig \in BOOLEAN /\ link \in BOOLEAN
  /\ rxReady \in BOOLEAN /\ rxPid \in Profiles \cup {NoPid}
  /\ dev \in Device
  /\ queue \in [Profiles -> Seq(All)]
  /\ req \in [All -> Request]
  /\ task \in [pc : Pcs, ready : 0 .. Word - 1, more : BOOLEAN]
  /\ links \in Nat

\* What is reported ready is what the banks hold of the first message, less what
\* was read of it: "number of CSDU same PID * CSDU_SIZE - position of RX head bank"
\* (core/cnl_izan.c:4662).  Of a message that goes on there may be more by now.
ReadyIsLeft ==
  At("receive") /\ task.ready > 0 =>
    \A h \in Headers : /\ task.ready <= h.units - pos
                       /\ ~dev.more => task.ready = h.units - pos

\* The address in the RXFIFO is reset when a message that does not fill its last bank
\* was read: reading always begins where the first bank's rest is.
FifoAtRest == At("receive") /\ task.ready > 0 => fifo = pos

\* A request is given data of its own profile (core/cnl_schd.c:556: "search RX
\* request have same ProfileId from RX queue").
OwnProfile == \A r \in All : \A m \in req[r].from : m.pid = req[r].pid

\* A request is answered with data of one message of its profile, and is told whether
\* it ends there.  Cancelling another in the midst, discarding and the arrival of the rest
\* while the first part is read do not change that.
OneMessage ==
  /\ OwnProfile
  /\ \A r \in Reqs : req[r].st = "answered" =>
       /\ \A m1, m2 \in req[r].from : m1 = m2
       /\ req[r].ended = ~req[r].more

\* A request is never given more than it has room for.
NoOverrun == \A r \in All : req[r].pos <= req[r].len

\* RX_READY is added when it is not pending (the assertion core/cnl_schd.c:2437).
ReadyAddedOnce == irq = "add" \/ At("unmask") => ~ev

\* Data in the banks of a link is known to somebody: the interrupt is about to be
\* raised, the handler or the scheduler has it, or the task is at it.
NotForgotten ==
  link /\ banks # <<>> /\ ~At("state") =>
    \/ sta /\ en
    \/ irq \in {"look", "add"} \/ ev \/ rxReady
    \/ task.pc \in {"reset", "drop", "enable"}

\* What arrives is reported once and not forgotten, although the interrupt's status is
\* cleared before the banks are counted and its mask is lifted after.
Reported == ReadyAddedOnce /\ NotForgotten

\* A request in the queue is one of its profile, is in it once, and was begun only if
\* it is the first.
QueuesInOrder ==
  \A p \in Profiles : \A i \in DOMAIN queue[p] :
    LET r == queue[p][i]
    IN /\ req[r].pid = p /\ req[r].st \in {"queued", "begun"}
       /\ \A j \in DOMAIN queue[p] : queue[p][j] = r => i = j
       /\ (req[r].pos > 0 => i = 1)

\* Neither cancelling, discarding nor the end of a link breaks the requests: none is
\* filled beyond its room, and the queues stay in order.
RequestsSound == NoOverrun /\ QueuesInOrder

\* Banks are released when they were read: "if read data is completed, set READDONE"
\* (core/cnl_izan.c:4463).
ReleasedWhenRead == \A r \in Reqs : req[r].st = "answered" => req[r].read

Waiting(S) ==
  /\ link /\ ~over /\ banks # <<>>
  /\ queue[Head(banks).pid] # <<>> /\ Head(queue[Head(banks).pid]) \in S

\* Data that a request waits for is read, or the request or the link ends.
DataTaken == []<>~Waiting(Reqs)

\* "Discard ProfileID:0 receive data" (core/include/cnl_if.h:50)
DataDiscarded == []<>~Waiting(Discards)
=============================================================================

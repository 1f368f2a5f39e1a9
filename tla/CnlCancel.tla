------------------------------- MODULE CnlCancel -------------------------------
(****************************************************************************)
(* Cancelling a request of the core (CNL_cancelRequest, CNL_checkCancel,    *)
(* CNL_cancelToutCallback).  A thread takes a dummy request from a pool,    *)
(* puts the id of its target into it, hands it to the CNL task over the     *)
(* cancel queue and waits.  The task answers the target; when the device is *)
(* already busy with it the dummy takes its place in the queue until the    *)
(* device is done.  An alarm takes the dummy back when the task does not    *)
(* come; its callback reads the global that names the dummy anew at every   *)
(* use, and no lock keeps other cancels from writing it meanwhile.          *)
(*                                                                          *)
(* Requests are named by their ids; an id is used again once its request was *)
(* answered.  The rest of the scheduler is reduced to a task that starts and *)
(* answers requests.  Queues are kept as sets: no property tells their order. *)
(****************************************************************************)
EXTENDS Integers, FiniteSets

CONSTANTS
  Cancellers,  \* threads that call CNL_cancel
  RxReqs,      \* requests to receive
  TxReqs,      \* requests to send, or of the control queue: swapped when processed
  Dummies,     \* CNL_DUMMY_REQ_MPL_ID: the pool of dummy requests
  RxSize,      \* size of the queue of requests to receive
  TxSize,      \* size of the queue of the others
  MaxSem,      \* bound: ends of waits that nobody waits for
  None         \* no request, no dummy

Reqs == RxReqs \cup TxReqs

ASSUME CancelAssumption ==
  /\ RxReqs \cap TxReqs = {}
  /\ None \notin Reqs \cup Dummies
  /\ RxSize \in Nat \ {0} /\ TxSize \in Nat \ {0} /\ MaxSem \in Nat
  /\ IsFiniteSet(Dummies) /\ IsFiniteSet(Reqs) /\ IsFiniteSet(Cancellers)

VARIABLES
  free,      \* the pool
  lost,      \* dummies nobody will give back
  cancelQ,   \* pCnlDev->cancelQueue
  target,    \* the id in a dummy of the cancel queue or of a request queue
  copies,    \* dummies that stand in a queue for the request they are a copy of
  req,       \* the state of a request in its queue, "out" when it is in none
  pending,   \* requests whose owner has had no answer
  cnt,       \* txReqCnt (for txReqCnt and ctrlReqCnt), rxReqCnt (for either profile)
  hand,      \* what CNL_checkCancel has in hand when it gives up the lock
  status,    \* cancelStatus
  sem,       \* cancelWaitId
  arg,       \* g_cnlCancelToutArg
  alarm,     \* the alarm timer and how far its callback is
  sig,       \* is the device signalled?
  task,      \* the CNL task
  th,        \* the threads
  told,      \* history: threads whose target was answered because of them
  clean,     \* history: no wait was interrupted, no two cancels overlapped
  crossed    \* history: the callback ran while two cancels overlapped

vars == <<free, lost, cancelQ, target, copies, req, pending, cnt, hand,
          status, sem, arg, alarm, sig, task, th, told, clean, crossed>>
dummies == <<free, lost, cancelQ, target, copies>>
queues  == <<req, pending, cnt>>
waits   == <<status, sem, arg, alarm>>
history == <<told, clean, crossed>>

Idle == [pc |-> "idle", dummy |-> None, want |-> None]
NoArg == [dev |-> FALSE, dummy |-> None]
Empty == [dummy |-> None, req |-> None]

Init ==
  /\ free = Dummies /\ lost = {} /\ cancelQ = {} /\ copies = {}
  /\ target = [d \in Dummies |-> None]
  /\ req = [r \in Reqs |-> "out"] /\ pending = {}
  /\ cnt = [q \in {"rx", "tx"} |-> 0]
  /\ hand = Empty /\ status = "SUCCESS" /\ sem = 0
  /\ arg = NoArg /\ alarm = "none"
  /\ sig = FALSE /\ task = "sleep"
  /\ th = [c \in Cancellers |-> Idle]
  /\ told = {} /\ clean = TRUE /\ crossed = FALSE

At(c, pc) == th[c].pc = pc
Goto(c, pc) == th' = [th EXCEPT ![c].pc = pc]
QueueOf(r) == IF r \in RxReqs THEN "rx" ELSE "tx"
Size(q) == IF q = "rx" THEN RxSize ELSE TxSize
Uncount(q) == cnt' = [cnt EXCEPT ![q] = @ - 1]

\* The id of a dummy that is in no queue any more is of no use.
Forget == target' = [d \in Dummies |-> IF d \in cancelQ' \cup copies' THEN target[d] ELSE None]

\* mngLockId is held over more than one step by the callback only.
Unlocked == alarm \notin {"found", "removed"}

\* The callback is under way.
Running == alarm \in {"called", "found", "removed", "released"}

\* CNL_signalDev
\* Mutant: the task is not signalled.
MutSignalDev == UNCHANGED sig
SignalDev == sig' = TRUE

Inside == {"add", "signal", "wait", "stop", "dev", "clear"}
InCancel == {c \in Cancellers : th[c].pc \in Inside}

(****************************************************************************)
(* CNL_cancelRequest                                                        *)
(****************************************************************************)
\* A caller waits while there is no dummy.
GetDummy(c, r, d) ==
  /\ At(c, "idle") /\ d \in free
  /\ free' = free \ {d}
  /\ th' = [th EXCEPT ![c] = [pc |-> "test", dummy |-> d, want |-> r]]
  /\ UNCHANGED <<lost, cancelQ, target, copies, queues, hand, waits, sig, task, history>>

\* ERR_RSVFUNC: the dummy is not given back.
TestArg(c) ==
  /\ At(c, "test")
  /\ IF arg.dev
     THEN lost' = lost \cup {th[c].dummy} /\ th' = [th EXCEPT ![c] = Idle]
     ELSE UNCHANGED lost /\ Goto(c, "set")
  /\ UNCHANGED <<free, cancelQ, target, copies, queues, hand, waits, sig, task, history>>

\* The alarm is armed unless it exists.
SetArg(c) ==
  /\ At(c, "set")
  /\ arg' = [dev |-> TRUE, dummy |-> th[c].dummy]
  /\ alarm' = IF alarm = "none" THEN "armed" ELSE alarm
  /\ clean' = (clean /\ InCancel = {})
  /\ crossed' = (crossed \/ (Running /\ InCancel # {}))
  /\ Goto(c, "add")
  /\ UNCHANGED <<dummies, queues, hand, status, sem, sig, task, told>>

AddCancel(c) ==
  /\ At(c, "add") /\ Unlocked
  /\ cancelQ' = cancelQ \cup {th[c].dummy}
  /\ target' = [target EXCEPT ![th[c].dummy] = th[c].want]
  /\ th' = [th EXCEPT ![c] = [pc |-> "signal", dummy |-> None, want |-> @.want]]
  /\ UNCHANGED <<free, lost, copies, queues, hand, waits, sig, task, history>>

Signal(c) ==
  /\ At(c, "signal")
  /\ SignalDev
  /\ Goto(c, "wait")
  /\ UNCHANGED <<dummies, queues, hand, waits, task, history>>

Wait(c) ==
  /\ At(c, "wait") /\ sem > 0
  /\ sem' = sem - 1
  /\ Goto(c, "stop")
  /\ UNCHANGED <<dummies, queues, hand, status, arg, alarm, sig, task, history>>

\* Ends of waits there are or will be.
Ends == sem + Cardinality(cancelQ) + (IF task = "done" THEN 1 ELSE 0)
            + IF alarm \in {"removed", "released"} THEN 1 ELSE 0

\* CMN_waitSem ends with a signal to the process; nobody looks at its result.
Interrupt(c) ==
  /\ At(c, "wait") /\ Ends <= MaxSem
  /\ clean' = FALSE
  /\ Goto(c, "stop")
  /\ UNCHANGED <<dummies, queues, hand, waits, sig, task, told, crossed>>

\* del_timer_sync waits for the end of a callback.
StopAlarm(c) ==
  /\ At(c, "stop") /\ alarm \in {"none", "armed", "fired"}
  /\ alarm' = "none"
  /\ Goto(c, "dev")
  /\ UNCHANGED <<dummies, queues, hand, status, sem, arg, sig, task, history>>

ClearDev(c) ==
  /\ At(c, "dev")
  /\ arg' = [arg EXCEPT !.dev = FALSE]
  /\ Goto(c, "clear")
  /\ UNCHANGED <<dummies, queues, hand, status, sem, alarm, sig, task, history>>

\* cancelStatus is what the caller is told.
ClearArg(c) ==
  /\ At(c, "clear")
  /\ arg' = [arg EXCEPT !.dummy = None]
  /\ told' = told \ {c}
  /\ th' = [th EXCEPT ![c] = Idle]
  /\ UNCHANGED <<dummies, queues, hand, status, sem, alarm, sig, task, clean, crossed>>

\* CMN_REL_WAIT
\* Mutant: the end of a wait is kept once only.
MutRelWait == sem' = 1
RelWait == sem' = sem + 1

\* Mutant: it is not looked up whether the dummy is still in the cancel queue.
MutAlarmTakes == arg.dummy # None
AlarmTakes == arg.dummy \in cancelQ

(****************************************************************************)
(* CNL_cancelToutCallback.  A null pointer that it finds after its first    *)
(* look is dereferenced, and it does not come back.  Removing a dummy that  *)
(* is not in the queue writes where its old links point to: none or some of *)
(* the others are cut off.                                                  *)
(****************************************************************************)
AlarmBegins ==
  /\ alarm = "armed"
  /\ alarm' = IF arg.dev /\ arg.dummy # None THEN "called" ELSE "fired"
  /\ crossed' = (crossed \/ \E c, u \in InCancel : c # u)
  /\ UNCHANGED <<dummies, queues, hand, status, sem, arg, sig, task, th, told, clean>>

AlarmLooks ==
  /\ alarm = "called"
  /\ alarm' = IF ~arg.dev THEN "oops" ELSE IF AlarmTakes THEN "found" ELSE "fired"
  /\ UNCHANGED <<dummies, queues, hand, status, sem, arg, sig, task, th, history>>

AlarmRemoves ==
  /\ alarm = "found"
  /\ IF arg.dev /\ arg.dummy # None
     THEN /\ alarm' = "removed" /\ status' = "TIMEOUT"
          /\ \E cut \in SUBSET cancelQ :
               /\ arg.dummy \in cancelQ => cut = {arg.dummy}
               /\ cancelQ' = cancelQ \ cut
     ELSE alarm' = "oops" /\ UNCHANGED <<status, cancelQ>>
  /\ UNCHANGED copies /\ Forget
  /\ UNCHANGED <<free, lost, queues, hand, sem, arg, sig, task, th, history>>

AlarmReleases ==
  /\ alarm = "removed"
  /\ IF arg.dev /\ arg.dummy # None
     THEN alarm' = "released" /\ free' = free \cup {arg.dummy}
     ELSE alarm' = "oops" /\ UNCHANGED free
  /\ UNCHANGED <<lost, cancelQ, target, copies, queues, hand, status, sem, arg, sig,
                 task, th, history>>

AlarmEnds ==
  /\ alarm = "released"
  /\ IF arg.dev
     THEN alarm' = "fired" /\ RelWait
     ELSE alarm' = "oops" /\ UNCHANGED sem
  /\ UNCHANGED <<dummies, queues, hand, status, arg, sig, task, th, history>>

Alarm == AlarmBegins \/ AlarmLooks \/ AlarmRemoves \/ AlarmReleases \/ AlarmEnds

(****************************************************************************)
(* CNL_checkCancel: one dummy a round, first under the lock, then without.   *)
(****************************************************************************)
\* A copy is found before a later request with the same id, and is not cancelled again.
Found(r) == req[r] # "out" /\ \A d \in copies : target[d] # r

\* Mutant: every request that is being processed is swapped.
MutSwapped(r) == req[r] = "PROCESSING"
Swapped(r) == req[r] = "PROCESSING" /\ r \in TxReqs

CheckCancel(d) ==
  /\ task = "cancel" /\ d \in cancelQ /\ Unlocked
  /\ cancelQ' = cancelQ \ {d}
  /\ LET r == target[d] IN
       /\ status' = IF Found(r) THEN "SUCCESS" ELSE "NOOBJ"
       /\ hand' = [dummy |-> IF Found(r) /\ Swapped(r) THEN None ELSE d,
                   req   |-> IF Found(r) THEN r ELSE None]
       /\ req' = IF Found(r) THEN [req EXCEPT ![r] = "out"] ELSE req
       /\ copies' = IF Found(r) /\ Swapped(r) THEN copies \cup {d} ELSE copies
       /\ IF Found(r) /\ ~Swapped(r) THEN Uncount(QueueOf(r)) ELSE UNCHANGED cnt
  /\ Forget
  /\ task' = "done"
  /\ UNCHANGED <<free, lost, pending, sem, arg, alarm, sig, th, history>>

\* The target is answered with CNL_ERR_CANCELLED, the dummy released, the wait ended.
CancelDone ==
  /\ task = "done"
  /\ pending' = pending \ {hand.req}
  /\ told' = told \cup {c \in Cancellers : hand.req # None /\ th[c].want = hand.req
                                            /\ th[c].pc \in Inside}
  /\ free' = free \cup ({hand.dummy} \ {None})
  /\ hand' = Empty
  /\ RelWait
  /\ task' = "work"
  /\ UNCHANGED <<lost, cancelQ, target, copies, req, cnt, status, arg, alarm,
                 sig, th, clean, crossed>>

NoCancel ==
  /\ task = "cancel" /\ cancelQ = {} /\ Unlocked
  /\ task' = "work"
  /\ UNCHANGED <<dummies, queues, hand, waits, sig, th, history>>

(****************************************************************************)
(* The rest of the task, and of the system.                                 *)
(****************************************************************************)
TakeDevice ==
  /\ task = "sleep" /\ sig
  /\ sig' = FALSE /\ task' = "cancel"
  /\ UNCHANGED <<dummies, queues, hand, waits, th, history>>

Start(r) ==
  /\ task = "work" /\ req[r] = "QUEUED" /\ Unlocked
  /\ req' = [req EXCEPT ![r] = "PROCESSING"]
  /\ task' = "cancel"
  /\ UNCHANGED <<dummies, pending, cnt, hand, waits, sig, th, history>>

\* A request comes to its end; when the link is lost, one that was only queued too.
Answer(r) ==
  /\ task = "work" /\ req[r] # "out" /\ Unlocked
  /\ req' = [req EXCEPT ![r] = "out"]
  /\ Uncount(QueueOf(r))
  /\ pending' = pending \ {r}
  /\ task' = "cancel"
  /\ UNCHANGED <<dummies, hand, waits, sig, th, history>>

\* CNL_completeRequest of a dummy
FreeCopy(d) ==
  /\ task = "work" /\ d \in copies /\ Unlocked
  /\ copies' = copies \ {d}
  /\ free' = free \cup {d}
  /\ Uncount("tx")
  /\ task' = "cancel"
  /\ UNCHANGED <<lost, cancelQ, req, pending, hand, waits, sig, th, history>>
  /\ Forget

\* No action: the device is put down, whatever is left in the cancel queue.
Sleep ==
  /\ task = "work"
  /\ task' = "sleep"
  /\ UNCHANGED <<dummies, queues, hand, waits, sig, th, history>>

\* CNL_addRequest
AddRequest(r) ==
  /\ r \notin pending /\ cnt[QueueOf(r)] < Size(QueueOf(r)) /\ Unlocked
  /\ req' = [req EXCEPT ![r] = "QUEUED"]
  /\ cnt' = [cnt EXCEPT ![QueueOf(r)] = @ + 1]
  /\ pending' = pending \cup {r}
  /\ SignalDev
  /\ UNCHANGED <<dummies, hand, waits, task, th, history>>

\* The device interrupts.
Event ==
  /\ SignalDev
  /\ UNCHANGED <<dummies, queues, hand, waits, task, th, history>>

TaskNext ==
  \/ TakeDevice \/ CancelDone \/ NoCancel \/ Sleep
  \/ \E d \in Dummies : CheckCancel(d) \/ FreeCopy(d)
  \/ \E r \in Reqs : Start(r) \/ Answer(r)

ThreadNext(c) ==
  \/ \E r \in Reqs, d \in Dummies : GetDummy(c, r, d)
  \/ TestArg(c) \/ SetArg(c) \/ AddCancel(c) \/ Signal(c) \/ Wait(c) \/ Interrupt(c)
  \/ StopAlarm(c) \/ ClearDev(c) \/ ClearArg(c)

Next ==
  \/ TaskNext \/ Alarm \/ Event
  \/ \E c \in Cancellers : ThreadNext(c)
  \/ \E r \in Reqs : AddRequest(r)

Spec == Init /\ [][Next]_vars

(****************************************************************************)
(* What is asked of cancelling.                                             *)
(****************************************************************************)
Holding == {"test", "set", "add"}
Pcs == {"idle"} \cup Holding \cup Inside
AlarmStates == {"none", "armed", "called", "found", "removed", "released", "fired", "oops"}

TypeOK ==
  /\ free \subseteq Dummies /\ lost \subseteq Dummies /\ cancelQ \subseteq Dummies
  /\ copies \subseteq Dummies
  /\ target \in [Dummies -> Reqs \cup {None}]
  /\ req \in [Reqs -> {"out", "QUEUED", "PROCESSING"}]
  /\ pending \subseteq Reqs
  /\ cnt \in [{"rx", "tx"} -> Int] /\ \A q \in {"rx", "tx"} : cnt[q] <= Size(q)
  /\ hand \in [dummy : Dummies \cup {None}, req : Reqs \cup {None}]
  /\ status \in {"SUCCESS", "NOOBJ", "TIMEOUT"} /\ sem \in Nat
  /\ arg \in [dev : BOOLEAN, dummy : Dummies \cup {None}]
  /\ alarm \in AlarmStates /\ sig \in BOOLEAN
  /\ task \in {"sleep", "cancel", "done", "work"}
  /\ th \in [Cancellers -> [pc : Pcs, dummy : Dummies \cup {None},
                            want : Reqs \cup {None}]]
  /\ told \subseteq Cancellers /\ clean \in BOOLEAN /\ crossed \in BOOLEAN

HeldDummies == {th[c].dummy : c \in {u \in Cancellers : th[u].pc \in Holding}}
InHand == {hand.dummy} \ {None}
InCallback == IF alarm = "removed" THEN {arg.dummy} ELSE {}
Owners == <<free, lost, cancelQ, copies, HeldDummies, InHand, InCallback>>

\* A dummy has one owner, whoever is faster, the task, the alarm or another cancel: the
\* pool, the cancel queue, a request queue, one thread, the task or the callback.  Only a
\* cancel that is refused takes one out of use.  So it is as long as the callback of the
\* alarm does not run while two cancels overlap (CNL_cancelRequest, CNL_checkCancel).
DummyOwnedOnce == ~crossed =>
  /\ \A i, j \in 1..7 : i # j => Owners[i] \cap Owners[j] = {}
  /\ \A d \in Dummies : \E i \in 1..7 : d \in Owners[i]
  /\ \A c, u \in Cancellers :
       th[c].pc \in Holding /\ th[u].pc \in Holding /\ th[c].dummy = th[u].dummy => c = u

InQueue(q) == {r \in Reqs : QueueOf(r) = q /\ req[r] # "out"}

\* Every request is answered once: one whose owner waits is in its queue or in the hand
\* of the task, and no other is.  The counters by which the queues are full count what
\* is in them, the dummies that took the place of requests too, as long as a dummy has
\* one owner.
RequestsAccounted ==
  /\ pending = InQueue("rx") \cup InQueue("tx") \cup ({hand.req} \ {None})
  /\ hand.req # None => req[hand.req] = "out"
  /\ cnt["rx"] = Cardinality(InQueue("rx"))
  /\ ~crossed => cnt["tx"] = Cardinality(InQueue("tx")) + Cardinality(copies)

\* For every thread that waits for a cancel, or is about to, an end of the wait is there
\* or to come, whichever of task and alarm gets the dummy, as long as a dummy has one owner.
Waiters == {c \in Cancellers : th[c].pc \in {"signal", "wait"}}
EndForEachWait == ~crossed => Cardinality(Waiters) <= Ends

\* As long as cancels come one after the other and no wait is interrupted, the answer of
\* a cancel is true: SUCCESS if it ended its target, NOOBJ or TIMEOUT if it did not, also
\* when the alarm comes together with the task.
ResultIsTrue ==
  clean => \A c \in Cancellers :
             At(c, "clear") => (status = "SUCCESS" <=> c \in told)

\* Under the same condition the task does not sleep over a cancel: the device is signalled
\* or the task is about to look at the cancel queue, so that the wait ends without the
\* alarm.  Between the queueing of the dummy and the signal it is the thread that will see
\* to it (CNL_cancelRequest).
CancelIsSeen ==
  clean /\ cancelQ # {} => sig \/ task = "cancel" \/ \E c \in Cancellers : At(c, "signal")

\* A second cancel is refused while one is under way: "ERR_RSVFUNC (the function has
\* already reserved)", cnl_schd.c:2329.  In the code the function is tested and reserved
\* in two steps.
OneReserves == \A c, u \in InCancel : c = u
=============================================================================

------------------------------ MODULE CnlRxProofs ------------------------------
(****************************************************************************)
(* Theorems about reception, for any number of requests, profiles, banks    *)
(* and links.                                                               *)
(*                                                                          *)
(* Whether or not the cached reading of the banks is true, a request is     *)
(* given what it has room for, because a piece is never longer than both    *)
(* what is ready and what is missing (Piece). And it is first in the one    *)
(* queue of its profile while it is filled: requests are appended empty,    *)
(* leave from anywhere, and only the first is touched.                      *)
(*                                                                          *)
(* The later parts are about the first link, whatever follows it: the       *)
(* cached reading is true, data in the banks is known to one party, and a   *)
(* request is given data of one message. On a second link all three fail    *)
(* (see the README).                                                        *)
(****************************************************************************)
EXTENDS CnlRx, SequenceTheorems, TLAPS

\* What the task relies on at its places, and what a request that is checked or
\* queued brings with it.
TaskInv ==
  /\ task.pc \in {"ready", "receive", "after"} => rxPid \in Profiles
  /\ task.pc = "after" => queue[rxPid] # <<>>
RequestInv ==
  \A r \in All : /\ req[r].st \in {"checked", "queued", "begun"} => req[r].pid \in Profiles
                 /\ req[r].st = "checked" => req[r].pos = 0

IInv == TypeOK /\ NoOverrun /\ QueuesInOrder /\ TaskInv /\ RequestInv

(****************************************************************************)
(* Types of what the task computes                                          *)
(****************************************************************************)
\* A remainder is in the range of its modulus.
LEMMA ModRange == ASSUME NEW x \in Int, NEW m \in Nat \ {0} PROVE x % m \in 0 .. m - 1
BY SMT

\* The moduli are not zero.
LEMMA WordSize == ASSUME RxAssumption PROVE Word \in Nat \ {0} /\ CsduSize \in Nat \ {0}
<1>1. CsduSize * RxCsduNum \in Nat
  BY DEF RxAssumption
<1> QED BY <1>1 DEF RxAssumption

\* A position moved on stays within a bank.
LEMMA MovedWithin ==
  ASSUME RxAssumption, NEW a \in Nat, NEW b \in Nat
  PROVE  (a + b) % CsduSize \in 0 .. CsduSize - 1
<1>1. a + b \in Int
  OBVIOUS
<1> QED BY <1>1, WordSize, ModRange

\* The headers tell a number of units and whether the message goes on.
LEMMA HeadersTyped ==
  ASSUME RxAssumption, TypeOK, NEW h \in Headers
  PROVE  h.units \in Int /\ h.more \in BOOLEAN
<1>1. CASE banks = <<>>
  BY <1>1 DEF Headers
<1>2. CASE banks # <<>>
  <2>1. PICK k \in DOMAIN banks : h = [units |-> End(k), more |-> banks[k].more]
    BY <1>2 DEF Headers
  <2>2. banks[k] \in Csdu /\ k \in Int
    BY DEF TypeOK
  <2>3. banks[k].len \in Int /\ banks[k].more \in BOOLEAN /\ CsduSize \in Int
    BY <2>2 DEF Csdu, RxAssumption
  <2>4. End(k) \in Int
    BY <2>2, <2>3 DEF End
  <2> QED BY <2>1, <2>3, <2>4
<1> QED BY <1>1, <1>2

\* What is cached of them is a state of the device's data.
LEMMA CachedTyped ==
  ASSUME RxAssumption, TypeOK, NEW h \in Headers
  PROVE  Cached(h) \in Device
<1>1. h.units \in Int /\ h.more \in BOOLEAN
  BY HeadersTyped
<1>2. dev \in Device /\ Word \in Nat \ {0} /\ dev.headPos \in Int
  BY WordSize DEF TypeOK, Device
<1>3. (h.units - dev.headPos) % Word \in 0 .. Word - 1
  <2>1. h.units - dev.headPos \in Int
    BY <1>1, <1>2
  <2> QED BY <1>2, <2>1, ModRange
<1>4. NeedReset(h) \in BOOLEAN
  BY DEF NeedReset
<1> QED BY <1>1, <1>2, <1>3, <1>4 DEF Cached, Device

\* Taking an element out of a queue leaves the others in their order.
LEMMA RemovedTyped ==
  ASSUME NEW S, NEW q \in Seq(S), NEW i \in DOMAIN q
  PROVE  /\ Removed(q, i) \in Seq(S)
         /\ DOMAIN Removed(q, i) = 1 .. Len(q) - 1
         /\ \A j \in 1 .. Len(q) - 1 :
              Removed(q, i)[j] = IF j < i THEN q[j] ELSE q[j + 1]
<1>1. Len(q) \in Nat /\ DOMAIN q = 1 .. Len(q) /\ Len(q) - 1 \in Nat
  OBVIOUS
<1>2. \A j \in 1 .. Len(q) - 1 : (IF j < i THEN q[j] ELSE q[j + 1]) \in S
  BY <1>1
<1>3. Removed(q, i) \in [1 .. Len(q) - 1 -> S]
  BY <1>2 DEF Removed
<1>4. Removed(q, i) \in Seq(S)
  BY <1>1, <1>3, SeqDef
<1> QED BY <1>3, <1>4 DEF Removed

\* A piece is no longer than what is ready nor than what is missing.
LEMMA Piece ==
  ASSUME TypeOK, NoOverrun, NEW r \in All
  PROVE  /\ Asked(r) \in Nat
         /\ Asked(r) <= task.ready
         /\ Asked(r) <= req[r].len - req[r].pos
<1>1. task.ready \in Nat /\ req[r].len \in Nat /\ req[r].pos \in Nat
  BY DEF TypeOK, Request
<1>2. req[r].pos <= req[r].len
  BY DEF NoOverrun
<1> QED BY <1>1, <1>2 DEF Asked, Least

(****************************************************************************)
(* Steps that leave requests and queues alone                               *)
(****************************************************************************)
\* They have to keep the types and what the task relies on.
LEMMA QuietStep ==
  ASSUME IInv, UNCHANGED <<queue, req>>, TypeOK', TaskInv'
  PROVE  IInv'
<1>1. NoOverrun'
  BY DEF IInv, NoOverrun
<1>2. QueuesInOrder'
  BY DEF IInv, QueuesInOrder
<1>3. RequestInv'
  BY DEF IInv, RequestInv
<1> QED BY <1>1, <1>2, <1>3 DEF IInv

\* The chip, the interrupt handler and the end of a link do not move the task.
LEMMA EnvironmentStep ==
  ASSUME RxAssumption, IInv, ChipConnects \/ Arrive \/ LinkLost \/ Connected \/ Interrupt
  PROVE  IInv'
<1> USE DEF IInv
<1>1. CASE ChipConnects
  <2>1. TypeOK' BY <1>1 DEF ChipConnects, TypeOK, events, ready
  <2>2. TaskInv' BY <1>1 DEF ChipConnects, TaskInv, ready
  <2> QED BY <1>1, <2>1, <2>2, QuietStep DEF ChipConnects
<1>2. CASE Arrive
  <2>1. PICK p \in Profiles, n \in 1 .. CsduSize, more \in BOOLEAN :
          /\ banks' = Append(banks, [pid |-> p, len |-> n, more |-> more, msg |-> peer.msg])
          /\ peer' = [sent |-> peer.sent + 1,
                      msg  |-> IF more THEN peer.msg ELSE peer.msg + 1,
                      open |-> IF more THEN p ELSE NoPid]
    BY <1>2 DEF Arrive
  <2>2. peer.msg \in Nat /\ peer.sent \in Nat
    BY DEF TypeOK
  <2>3. banks' \in Seq(Csdu) /\ Len(banks') <= RxCsduNum
    BY <1>2, <2>1, <2>2 DEF TypeOK, Arrive, Csdu, RxAssumption
  <2>4. peer' \in [sent : Nat, msg : Nat, open : Profiles \cup {NoPid}]
    BY <2>1, <2>2
  <2>5. sta' \in BOOLEAN
    BY <1>2 DEF Arrive, TypeOK
  <2>6. TypeOK' BY <1>2, <2>3, <2>4, <2>5 DEF Arrive, TypeOK, events, ready
  <2>7. TaskInv' BY <1>2 DEF Arrive, TaskInv, ready
  <2> QED BY <1>2, <2>6, <2>7, QuietStep DEF Arrive
<1>3. CASE LinkLost
  <2>1. TypeOK' BY <1>3 DEF LinkLost, TypeOK, ready
  <2>2. TaskInv' BY <1>3 DEF LinkLost, TaskInv, ready
  <2> QED BY <1>3, <2>1, <2>2, QuietStep DEF LinkLost
<1>4. CASE Connected
  <2>1. TypeOK' BY <1>4 DEF Connected, TypeOK, Goto, Pcs, events, ready
  <2>2. TaskInv' BY <1>4 DEF Connected, TaskInv, TypeOK, Goto
  <2> QED BY <1>4, <2>1, <2>2, QuietStep DEF Connected
<1>5. CASE Interrupt
  <2>1. TypeOK' /\ UNCHANGED <<queue, req, rxPid, task>>
    BY <1>5 DEF Interrupt, IrqClear, IrqLook, IrqAdd, TypeOK, chip, events, ready
  <2>2. TaskInv' BY <2>1 DEF TaskInv
  <2> QED BY <2>1, <2>2, QuietStep
<1> QED BY <1>1, <1>2, <1>3, <1>4, <1>5

\* The scheduler goes to the banks only with a profile in hand.
LEMMA SchedulerStep ==
  ASSUME RxAssumption, IInv, Wakeup \/ Scheduler
  PROVE  IInv'
<1> USE DEF IInv
<1>1. CASE Wakeup
  <2>1. TypeOK' BY <1>1 DEF Wakeup, TypeOK, Goto, Pcs, chip, ready
  <2>2. TaskInv' BY <1>1 DEF Wakeup, TaskInv, TypeOK, Goto
  <2> QED BY <1>1, <2>1, <2>2, QuietStep DEF Wakeup
<1>2. CASE CheckEvent
  <2>1. TypeOK' BY <1>2 DEF CheckEvent, TypeOK, Goto, Pcs, chip
  <2>2. TaskInv' BY <1>2 DEF CheckEvent, TaskInv, TypeOK, Goto
  <2> QED BY <1>2, <2>1, <2>2, QuietStep DEF CheckEvent
<1>3. CASE CheckRxRequest
  <2>1. CASE link /\ rxReady
    <3>1. PICK p \in ReadyPid :
            /\ rxPid' = p
            /\ Goto(IF queue[p] # <<>> THEN "ready" ELSE IF ev \/ over THEN "sched" ELSE "wait")
      BY <1>3, <2>1 DEF CheckRxRequest
    <3>2. p \in Profiles
      <4>1. CASE rxPid # NoPid
        BY <3>1, <4>1 DEF ReadyPid, TypeOK
      <4>2. CASE rxPid = NoPid /\ banks = <<>>
        BY <3>1, <4>2 DEF ReadyPid
      <4>3. CASE rxPid = NoPid /\ banks # <<>>
        <5>1. Head(banks) \in Csdu
          BY <4>3 DEF TypeOK
        <5> QED BY <3>1, <4>3, <5>1 DEF ReadyPid, Csdu
      <4> QED BY <4>1, <4>2, <4>3
    <3>3. TypeOK'
      BY <1>3, <3>1, <3>2 DEF CheckRxRequest, TypeOK, Goto, Pcs, chip, events
    <3>4. TaskInv'
      BY <3>1, <3>2 DEF TaskInv, TypeOK, Goto
    <3> QED BY <1>3, <3>3, <3>4, QuietStep DEF CheckRxRequest
  <2>2. CASE ~(link /\ rxReady)
    <3>1. rxPid' = rxPid /\ Goto(IF ev \/ over THEN "sched" ELSE "wait")
      BY <1>3, <2>2 DEF CheckRxRequest
    <3>2. TypeOK' BY <1>3, <3>1 DEF CheckRxRequest, TypeOK, Goto, Pcs, chip, events
    <3>3. TaskInv' BY <3>1 DEF TaskInv, TypeOK, Goto
    <3> QED BY <1>3, <3>2, <3>3, QuietStep DEF CheckRxRequest
  <2> QED BY <2>1, <2>2
<1>4. CASE ReadReadyBuffer
  <2>1. dev' \in Device
    BY <1>4, CachedTyped DEF ReadReadyBuffer, TypeOK
  <2>2. task' = [task EXCEPT !.pc = "receive", !.ready = dev'.remain]
    BY <1>4 DEF ReadReadyBuffer
  <2>3. TypeOK' BY <1>4, <2>1, <2>2 DEF ReadReadyBuffer, TypeOK, Device, Pcs, chip, events, ready
  <2>4. TaskInv' BY <1>4, <2>2 DEF ReadReadyBuffer, At, TaskInv, TypeOK, ready
  <2> QED BY <1>4, <2>3, <2>4, QuietStep DEF ReadReadyBuffer
<1> QED BY <1>1, <1>2, <1>3, <1>4 DEF Scheduler

\* The steps of CNL_actionReceiveData that touch no request.
LEMMA ReckoningStep ==
  ASSUME RxAssumption, IInv,
         NoMoreToReceive \/ ReadReadyRxBuffer \/ CountBanks \/ DropEvent
           \/ EnableInterrupt \/ EndReceive
  PROVE  IInv'
<1> USE DEF IInv
<1>1. CASE NoMoreToReceive
  <2>1. TypeOK' BY <1>1 DEF NoMoreToReceive, TypeOK, Goto, Pcs, chip, events, ready
  <2>2. TaskInv' BY <1>1 DEF NoMoreToReceive, TaskInv, TypeOK, Goto
  <2> QED BY <1>1, <2>1, <2>2, QuietStep DEF NoMoreToReceive
<1>2. CASE ReadReadyRxBuffer
  <2>1. CASE UNCHANGED dev /\ Goto("receive")
    <3>1. TypeOK' BY <1>2, <2>1 DEF ReadReadyRxBuffer, TypeOK, Goto, Pcs, chip, events, ready
    <3>2. TaskInv' BY <1>2, <2>1 DEF ReadReadyRxBuffer, At, TaskInv, TypeOK, Goto, ready
    <3> QED BY <1>2, <3>1, <3>2, QuietStep DEF ReadReadyRxBuffer
  <2>2. CASE \E h \in Headers :
               /\ dev' = Cached(h)
               /\ task' = [task EXCEPT !.pc = "receive", !.ready = (@ + dev'.remain) % Word]
    <3>1. dev' \in Device
      BY <2>2, CachedTyped
    <3>2. task' = [task EXCEPT !.pc = "receive", !.ready = (task.ready + dev'.remain) % Word]
      BY <2>2
    <3>3. (task.ready + dev'.remain) % Word \in 0 .. Word - 1
      <4>1. task.ready + dev'.remain \in Int
        BY <3>1, WordSize DEF TypeOK, Device
      <4> QED BY <4>1, WordSize, ModRange
    <3>4. TypeOK' BY <1>2, <3>1, <3>2, <3>3
                  DEF ReadReadyRxBuffer, TypeOK, Pcs, chip, events, ready
    <3>5. TaskInv' BY <1>2, <3>2 DEF ReadReadyRxBuffer, At, TaskInv, TypeOK, ready
    <3> QED BY <1>2, <3>4, <3>5, QuietStep DEF ReadReadyRxBuffer
  <2> QED BY <1>2, <2>1, <2>2 DEF ReadReadyRxBuffer
<1>3. CASE CountBanks
  <2>1. TypeOK' BY <1>3 DEF CountBanks, TypeOK, Goto, Pcs, chip, ready
  <2>2. TaskInv' BY <1>3 DEF CountBanks, TaskInv, TypeOK, Goto
  <2> QED BY <1>3, <2>1, <2>2, QuietStep DEF CountBanks
<1>4. CASE DropEvent
  <2>1. TypeOK' BY <1>4 DEF DropEvent, TypeOK, Goto, Pcs, chip, ready
  <2>2. TaskInv' BY <1>4 DEF DropEvent, TaskInv, TypeOK, Goto
  <2> QED BY <1>4, <2>1, <2>2, QuietStep DEF DropEvent
<1>5. CASE EnableInterrupt
  <2>1. TypeOK' BY <1>5 DEF EnableInterrupt, TypeOK, Goto, Pcs, events, ready
  <2>2. TaskInv' BY <1>5 DEF EnableInterrupt, TaskInv, TypeOK, Goto
  <2> QED BY <1>5, <2>1, <2>2, QuietStep DEF EnableInterrupt
<1>6. CASE EndReceive
  <2>1. TypeOK' BY <1>6 DEF EndReceive, TypeOK, Goto, Pcs, chip, events, ready
  <2>2. TaskInv' BY <1>6 DEF EndReceive, TaskInv, TypeOK, Goto
  <2> QED BY <1>6, <2>1, <2>2, QuietStep DEF EndReceive
<1> QED BY <1>1, <1>2, <1>3, <1>4, <1>5, <1>6

(****************************************************************************)
(* Steps that fill requests, or move them                                   *)
(****************************************************************************)
\* The first request of a queue is one of the profile's.
LEMMA FirstQueued ==
  ASSUME IInv, rxPid \in Profiles, queue[rxPid] # <<>>
  PROVE  /\ First \in All /\ 1 \in DOMAIN queue[rxPid] /\ First = queue[rxPid][1]
         /\ req[First].pid = rxPid /\ req[First].st \in {"queued", "begun"}
<1>1. queue[rxPid] \in Seq(All)
  BY DEF IInv, TypeOK
<1>2. 1 \in DOMAIN queue[rxPid] /\ First = queue[rxPid][1] /\ First \in All
  BY <1>1 DEF First
<1> QED BY <1>2 DEF IInv, QueuesInOrder

\* A change of requests that leaves their profiles alone, and in the queues but for the
\* first of one, keeps the queues in order.
LEMMA FillStep ==
  ASSUME IInv, NEW p \in Profiles, 1 \in DOMAIN queue[p], NEW r, r = queue[p][1],
         UNCHANGED queue,
         \A s \in All \ {r} : req'[s] = req[s],
         req'[r].pid = req[r].pid, req'[r].st \in {"queued", "begun"}
  PROVE  QueuesInOrder'
<1> SUFFICES ASSUME NEW q \in Profiles, NEW i \in DOMAIN queue[q]
             PROVE  /\ req'[queue[q][i]].pid = q
                    /\ req'[queue[q][i]].st \in {"queued", "begun"}
                    /\ \A j \in DOMAIN queue[q] : queue[q][j] = queue[q][i] => i = j
                    /\ (req'[queue[q][i]].pos > 0 => i = 1)
  BY DEF QueuesInOrder
<1>1. /\ req[queue[q][i]].pid = q
      /\ req[queue[q][i]].st \in {"queued", "begun"}
      /\ \A j \in DOMAIN queue[q] : queue[q][j] = queue[q][i] => i = j
      /\ (req[queue[q][i]].pos > 0 => i = 1)
  BY DEF IInv, QueuesInOrder
<1>2. queue[q][i] \in All
  BY DEF IInv, TypeOK
<1>3. CASE queue[q][i] = r
  <2>1. req[r].pid = p
    BY DEF IInv, QueuesInOrder
  <2>2. p = q /\ i = 1
    BY <1>1, <1>3, <2>1
  <2> QED BY <1>1, <1>3, <2>2
<1>4. CASE queue[q][i] # r
  BY <1>1, <1>2, <1>4
<1> QED BY <1>3, <1>4

\* A piece is put into the first request; what was read of the banks stays a state of
\* theirs.
LEMMA ReceiveStep == ASSUME RxAssumption, IInv, ReceiveData PROVE IInv'
<1> USE DEF IInv
<1> DEFINE r == First
<1> DEFINE all == Asked(r) >= dev.remain
<1> DEFINE n == IF all THEN dev.remain ELSE Asked(r)
<1>1. PICK k \in 0 .. Len(banks), read \in BOOLEAN :
        /\ banks' = SubSeq(banks, k + 1, Len(banks))
        /\ pos' = After(k, n)
        /\ fifo' = IF all /\ dev.reset THEN 0 ELSE (fifo + n) % CsduSize
        /\ dev' = [dev EXCEPT
             !.remain  = IF all THEN 0 ELSE dev.remain - Asked(r),
             !.reset   = @ /\ ~all,
             !.headPos = HeadPosAfter(all, n)]
        /\ req' = [req EXCEPT ![r] = Filled(r, k, n, read)]
        /\ task' = [pc |-> "after", ready |-> task.ready - n, more |-> MoreAfter(all)]
  BY DEF ReceiveData
<1>2. /\ UNCHANGED <<chan, sta, en, peer, irq, ev, over, sig, link, rxReady, rxPid, queue, links>>
      /\ At("receive") /\ queue[rxPid] # <<>>
  BY DEF ReceiveData, events, ready
<1>3. rxPid \in Profiles
  BY <1>2 DEF TaskInv, At
<1>4. /\ r \in All /\ 1 \in DOMAIN queue[rxPid] /\ r = queue[rxPid][1]
      /\ req[r].pid = rxPid
  BY <1>2, <1>3, FirstQueued
<1>5. dev \in Device /\ dev.remain \in Nat /\ dev.more \in BOOLEAN /\ dev.headPos \in Nat
  BY WordSize DEF TypeOK, Device
<1>6. Asked(r) \in Nat /\ Asked(r) <= task.ready /\ Asked(r) <= req[r].len - req[r].pos
  BY <1>4, Piece
<1>7. n \in Nat /\ n <= Asked(r)
  BY <1>5, <1>6
<1>8. CsduSize \in Nat \ {0} /\ pos \in Nat /\ fifo \in Nat
  BY WordSize DEF TypeOK
<1> HIDE DEF r
<1>9. req[r] \in Request
  BY <1>4 DEF TypeOK
<1>10. banks' \in Seq(Csdu) /\ Len(banks') <= RxCsduNum
  <2>1. banks \in Seq(Csdu) /\ Len(banks) <= RxCsduNum /\ Len(banks) \in Nat
    BY DEF TypeOK
  <2>2. RxCsduNum \in Nat
    BY DEF RxAssumption
  <2>3. banks' = SubSeq(banks, k + 1, Len(banks))
    BY <1>1
  <2> QED BY <2>1, <2>2, <2>3
<1> HIDE DEF n
<1>11. pos' \in 0 .. CsduSize - 1 /\ fifo' \in 0 .. CsduSize - 1
  <2>1. (pos + n) % CsduSize \in 0 .. CsduSize - 1
    BY <1>7, <1>8, MovedWithin
  <2>2. (fifo + n) % CsduSize \in 0 .. CsduSize - 1
    BY <1>7, <1>8, MovedWithin
  <2>3. 0 \in 0 .. CsduSize - 1
    BY <1>8
  <2> QED BY <1>1, <2>1, <2>2, <2>3 DEF After
<1>12. dev' \in Device
  <2>1. (dev.headPos + n) % CsduSize \in 0 .. CsduSize - 1
    BY <1>5, <1>7, MovedWithin
  <2>2. HeadPosAfter(all, n) \in 0 .. CsduSize - 1
    BY <1>8, <2>1 DEF HeadPosAfter
  <2>3. (IF all THEN 0 ELSE dev.remain - Asked(r)) \in 0 .. Word - 1
    BY <1>5, <1>6, WordSize DEF Device
  <2> HIDE DEF all, n
  <2>4. (dev.reset /\ ~all) \in BOOLEAN
    OBVIOUS
  <2>5. dev' = [dev EXCEPT !.remain  = IF all THEN 0 ELSE dev.remain - Asked(r),
                           !.reset   = dev.reset /\ ~all,
                           !.headPos = HeadPosAfter(all, n)]
    BY <1>1
  <2> QED BY <1>5, <2>2, <2>3, <2>4, <2>5 DEF Device
<1>13. task' \in [pc : Pcs, ready : 0 .. Word - 1, more : BOOLEAN]
  <2>1. task.ready \in 0 .. Word - 1
    BY DEF TypeOK
  <2>2. task.ready - n \in 0 .. Word - 1
    BY <1>6, <1>7, <2>1, WordSize
  <2>3. MoreAfter(all) \in BOOLEAN
    BY <1>5 DEF MoreAfter
  <2> HIDE DEF all, n
  <2> QED BY <1>1, <2>2, <2>3 DEF Pcs
<1>14. Touched(k, n) \subseteq [pid : Profiles, msg : Nat]
  <2>1. ASSUME NEW i \in 1 .. Len(banks)
        PROVE  banks[i].pid \in Profiles /\ banks[i].msg \in Nat
    <3>1. banks[i] \in Csdu
      BY DEF TypeOK
    <3> QED BY <3>1 DEF Csdu
  <2>2. Least(k + 1, Len(banks)) <= Len(banks) /\ Least(k + 1, Len(banks)) \in Nat
    BY DEF Least, TypeOK
  <2> HIDE DEF n
  <2> DEFINE last == IF After(k, n) > 0 THEN Least(k + 1, Len(banks)) ELSE k
  <2>3. last \in Int /\ last <= Len(banks)
    BY <2>2
  <2>4. Touched(k, n) = {[pid |-> banks[i].pid, msg |-> banks[i].msg] : i \in 1 .. last}
    BY DEF Touched
  <2> HIDE DEF last
  <2>5. \A i \in 1 .. last : i \in 1 .. Len(banks)
    BY <2>3 DEF TypeOK
  <2> QED BY <2>1, <2>4, <2>5
<1> HIDE DEF all
<1>15. /\ req' = [req EXCEPT ![r] = req'[r]] /\ req'[r] \in Request
       /\ req'[r].pid = req[r].pid /\ req'[r].len = req[r].len
       /\ req'[r].st = "begun" /\ req'[r].pos = req[r].pos + n
  <2> HIDE DEF n
  <2> DEFINE to == req[r].pos + n
  <2> DEFINE seen == req[r].from \cup Touched(k, n)
  <2> DEFINE ended == k > 0 /\ After(k, n) = 0 /\ ~banks[k].more
  <2> DEFINE done == req[r].read /\ read
  <2>1. req'[r] = Filled(r, k, n, read)
    BY <1>1, <1>4 DEF TypeOK
  <2>2. req' = [req EXCEPT ![r] = req'[r]]
    BY <1>1, <2>1
  <2>3. Filled(r, k, n, read)
          = [req[r] EXCEPT !.st = "begun", !.pos = to, !.from = seen, !.ended = ended,
                           !.read = done]
    BY DEF Filled
  <2>4. ended \in BOOLEAN /\ done \in BOOLEAN
    OBVIOUS
  <2>5. to \in Nat /\ seen \in SUBSET [pid : Profiles, msg : Nat]
    BY <1>7, <1>9, <1>14 DEF Request
  <2> HIDE DEF to, seen, ended, done
  <2>6. /\ req'[r] \in Request
        /\ req'[r].pid = req[r].pid /\ req'[r].len = req[r].len
        /\ req'[r].st = "begun" /\ req'[r].pos = to
    <3>1. req'[r] = [req[r] EXCEPT !.st = "begun", !.pos = to, !.from = seen,
                                   !.ended = ended, !.read = done]
      BY <2>1, <2>3
    <3> DEFINE old == req[r]
    <3> DEFINE new == req'[r]
    <3>2. old \in Request /\ new = [old EXCEPT !.st = "begun", !.pos = to, !.from = seen,
                                   !.ended = ended, !.read = done]
      BY <1>9, <3>1
    <3> HIDE DEF old, new
    <3>3. /\ new \in Request
          /\ new.pid = old.pid /\ new.len = old.len /\ new.st = "begun" /\ new.pos = to
      BY <2>4, <2>5, <3>2 DEF Request
    <3> QED BY <3>3 DEF old, new
  <2> QED BY <2>2, <2>6 DEF to
<1>16. req' \in [All -> Request] /\ \A s \in All \ {r} : req'[s] = req[s]
  BY <1>15 DEF TypeOK
<1>17. TypeOK'
  BY <1>2, <1>10, <1>11, <1>12, <1>13, <1>16 DEF TypeOK
<1>18. NoOverrun'
  <2> HIDE DEF n
  <2>1. req[r].len \in Nat /\ req[r].pos \in Nat
    BY <1>9 DEF Request
  <2>2. req'[r].pos <= req'[r].len
    BY <1>6, <1>7, <1>15, <2>1
  <2>3. \A s \in All \ {r} : req'[s].pos <= req'[s].len
    BY <1>16 DEF NoOverrun
  <2> QED BY <2>2, <2>3 DEF NoOverrun
<1>19. QueuesInOrder'
  BY <1>2, <1>3, <1>4, <1>15, <1>16, FillStep
<1>20. TaskInv'
  BY <1>1, <1>2, <1>3 DEF TaskInv
<1>21. RequestInv'
  BY <1>3, <1>4, <1>15, <1>16 DEF RequestInv
<1> QED BY <1>17, <1>18, <1>19, <1>20, <1>21

\* A change of requests that are in no queue.
LEMMA OutsideStep ==
  ASSUME IInv, UNCHANGED queue,
         \A s \in All : req[s].st \in {"queued", "begun"} => req'[s] = req[s]
  PROVE  QueuesInOrder'
<1> SUFFICES ASSUME NEW q \in Profiles, NEW i \in DOMAIN queue[q]
             PROVE  /\ req'[queue[q][i]].pid = q
                    /\ req'[queue[q][i]].st \in {"queued", "begun"}
                    /\ \A j \in DOMAIN queue[q] : queue[q][j] = queue[q][i] => i = j
                    /\ (req'[queue[q][i]].pos > 0 => i = 1)
  BY DEF QueuesInOrder
<1>1. /\ req[queue[q][i]].pid = q
      /\ req[queue[q][i]].st \in {"queued", "begun"}
      /\ \A j \in DOMAIN queue[q] : queue[q][j] = queue[q][i] => i = j
      /\ (req[queue[q][i]].pos > 0 => i = 1)
  BY DEF IInv, QueuesInOrder
<1>2. queue[q][i] \in All
  BY DEF IInv, TypeOK
<1> QED BY <1>1, <1>2

\* An empty request is appended to the queue of its profile.
LEMMA AppendStep ==
  ASSUME IInv, NEW r \in All, req[r].st = "checked",
         queue' = [queue EXCEPT ![req[r].pid] = Append(@, r)],
         req' = [req EXCEPT ![r].st = "queued"]
  PROVE  QueuesInOrder' /\ queue' \in [Profiles -> Seq(All)] /\ req' \in [All -> Request]
<1> DEFINE p == req[r].pid
<1>1. p \in Profiles /\ req[r].pos = 0 /\ req[r] \in Request
  BY DEF IInv, RequestInv, TypeOK
<1>2. queue[p] \in Seq(All) /\ Len(queue[p]) \in Nat
  BY <1>1 DEF IInv, TypeOK
<1>3. queue' = [queue EXCEPT ![p] = Append(queue[p], r)]
  OBVIOUS
<1>4. /\ req' = [req EXCEPT ![r] = [req[r] EXCEPT !.st = "queued"]]
      /\ req'[r].st = "queued" /\ req'[r].pid = p /\ req'[r].pos = 0
      /\ \A s \in All \ {r} : req'[s] = req[s]
  BY <1>1 DEF IInv, TypeOK, Request
<1> HIDE DEF p
<1>5. req' \in [All -> Request]
  <2>1. [req[r] EXCEPT !.st = "queued"] \in Request
    BY <1>1 DEF Request
  <2> QED BY <1>4, <2>1 DEF IInv, TypeOK
<1>6. queue' \in [Profiles -> Seq(All)]
  <2>1. Append(queue[p], r) \in Seq(All)
    BY <1>2
  <2>2. queue \in [Profiles -> Seq(All)]
    BY DEF IInv, TypeOK
  <2> QED BY <1>3, <2>1, <2>2
<1>7. QueuesInOrder'
  <2> SUFFICES ASSUME NEW q \in Profiles, NEW i \in DOMAIN queue'[q]
               PROVE  /\ req'[queue'[q][i]].pid = q
                      /\ req'[queue'[q][i]].st \in {"queued", "begun"}
                      /\ \A j \in DOMAIN queue'[q] : queue'[q][j] = queue'[q][i] => i = j
                      /\ (req'[queue'[q][i]].pos > 0 => i = 1)
    BY DEF QueuesInOrder
  <2>1. \A j \in DOMAIN queue[q] :
          /\ queue[q][j] \in All /\ queue[q][j] # r
          /\ req[queue[q][j]].pid = q
          /\ req[queue[q][j]].st \in {"queued", "begun"}
          /\ \A l \in DOMAIN queue[q] : queue[q][l] = queue[q][j] => j = l
          /\ (req[queue[q][j]].pos > 0 => j = 1)
    BY DEF IInv, TypeOK, QueuesInOrder
  <2>2. CASE q # p
    <3>1. queue'[q] = queue[q]
      BY <1>3, <2>2 DEF IInv, TypeOK
    <3> QED BY <1>4, <2>1, <3>1
  <2>3. CASE q = p
    <3>1. /\ DOMAIN queue'[q] = 1 .. Len(queue[q]) + 1
          /\ DOMAIN queue[q] = 1 .. Len(queue[q])
          /\ queue'[q][Len(queue[q]) + 1] = r
          /\ \A j \in DOMAIN queue[q] : queue'[q][j] = queue[q][j]
      <4>1. queue'[q] = Append(queue[q], r)
        BY <1>3, <2>3 DEF IInv, TypeOK
      <4> QED BY <1>2, <2>3, <4>1
    <3>2. \A j \in 1 .. Len(queue[q]) + 1 : j \in DOMAIN queue[q] \/ j = Len(queue[q]) + 1
      BY <1>2, <2>3, <3>1
    <3>3. CASE i \in DOMAIN queue[q]
      <4>1. queue'[q][i] = queue[q][i] /\ queue[q][i] \in All \ {r}
        BY <2>1, <3>1, <3>3
      <4>2. req'[queue'[q][i]] = req[queue[q][i]]
        BY <1>4, <4>1
      <4>3. \A j \in DOMAIN queue'[q] : queue'[q][j] = queue'[q][i] => i = j
        BY <2>1, <3>1, <3>2, <3>3, <4>1
      <4> QED BY <2>1, <3>3, <4>2, <4>3
    <3>4. CASE i = Len(queue[q]) + 1
      <4>1. queue'[q][i] = r
        BY <3>1, <3>4
      <4>2. \A j \in DOMAIN queue'[q] : queue'[q][j] = queue'[q][i] => i = j
        BY <2>1, <3>1, <3>2, <3>4, <4>1
      <4> QED BY <1>4, <2>3, <4>1, <4>2
    <3> QED BY <3>1, <3>2, <3>3, <3>4
  <2> QED BY <2>2, <2>3
<1> QED BY <1>5, <1>6, <1>7

\* The i-th request leaves its queue, and the others keep their order.
LEMMA LeaveStep ==
  ASSUME IInv, NEW p \in Profiles, NEW i \in DOMAIN queue[p], NEW out \in Seq(All),
         DOMAIN out = 1 .. Len(queue[p]) - 1,
         \A j \in 1 .. Len(queue[p]) - 1 :
           out[j] = IF j < i THEN queue[p][j] ELSE queue[p][j + 1],
         queue' = [queue EXCEPT ![p] = out],
         \A s \in All \ {queue[p][i]} : req'[s] = req[s]
  PROVE  QueuesInOrder' /\ queue' \in [Profiles -> Seq(All)]
<1>1. queue' \in [Profiles -> Seq(All)]
  BY DEF IInv, TypeOK
<1>2. QueuesInOrder'
  <2> SUFFICES ASSUME NEW q \in Profiles, NEW m \in DOMAIN queue'[q]
               PROVE  /\ req'[queue'[q][m]].pid = q
                      /\ req'[queue'[q][m]].st \in {"queued", "begun"}
                      /\ \A j \in DOMAIN queue'[q] : queue'[q][j] = queue'[q][m] => m = j
                      /\ (req'[queue'[q][m]].pos > 0 => m = 1)
    BY DEF QueuesInOrder
  <2>1. \A s \in Profiles : \A j \in DOMAIN queue[s] :
          /\ queue[s][j] \in All
          /\ req[queue[s][j]].pid = s
          /\ req[queue[s][j]].st \in {"queued", "begun"}
          /\ \A l \in DOMAIN queue[s] : queue[s][l] = queue[s][j] => j = l
          /\ (req[queue[s][j]].pos > 0 => j = 1)
    BY DEF IInv, TypeOK, QueuesInOrder
  <2>2. CASE q # p
    <3>1. queue'[q] = queue[q]
      BY <2>2 DEF IInv, TypeOK
    <3>2. \A j \in DOMAIN queue[q] : queue[q][j] # queue[p][i]
      BY <2>1, <2>2
    <3> QED BY <2>1, <3>1, <3>2
  <2>3. CASE q = p
    <3> DEFINE At0(j) == IF j < i THEN j ELSE j + 1
    <3>1. queue'[q] = out
      BY <2>3 DEF IInv, TypeOK
    <3>2. Len(queue[p]) \in Nat /\ DOMAIN queue[p] = 1 .. Len(queue[p])
      BY DEF IInv, TypeOK
    <3>3. \A j \in DOMAIN out : /\ At0(j) \in DOMAIN queue[p] \ {i}
                                /\ out[j] = queue[p][At0(j)]
                                /\ (At0(j) = 1 => j = 1)
      BY <3>2
    <3>4. \A j, l \in DOMAIN out : At0(j) = At0(l) => j = l
      BY <3>2
    <3> HIDE DEF At0
    <3>5. m \in DOMAIN out
      BY <3>1
    <3>6. queue[p][At0(m)] \in All \ {queue[p][i]}
      BY <2>1, <3>3, <3>5
    <3>7. req'[out[m]] = req[queue[p][At0(m)]]
      BY <3>3, <3>5, <3>6
    <3>8. \A j \in DOMAIN out : out[j] = out[m] => m = j
      BY <2>1, <3>3, <3>4, <3>5
    <3> QED BY <2>1, <2>3, <3>1, <3>3, <3>5, <3>7, <3>8
  <2> QED BY <2>2, <2>3
<1> QED BY <1>1, <1>2

\* A new request is one of no profile, and holds nothing.
LEMMA NewReqTyped ==
  ASSUME RxAssumption
  PROVE  NewReq \in Request /\ NewReq.pos = 0 /\ NewReq.len = 0 /\ NewReq.st = "out"
BY DEF NewReq, Request

\* Callers make requests, which are checked, and put into a queue or given back.
LEMMA CallerStep ==
  ASSUME RxAssumption, IInv,
         \/ \E r \in Reqs : Check(r) \/ Enqueue(r)
         \/ \E d \in Discards : CheckDiscard(d) \/ EnqueueDiscard(d)
  PROVE  IInv'
<1> USE DEF IInv
<1>1. PICK r \in All :
        \/ r \in Reqs /\ (Check(r) \/ Enqueue(r))
        \/ r \in Discards /\ (CheckDiscard(r) \/ EnqueueDiscard(r))
  BY DEF All
<1>2. CASE Check(r) \/ CheckDiscard(r)
  <2>1. CsduSize \in Nat /\ Lengths \subseteq Nat
    BY WordSize DEF RxAssumption
  <2>2. PICK p \in Profiles, n \in Nat :
          req' = [req EXCEPT ![r] = [NewReq EXCEPT !.st = "checked", !.pid = p, !.len = n]]
    BY <1>2, <2>1 DEF Check, CheckDiscard
  <2>3. UNCHANGED <<chip, irq, events, link, ready, dev, queue, task, links>>
    BY <1>2 DEF Check, CheckDiscard
  <2>4. req[r].st \in {"out", "answered"}
    BY <1>2 DEF Check, CheckDiscard, Callable
  <2> DEFINE made == [NewReq EXCEPT !.st = "checked", !.pid = p, !.len = n]
  <2>5. made \in Request /\ made.pos = 0 /\ made.len = n /\ made.pid = p /\ made.st = "checked"
    BY DEF NewReq, Request
  <2> HIDE DEF made
  <2>6. req' = [req EXCEPT ![r] = made]
    BY <2>2 DEF made
  <2>7. req'[r] = made /\ \A s \in All \ {r} : req'[s] = req[s]
    BY <2>6 DEF TypeOK
  <2>8. TypeOK'
    BY <2>3, <2>5, <2>6 DEF TypeOK, chip, events, ready
  <2>9. NoOverrun'
    BY <2>5, <2>7 DEF NoOverrun
  <2>10. QueuesInOrder'
    BY <2>3, <2>4, <2>7, OutsideStep
  <2>11. TaskInv'
    BY <2>3 DEF TaskInv, ready
  <2>12. RequestInv'
    BY <2>5, <2>7 DEF RequestInv
  <2> QED BY <2>8, <2>9, <2>10, <2>11, <2>12
<1>3. CASE Enqueue(r) \/ EnqueueDiscard(r)
  <2>1. AddToRxQueue(r) /\ sig' \in BOOLEAN
    BY <1>3 DEF Enqueue, EnqueueDiscard, TypeOK
  <2>2. UNCHANGED <<chip, irq, ev, over, link, ready, dev, task, links>> /\ req[r].st = "checked"
    BY <2>1 DEF AddToRxQueue
  <2>3. req[r] \in Request /\ req[r].pid \in Profiles /\ req[r].pos = 0
    BY <2>2 DEF TypeOK, RequestInv
  <2>4. CASE /\ queue' = [queue EXCEPT ![req[r].pid] = Append(@, r)]
             /\ req' = [req EXCEPT ![r].st = "queued"]
    <3>1. QueuesInOrder' /\ queue' \in [Profiles -> Seq(All)] /\ req' \in [All -> Request]
      BY <2>2, <2>4, AppendStep
    <3>2. TypeOK'
      BY <2>1, <2>2, <3>1 DEF TypeOK, chip, ready
    <3>3. \A s \in All : /\ req'[s].pos = req[s].pos /\ req'[s].len = req[s].len
                         /\ req'[s].pid = req[s].pid
                         /\ req'[s].st = req[s].st \/ (s = r /\ req'[s].st = "queued")
      BY <2>3, <2>4 DEF TypeOK, Request
    <3>4. NoOverrun'
      BY <3>3 DEF NoOverrun
    <3>5. RequestInv'
      BY <2>3, <3>3 DEF RequestInv
    <3>6. TaskInv'
      <4>1. ASSUME NEW p \in Profiles, queue[p] # <<>> PROVE queue'[p] # <<>>
        <5>1. CASE p = req[r].pid
          <6>1. queue[p] \in Seq(All) /\ queue'[p] = Append(queue[p], r)
            BY <2>4, <5>1 DEF TypeOK
          <6> QED BY <6>1
        <5>2. CASE p # req[r].pid
          BY <2>4, <4>1, <5>2 DEF TypeOK
        <5> QED BY <5>1, <5>2
      <4> QED BY <2>2, <4>1 DEF TaskInv, ready
    <3> QED BY <3>1, <3>2, <3>4, <3>5, <3>6
  <2>5. CASE UNCHANGED queue /\ req' = [req EXCEPT ![r] = NewReq]
    <3>1. req'[r] = NewReq /\ \A s \in All \ {r} : req'[s] = req[s]
      BY <2>5 DEF TypeOK
    <3>2. TypeOK'
      BY <2>1, <2>2, <2>5, NewReqTyped DEF TypeOK, chip, ready
    <3>3. NoOverrun' /\ RequestInv'
      <4>1. req'[r].pos <= req'[r].len /\ req'[r].st = "out"
        BY <3>1, NewReqTyped
      <4>2. NoOverrun'
        BY <3>1, <4>1 DEF NoOverrun
      <4>3. RequestInv'
        BY <3>1, <4>1 DEF RequestInv
      <4> QED BY <4>2, <4>3
    <3>4. QueuesInOrder'
      BY <2>2, <2>5, <3>1, OutsideStep
    <3>5. TaskInv'
      BY <2>2, <2>5 DEF TaskInv, ready
    <3> QED BY <3>2, <3>3, <3>4, <3>5
  <2> QED BY <2>1, <2>4, <2>5 DEF AddToRxQueue
<1> QED BY <1>1, <1>2, <1>3

\* A cancelled request leaves its queue from wherever it is.
LEMMA CancelStep == ASSUME RxAssumption, IInv, NEW r \in Reqs, Cancel(r) PROVE IInv'
<1> USE DEF IInv
<1>1. /\ req' = [req EXCEPT ![r] = NewReq] /\ Goto("sched")
      /\ UNCHANGED <<chip, irq, events, link, ready, dev, links>>
      /\ r \in All /\ req[r].st \in {"queued", "begun"}
  BY DEF Cancel, All
<1>2. req[r].pid \in Profiles
  BY <1>1 DEF RequestInv
<1> DEFINE p == req[r].pid
<1>3. PICK i \in DOMAIN queue[p] :
        queue[p][i] = r /\ queue' = [queue EXCEPT ![p] = Removed(queue[p], i)]
  BY DEF Cancel
<1>4. queue[p] \in Seq(All)
  BY <1>2 DEF TypeOK
<1>5. req'[r] = NewReq /\ \A s \in All \ {r} : req'[s] = req[s]
  BY <1>1 DEF TypeOK
<1> DEFINE out == Removed(queue[p], i)
<1>6. /\ out \in Seq(All) /\ DOMAIN out = 1 .. Len(queue[p]) - 1
      /\ \A j \in 1 .. Len(queue[p]) - 1 :
           out[j] = IF j < i THEN queue[p][j] ELSE queue[p][j + 1]
  BY <1>4, RemovedTyped
<1>7. queue' = [queue EXCEPT ![p] = out]
  BY <1>3
<1> HIDE DEF out, p
<1>8. QueuesInOrder' /\ queue' \in [Profiles -> Seq(All)]
  <2>1. p \in Profiles
    BY <1>2 DEF p
  <2> QED BY <1>3, <1>5, <1>6, <1>7, <2>1, LeaveStep
<1>9. TypeOK'
  BY <1>1, <1>8, NewReqTyped DEF TypeOK, Goto, Pcs, chip, events, ready
<1>10. NoOverrun' /\ RequestInv'
  <2>1. req'[r].pos <= req'[r].len /\ req'[r].st = "out"
    BY <1>5, NewReqTyped
  <2>2. NoOverrun'
    BY <1>5, <2>1 DEF NoOverrun
  <2>3. RequestInv'
    BY <1>5, <2>1 DEF RequestInv
  <2> QED BY <2>2, <2>3
<1>11. TaskInv'
  BY <1>1 DEF TaskInv, TypeOK, Goto
<1> QED BY <1>8, <1>9, <1>10, <1>11

\* The first request is complete: it leaves its queue, or begins anew.
LEMMA CompleteStep == ASSUME RxAssumption, IInv, CompleteReceive PROVE IInv'
<1> USE DEF IInv
<1> DEFINE r == First
<1>1. /\ At("after") /\ Goto("receive")
      /\ UNCHANGED <<chip, irq, events, link, ready, dev, links>>
  BY DEF CompleteReceive
<1>2. rxPid \in Profiles /\ queue[rxPid] # <<>>
  BY <1>1 DEF TaskInv, At
<1>3. /\ r \in All /\ 1 \in DOMAIN queue[rxPid] /\ r = queue[rxPid][1]
      /\ req[r].pid = rxPid /\ req[r].st \in {"queued", "begun"}
  BY <1>2, FirstQueued
<1>4. \/ UNCHANGED queue /\ req' = [req EXCEPT ![r].pos = 0]
      \/ /\ queue' = [queue EXCEPT ![rxPid] = Tail(queue[rxPid])]
         /\ req' = [req EXCEPT ![r].st = "answered", ![r].more = task.more]
  BY DEF CompleteReceive
<1>5. TaskInv'
  BY <1>1, <1>2 DEF TaskInv, TypeOK, Goto, ready
<1> HIDE DEF r
<1>6. req[r] \in Request /\ task.more \in BOOLEAN
  BY <1>3 DEF TypeOK
<1>7. CASE UNCHANGED queue /\ req' = [req EXCEPT ![r].pos = 0]
  <2>1. /\ req'[r] = [req[r] EXCEPT !.pos = 0]
        /\ \A s \in All \ {r} : req'[s] = req[s]
    BY <1>3, <1>7 DEF TypeOK
  <2>2. /\ req'[r] \in Request /\ req'[r].pos = 0 /\ req'[r].len \in Nat
        /\ req'[r].pid = req[r].pid /\ req'[r].st = req[r].st
    BY <1>6, <2>1 DEF Request
  <2>3. req' \in [All -> Request]
    BY <1>7, <2>1, <2>2 DEF TypeOK
  <2>4. TypeOK'
    BY <1>1, <1>7, <2>3 DEF TypeOK, Goto, Pcs, chip, events, ready
  <2>5. NoOverrun'
    <3>1. req'[r].pos <= req'[r].len
      BY <2>2
    <3> QED BY <2>1, <3>1 DEF NoOverrun
  <2>6. RequestInv'
    BY <1>3, <2>1, <2>2 DEF RequestInv
  <2>7. QueuesInOrder'
    BY <1>2, <1>3, <1>7, <2>1, <2>2, FillStep
  <2> QED BY <1>5, <2>4, <2>5, <2>6, <2>7
<1>8. CASE /\ queue' = [queue EXCEPT ![rxPid] = Tail(queue[rxPid])]
           /\ req' = [req EXCEPT ![r].st = "answered", ![r].more = task.more]
  <2>1. /\ req'[r] = [req[r] EXCEPT !.st = "answered", !.more = task.more]
        /\ \A s \in All \ {r} : req'[s] = req[s]
    BY <1>3, <1>8 DEF TypeOK
  <2>2. /\ req'[r] \in Request /\ req'[r].pos = req[r].pos /\ req'[r].len = req[r].len
        /\ req'[r].pid = req[r].pid /\ req'[r].st = "answered"
    BY <1>6, <2>1 DEF Request
  <2>3. req' \in [All -> Request]
    BY <1>8, <2>1, <2>2 DEF TypeOK
  <2> DEFINE q == queue[rxPid]
  <2> DEFINE out == Tail(q)
  <2>4. q \in Seq(All) /\ q # <<>>
    BY <1>2 DEF TypeOK
  <2>5. queue' = [queue EXCEPT ![rxPid] = out]
    BY <1>8
  <2>6. /\ out \in Seq(All) /\ DOMAIN out = 1 .. Len(queue[rxPid]) - 1
        /\ \A j \in 1 .. Len(queue[rxPid]) - 1 :
             out[j] = IF j < 1 THEN queue[rxPid][j] ELSE queue[rxPid][j + 1]
    <3> HIDE DEF q
    <3>1. /\ Tail(q) \in Seq(All) /\ DOMAIN Tail(q) = 1 .. Len(q) - 1
          /\ \A j \in 1 .. Len(q) - 1 : Tail(q)[j] = q[j + 1]
      BY <2>4
    <3> QED BY <3>1 DEF q
  <2> HIDE DEF out, q
  <2>7. QueuesInOrder' /\ queue' \in [Profiles -> Seq(All)]
    BY <1>2, <1>3, <2>1, <2>5, <2>6, LeaveStep
  <2>8. TypeOK'
    BY <1>1, <2>3, <2>7 DEF TypeOK, Goto, Pcs, chip, events, ready
  <2>9. NoOverrun'
    <3>1. req'[r].pos <= req'[r].len
      BY <1>3, <2>2 DEF NoOverrun
    <3> QED BY <2>1, <3>1 DEF NoOverrun
  <2>10. RequestInv'
    BY <2>1, <2>2 DEF RequestInv
  <2> QED BY <1>5, <2>7, <2>8, <2>9, <2>10
<1> QED BY <1>4, <1>7, <1>8

\* The release of a link clears the chip, and empties the queues and what was in them.
LEMMA ReleaseStep == ASSUME RxAssumption, IInv, Release PROVE IInv'
<1> USE DEF IInv
<1>1. CASE ResetChip
  <2>1. peer' \in [sent : Nat, msg : Nat, open : Profiles \cup {NoPid}]
    <3>1. peer \in [sent : Nat, msg : Nat, open : Profiles \cup {NoPid}]
      BY DEF TypeOK
    <3>2. peer' = [peer EXCEPT !.open = NoPid, !.msg = @ + 1]
      BY <1>1 DEF ResetChip
    <3>3. peer' = [sent |-> peer.sent, msg |-> peer.msg + 1, open |-> NoPid]
      BY <3>1, <3>2
    <3>4. peer.sent \in Nat /\ peer.msg + 1 \in Nat
      BY <3>1
    <3> QED BY <3>3, <3>4
  <2>2. dev' \in Device
    <3>1. dev \in Device /\ 0 \in 0 .. Word - 1
      BY WordSize DEF TypeOK
    <3>2. dev' = [dev EXCEPT !.remain = 0, !.more = TRUE, !.reset = FALSE]
      BY <1>1 DEF ResetChip
    <3> QED BY <3>1, <3>2 DEF Device
  <2>3. banks' \in Seq(Csdu) /\ Len(banks') <= RxCsduNum
    BY <1>1 DEF ResetChip, RxAssumption
  <2>4. 0 \in 0 .. CsduSize - 1
    BY WordSize
  <2>5. TypeOK'
    BY <1>1, <2>1, <2>2, <2>3, <2>4 DEF ResetChip, TypeOK, Goto, Pcs, ready
  <2>6. TaskInv' BY <1>1 DEF ResetChip, TaskInv, TypeOK, Goto
  <2> QED BY <1>1, <2>5, <2>6, QuietStep DEF ResetChip
<1>2. CASE CommitState
  <2>1. TypeOK' BY <1>2 DEF CommitState, TypeOK, Goto, Pcs, chip, events, ready
  <2>2. TaskInv' BY <1>2 DEF CommitState, TaskInv, TypeOK, Goto
  <2> QED BY <1>2, <2>1, <2>2, QuietStep DEF CommitState
<1>3. CASE ReleaseReset
  <2>1. TypeOK' BY <1>3 DEF ReleaseReset, TypeOK, Goto, Pcs, chip
  <2>2. TaskInv' BY <1>3 DEF ReleaseReset, TaskInv, TypeOK, Goto
  <2> QED BY <1>3, <2>1, <2>2, QuietStep DEF ReleaseReset
<1>4. CASE PurgeDataRequest
  <2>1. /\ queue' = [p \in Profiles |-> <<>>] /\ Goto("clear")
        /\ UNCHANGED <<chip, irq, events, link, ready, dev, links>>
    BY <1>4 DEF PurgeDataRequest
  <2>2. \A r \in All : \/ req'[r] = NewReq
                       \/ req'[r] = req[r] /\ req[r].st \notin {"queued", "begun"}
    <3>1. req' = [r \in All |-> IF req[r].st \in {"queued", "begun"} THEN NewReq ELSE req[r]]
      BY <1>4 DEF PurgeDataRequest
    <3> TAKE r \in All
    <3>2. CASE req[r].st \in {"queued", "begun"}
      BY <3>1, <3>2
    <3>3. CASE req[r].st \notin {"queued", "begun"}
      BY <3>1, <3>3
    <3> QED BY <3>2, <3>3
  <2>3. req' \in [All -> Request]
    <3>1. req' = [r \in All |-> IF req[r].st \in {"queued", "begun"} THEN NewReq ELSE req[r]]
      BY <1>4 DEF PurgeDataRequest
    <3> QED BY <3>1, NewReqTyped DEF TypeOK
  <2>4. queue' \in [Profiles -> Seq(All)]
    BY <2>1
  <2>5. TypeOK'
    BY <2>1, <2>3, <2>4 DEF TypeOK, Goto, Pcs, chip, events, ready
  <2>6. NoOverrun'
    <3>1. NewReq.pos <= NewReq.len
      BY NewReqTyped
    <3> QED BY <2>2, <3>1 DEF NoOverrun
  <2>7. QueuesInOrder'
    BY <2>1 DEF QueuesInOrder
  <2>8. TaskInv'
    BY <2>1 DEF TaskInv, TypeOK, Goto
  <2>9. RequestInv'
    <3>1. NewReq.st = "out"
      BY NewReqTyped
    <3> QED BY <2>2, <3>1 DEF RequestInv
  <2> QED BY <2>5, <2>6, <2>7, <2>8, <2>9
<1> QED BY <1>1, <1>2, <1>3, <1>4 DEF Release

(****************************************************************************)
(* The theorems                                                             *)
(****************************************************************************)
\* Nothing is queued and nothing received at the start.
LEMMA InitStep == ASSUME RxAssumption, Init PROVE IInv
<1>1. TypeOK
  <2>1. banks \in Seq(Csdu) /\ Len(banks) <= RxCsduNum
    BY DEF Init, RxAssumption
  <2>2. 0 \in 0 .. CsduSize - 1 /\ 0 \in 0 .. Word - 1
    BY WordSize
  <2>3. req \in [All -> Request]
    BY NewReqTyped DEF Init
  <2>4. dev \in Device
    BY <2>2 DEF Init, Device
  <2>5. queue \in [Profiles -> Seq(All)]
    BY DEF Init
  <2>6. task \in [pc : Pcs, ready : 0 .. Word - 1, more : BOOLEAN]
    BY <2>2 DEF Init, Pcs
  <2> QED BY <2>1, <2>2, <2>3, <2>4, <2>5, <2>6 DEF Init, TypeOK
<1>2. \A r \in All : req[r] = NewReq
  BY DEF Init
<1>3. NoOverrun
  <2>1. NewReq.pos <= NewReq.len
    BY NewReqTyped
  <2> QED BY <1>2, <2>1 DEF NoOverrun
<1>4. QueuesInOrder
  BY DEF Init, QueuesInOrder
<1>5. TaskInv
  BY DEF Init, TaskInv
<1>6. RequestInv
  BY <1>2, NewReqTyped DEF RequestInv
<1> QED BY <1>1, <1>3, <1>4, <1>5, <1>6 DEF IInv

\* Every step keeps the invariant.
LEMMA NextStep == ASSUME RxAssumption, IInv, [Next]_vars PROVE IInv'
<1>1. CASE Environment \/ Interrupt
  BY <1>1, EnvironmentStep DEF Environment
<1>2. CASE Wakeup \/ Scheduler
  BY <1>2, SchedulerStep
<1>3. CASE Reception
  BY <1>3, ReceiveStep, ReckoningStep, CompleteStep DEF Reception
<1>4. CASE Release
  BY <1>4, ReleaseStep
<1>5. CASE \/ \E r \in Reqs : Check(r) \/ Enqueue(r)
           \/ \E d \in Discards : CheckDiscard(d) \/ EnqueueDiscard(d)
  BY <1>5, CallerStep
<1>6. CASE \E r \in Reqs : Cancel(r)
  BY <1>6, CancelStep
<1>7. CASE UNCHANGED vars
  <2>1. TypeOK' /\ TaskInv' /\ UNCHANGED <<queue, req>>
    BY <1>7 DEF IInv, TypeOK, TaskInv, vars, chip, events, ready
  <2> QED BY <2>1, QuietStep
<1> QED BY <1>1, <1>2, <1>3, <1>4, <1>5, <1>6, <1>7 DEF Next, Task

\* The invariant holds in every reachable state.
LEMMA Invariance == Spec => []IInv
<1>1. Init => IInv
  BY InitStep, RxAssumption
<1>2. IInv /\ [Next]_vars => IInv'
  BY NextStep, RxAssumption
<1> QED BY <1>1, <1>2, PTL DEF Spec

\* The state stays within its types: what is left and the position in the first bank,
\* reckoned in an unsigned word, never leave their ranges.
THEOREM RxTypes == Spec => []TypeOK
<1>1. IInv => TypeOK
  BY DEF IInv
<1> QED BY <1>1, Invariance, PTL

\* Whatever the cached reading says, CNL_actionReceiveData gives no request more than
\* it has room for, on any link; and each receive queue holds requests of its profile,
\* each once, and only its first was begun, though requests are cancelled from anywhere
\* in it and links end at any step.
THEOREM RequestsStaySound == Spec => []RequestsSound
<1>1. IInv => RequestsSound
  BY DEF IInv, RequestsSound
<1> QED BY <1>1, Invariance, PTL
(****************************************************************************)
(* The first link.  Until it is set up nothing has been received; when it   *)
(* is over, nothing ever is again.  In between, the account of the banks:   *)
(* who knows that they are not empty, what the cached reading of their      *)
(* headers stands for, and whose data it is.                                *)
(****************************************************************************)
Before == ~link /\ (links = 0 \/ chan)
Live == link /\ ~At("state")
Over == ~Before /\ ~Live

\* Before the link only the chip has moved, and after it only the handler may.
PhaseInv ==
  /\ chan \/ link => links # 0
  /\ Before => /\ ~en /\ ~ev /\ ~over /\ ~rxReady /\ irq = "idle" /\ rxPid = NoPid
               /\ pos = 0 /\ fifo = 0 /\ dev.headPos = 0 /\ dev.remain = 0
               /\ task.pc \in {"wait", "sched", "rx"} /\ (banks # <<>> => sta)
  /\ Live => task.pc \notin {"purge", "clear"}
  /\ Over => /\ links # 0 /\ ~chan /\ banks = <<>> /\ ~en
             /\ irq \in {"idle", "add"} /\ (irq = "add" => ~ev)
             /\ task.pc \in {"wait", "sched", "rx", "reset", "state", "purge", "clear"}

\* The task is at the banks, with the interrupt masked.
AtBanks == task.pc \in {"receive", "after", "unmask", "drop", "enable"}

\* The scheduler knows of data, and goes on knowing.
Holding == rxReady /\ ~(At("end") /\ task.ready = 0)

\* Of data in the banks one party knows: the chip, which may interrupt, the handler, the
\* event or the scheduler.
TokenInv ==
  /\ en => ~ev /\ irq # "add" /\ ~Holding
  /\ ~en => irq = "add" \/ ev \/ rxReady
  /\ en /\ irq = "idle" /\ banks # <<>> => sta
  /\ irq = "look" => en
  /\ irq = "add" => ~ev /\ ~Holding /\ banks # <<>>
  /\ ev => banks # <<>>
  /\ Holding /\ ~AtBanks => banks # <<>>
  /\ At("rx") /\ rxReady => ~ev
  /\ AtBanks \/ At("ready") => rxReady /\ ~ev
  /\ task.pc \in {"drop", "enable"} => task.ready = 0 /\ (banks # <<>> => sta)
  /\ At("end") => en \/ ev \/ irq = "add"

\* What is cached is what is left of a run of banks that begins with the first.
CachedRun(k) ==
  /\ SameRun(k)
  /\ dev.remain = End(k) - pos
  /\ dev.more = banks[k].more
  /\ dev.reset = (~banks[k].more /\ banks[k].len # CsduSize)

AccountInv ==
  /\ dev.headPos = pos /\ fifo = pos
  /\ banks = <<>> => pos = 0
  /\ banks # <<>> => pos < banks[1].len
  /\ dev.remain = 0 => pos = 0
  /\ dev.remain # 0 => /\ \E k \in DOMAIN banks : CachedRun(k)
                       /\ rxPid = banks[1].pid
  /\ rxPid # NoPid => rxReady
  /\ rxPid # NoPid /\ ~AtBanks /\ ~At("end") => rxPid = banks[1].pid
  /\ AtBanks \/ At("end") => task.ready = dev.remain
  /\ At("after") /\ task.ready # 0 => ~HasRoom(First)

\* Fragmented CSDUs are full, and what follows them without a break is of their message.
BanksInv ==
  /\ \A i \in DOMAIN banks : banks[i].more => banks[i].len = CsduSize
  /\ \A i, j \in DOMAIN banks : i <= j /\ (\A l \in i .. j - 1 : banks[l].more) =>
       banks[j].pid = banks[i].pid /\ banks[j].msg = banks[i].msg
  /\ banks # <<>> /\ banks[Len(banks)].more =>
       peer.open = banks[Len(banks)].pid /\ peer.msg = banks[Len(banks)].msg

\* Message m of profile p goes on with what comes next.
GoesOn(p, m) == IF banks = <<>> THEN peer.open = p /\ peer.msg = m
                ELSE banks[1].pid = p /\ banks[1].msg = m

\* A request that was begun waits for the rest of its message.
Continues(r) == \A x \in req[r].from : x.pid = req[r].pid /\ GoesOn(x.pid, x.msg)

OneFrom(r) == \A m1, m2 \in req[r].from : m1 = m2

MessageInv ==
  /\ \A r \in Reqs : req[r].st \in {"checked", "queued"} => req[r].from = {}
  /\ \A p \in Profiles : \A i \in DOMAIN queue[p] :
       queue[p][i] \in Reqs /\ i # 1 => req[queue[p][i]].from = {}
  /\ \A r \in Reqs : req[r].st \in {"queued", "begun"} =>
       \E i \in DOMAIN queue[req[r].pid] : queue[req[r].pid][i] = r
  /\ Before => \A r \in All : req[r].st # "begun"
  /\ Live => \A r \in Reqs : req[r].st = "begun" 
                              /\ ~(At("after") /\ r = First) => Continues(r)
  /\ At("after") /\ First \in Reqs =>
       /\ OneFrom(First) /\ req[First].ended = ~task.more
       /\ task.more => Continues(First)

LinkInv == /\ PhaseInv /\ BanksInv
           /\ Live => TokenInv /\ AccountInv
           /\ MessageInv /\ OneMessage

FirstInv == links <= 1 => LinkInv

(****************************************************************************)
(* The phases of the first link                                             *)
(****************************************************************************)
\* Where the task goes, it takes the rest along.
LEMMA Gone ==
  ASSUME TypeOK, NEW p, Goto(p)
  PROVE  task'.pc = p /\ task'.ready = task.ready /\ task'.more = task.more
BY DEF Goto, TypeOK

\* A link is set up once, released once, and not set up again.
LEMMA PhaseStep ==
  ASSUME IInv, LinkInv, [Next]_vars, links' <= 1
  PROVE  PhaseInv' /\ (Live' => Live \/ Connected) /\ (Before' => Before)
<1> USE DEF PhaseInv, Before, Live, Over, At
<1>0. TypeOK /\ PhaseInv /\ links \in Nat /\ irq \in {"idle", "look", "add"}
  BY DEF IInv, LinkInv, TypeOK
<1>1. CASE ChipConnects
  BY <1>0, <1>1 DEF ChipConnects, events, ready
<1>2. CASE Arrive
  <2>1. sta' \in (IF banks = <<>> THEN {TRUE} ELSE {sta, TRUE}) /\ chan
        /\ UNCHANGED <<pos, fifo, chan, en, irq, ev, over, link, rxReady, rxPid, dev, task, links>>
    BY <1>2 DEF Arrive, events, ready
  <2> QED BY <1>0, <2>1
<1>3. CASE LinkLost
  <2>1. chan' = chan \/ chan' = FALSE
    BY <1>3 DEF LinkLost
  <2>2. link /\ UNCHANGED <<banks, pos, fifo, sta, en, irq, ev, link, rxReady, rxPid, dev, task,
                           links>>
    BY <1>3 DEF LinkLost, ready
  <2> QED BY <1>0, <2>1, <2>2
<1>4. CASE Interrupt
  BY <1>0, <1>4 DEF Interrupt, IrqClear, IrqLook, IrqAdd, chip, events, ready, LinkInv, TokenInv
<1>5. CASE Connected
  <2>1. task'.pc = "sched" BY <1>0, <1>5, Gone DEF Connected
  <2> QED BY <1>0, <1>5, <2>1 DEF Connected, events, ready
<1>6. CASE Wakeup
  <2>1. task'.pc = "sched" BY <1>0, <1>6, Gone DEF Wakeup
  <2> QED BY <1>0, <1>6, <2>1 DEF Wakeup, chip, ready
<1>7. CASE CheckEvent
  <2>1. task'.pc = IF over THEN "reset" ELSE "rx" BY <1>0, <1>7, Gone DEF CheckEvent
  <2> QED BY <1>0, <1>7, <2>1 DEF CheckEvent, chip
<1>8. CASE CheckRxRequest
  <2>1. /\ task'.pc \in {"ready", "sched", "wait"}
        /\ ~(link /\ rxReady) => task'.pc # "ready" /\ rxPid' = rxPid
    BY <1>0, <1>8, Gone DEF CheckRxRequest
  <2> QED BY <1>0, <1>8, <2>1 DEF CheckRxRequest, chip, events
<1>9. CASE ReadReadyBuffer
  <2>1. task'.pc = "receive" BY <1>0, <1>9 DEF ReadReadyBuffer, TypeOK
  <2> QED BY <1>0, <1>9, <2>1 DEF ReadReadyBuffer, chip, events, ready
<1>10. CASE Reception
  <2>1. task'.pc \in {"receive", "after", "unmask", "drop", "enable", "end", "sched"}
        /\ UNCHANGED <<chan, link, links>>
    <3>1. CASE ReceiveData BY <1>0, <3>1 DEF ReceiveData, TypeOK, chip
    <3>2. CASE NoMoreToReceive BY <1>0, <3>2, Gone DEF NoMoreToReceive, chip
    <3>3. CASE ReadReadyRxBuffer
      BY <1>0, <3>3, Gone DEF ReadReadyRxBuffer, chip, TypeOK
    <3>4. CASE CompleteReceive BY <1>0, <3>4, Gone DEF CompleteReceive, chip
    <3>5. CASE CountBanks BY <1>0, <3>5, Gone DEF CountBanks, chip
    <3>6. CASE DropEvent BY <1>0, <3>6, Gone DEF DropEvent, chip
    <3>7. CASE EnableInterrupt BY <1>0, <3>7, Gone DEF EnableInterrupt
    <3>8. CASE EndReceive BY <1>0, <3>8, Gone DEF EndReceive, chip
    <3> QED BY <1>10, <3>1, <3>2, <3>3, <3>4, <3>5, <3>6, <3>7, <3>8 DEF Reception
  <2>2. task.pc \in {"receive", "after", "unmask", "drop", "enable", "end"}
    BY <1>10 DEF Reception, ReceiveData, NoMoreToReceive, ReadReadyRxBuffer, CompleteReceive,
       CountBanks, DropEvent, EnableInterrupt, EndReceive
  <2> QED BY <1>0, <2>1, <2>2
<1>11. CASE ResetChip
  <2>1. task'.pc = "state" BY <1>0, <1>11, Gone DEF ResetChip
  <2> QED BY <1>0, <1>11, <2>1 DEF ResetChip, IntLockFree, ready
<1>12. CASE CommitState
  <2>1. task'.pc = "purge" BY <1>0, <1>12, Gone DEF CommitState
  <2> QED BY <1>0, <1>12, <2>1 DEF CommitState, chip, events, ready
<1>13. CASE PurgeDataRequest
  <2>1. task'.pc = "clear" BY <1>0, <1>13, Gone DEF PurgeDataRequest
  <2> QED BY <1>0, <1>13, <2>1 DEF PurgeDataRequest, chip, events, ready
<1>14. CASE ReleaseReset
  <2>1. task'.pc = "sched" BY <1>0, <1>14, Gone DEF ReleaseReset
  <2> QED BY <1>0, <1>14, <2>1 DEF ReleaseReset, chip
<1>15. CASE \E r \in Reqs : Cancel(r)
  <2>1. PICK r \in Reqs : Cancel(r)
    BY <1>15
  <2>2. task'.pc = "sched" /\ task.pc \in {"wait", "sched"} BY <1>0, <2>1, Gone DEF Cancel
  <2> QED BY <1>0, <2>1, <2>2 DEF Cancel, chip, events, ready
<1>16. CASE \/ \E r \in Reqs : Check(r) \/ Enqueue(r)
            \/ \E d \in Discards : CheckDiscard(d) \/ EnqueueDiscard(d)
            \/ UNCHANGED vars
  <2>1. UNCHANGED <<chip, irq, ev, over, link, ready, dev, task, links>>
    BY <1>16 DEF Check, CheckDiscard, Enqueue, EnqueueDiscard, AddToRxQueue, vars, events
  <2> QED BY <1>0, <2>1 DEF chip, ready
<1> QED
  BY <1>1, <1>2, <1>3, <1>4, <1>5, <1>6, <1>7, <1>8, <1>9, <1>10, <1>11, <1>12, <1>13, <1>14,
     <1>15, <1>16 DEF Next, Environment, Task, Scheduler, Release

(****************************************************************************)
(* Who knows of the data                                                    *)
(****************************************************************************)
\* Only what is in the banks is ready.
LEMMA ReadyInBanks ==
  ASSUME IInv, AccountInv, AtBanks \/ At("end"), banks = <<>>
  PROVE  task.ready = 0
<1>1. DOMAIN banks = {}
  OBVIOUS
<1> QED BY <1>1 DEF AccountInv

\* The knowledge of data that is in the banks is passed on and never doubled.
LEMMA TokenStep ==
  ASSUME IInv, LinkInv, [Next]_vars, Live \/ Connected, Live'
  PROVE  TokenInv'
<1> USE DEF TokenInv, Live, Holding, AtBanks, At
<1>0. /\ TypeOK /\ (Live => TokenInv /\ AccountInv) /\ irq \in {"idle", "look", "add"}
      /\ (Live => task.pc \notin {"purge", "clear"})
  BY DEF IInv, LinkInv, TypeOK, PhaseInv
<1>1. CASE ChipConnects
  BY <1>0, <1>1 DEF ChipConnects, events, ready, Connected
<1>2. CASE Arrive
  <2>1. /\ banks # <<>> => sta' = sta \/ sta' = TRUE
        /\ banks = <<>> => sta' = TRUE
        /\ UNCHANGED <<en, irq, ev, link, rxReady, rxPid, task>>
    BY <1>2 DEF Arrive, events, ready
  <2>2. banks' # <<>>
    <3>1. PICK b \in Csdu : banks' = Append(banks, b)
      BY <1>0, <1>2 DEF Arrive, Csdu, RxAssumption, TypeOK
    <3> QED BY <1>0, <3>1 DEF TypeOK
  <2>3. Live
    BY <1>2, <2>1 DEF Connected, Arrive
  <2>4. sta \in BOOLEAN
    BY <1>0 DEF TypeOK
  <2> QED BY <1>0, <2>1, <2>2, <2>3, <2>4
<1>3. CASE LinkLost
  BY <1>0, <1>3 DEF LinkLost, ready, Connected
<1>4. CASE Interrupt
  <2>1. UNCHANGED <<link, rxReady, task, banks>>
    BY <1>4 DEF Interrupt, IrqClear, IrqLook, IrqAdd, chip, events, ready
  <2>2. Live
    BY <2>1
  <2>3. CASE IrqClear
    BY <1>0, <2>1, <2>2, <2>3 DEF IrqClear, events
  <2>4. CASE IrqLook
    BY <1>0, <2>1, <2>2, <2>4 DEF IrqLook, events
  <2>5. CASE IrqAdd
    BY <1>0, <2>1, <2>2, <2>5 DEF IrqAdd, chip
  <2> QED BY <1>4, <2>3, <2>4, <2>5 DEF Interrupt
<1>5. CASE Connected
  <2>1. task'.pc = "sched" BY <1>0, <1>5, Gone DEF Connected
  <2>2. Before /\ PhaseInv
    BY <1>5 DEF Connected, Before, LinkInv
  <2> QED BY <1>0, <1>5, <2>1, <2>2 DEF Connected, events, ready, PhaseInv
<1> SUFFICES ASSUME Live
             PROVE  TokenInv'
  BY <1>5
<1>6. CASE Wakeup
  <2>1. task'.pc = "sched" BY <1>0, <1>6, Gone DEF Wakeup
  <2> QED BY <1>0, <1>6, <2>1 DEF Wakeup, chip, ready
<1>7. CASE CheckEvent
  <2>1. task'.pc = IF over THEN "reset" ELSE "rx" BY <1>0, <1>7, Gone DEF CheckEvent
  <2> QED BY <1>0, <1>7, <2>1 DEF CheckEvent, chip
<1>8. CASE CheckRxRequest
  <2>1. /\ task'.pc \in {"ready", "sched", "wait"}
        /\ ~(link /\ rxReady) => task'.pc # "ready" /\ rxPid' = rxPid
    BY <1>0, <1>8, Gone DEF CheckRxRequest
  <2> QED BY <1>0, <1>8, <2>1 DEF CheckRxRequest, chip, events
<1>9. CASE ReadReadyBuffer
  <2>1. task'.pc = "receive" BY <1>0, <1>9 DEF ReadReadyBuffer, TypeOK
  <2> QED BY <1>0, <1>9, <2>1 DEF ReadReadyBuffer, chip, events, ready
<1>10. CASE ReceiveData
  <2>1. task'.pc = "after" BY <1>0, <1>10 DEF ReceiveData
  <2>2. /\ task.pc = "receive"
        /\ UNCHANGED <<chan, sta, en, irq, ev, link, rxReady, rxPid>>
    BY <1>10 DEF ReceiveData, events, ready
  <2>3. rxReady /\ ~ev /\ ~en /\ irq = "idle"
    BY <1>0, <2>2
  <2> QED BY <2>1, <2>2, <2>3
<1>11. CASE NoMoreToReceive
  <2>1. task'.pc = "unmask" BY <1>0, <1>11, Gone DEF NoMoreToReceive
  <2> QED BY <1>0, <1>11, <2>1 DEF NoMoreToReceive, chip, events, ready
<1>12. CASE ReadReadyRxBuffer
  <2>1. task'.pc = "receive" BY <1>0, <1>12, Gone DEF ReadReadyRxBuffer, TypeOK
  <2> QED BY <1>0, <1>12, <2>1 DEF ReadReadyRxBuffer, chip, events, ready
<1>13. CASE CompleteReceive
  <2>1. task'.pc = "receive" BY <1>0, <1>13, Gone DEF CompleteReceive
  <2> QED BY <1>0, <1>13, <2>1 DEF CompleteReceive, chip, events, ready
<1>14. CASE CountBanks
  <2>1. task'.pc = (IF banks # <<>> THEN "end" ELSE "drop") /\ task'.ready = task.ready
    BY <1>0, <1>14, Gone DEF CountBanks
  <2>2. banks = <<>> => task.ready = 0
    BY <1>0, <1>14, ReadyInBanks DEF CountBanks
  <2> QED BY <1>0, <1>14, <2>1, <2>2 DEF CountBanks, chip, ready
<1>15. CASE DropEvent
  <2>1. task'.pc = "enable" /\ task'.ready = task.ready BY <1>0, <1>15, Gone DEF DropEvent
  <2> QED BY <1>0, <1>15, <2>1 DEF DropEvent, chip, ready
<1>16. CASE EnableInterrupt
  <2>1. task'.pc = "end" /\ task'.ready = task.ready BY <1>0, <1>16, Gone DEF EnableInterrupt
  <2> QED BY <1>0, <1>16, <2>1 DEF EnableInterrupt, events, ready
<1>17. CASE EndReceive
  <2>1. task'.pc = "sched" BY <1>0, <1>17, Gone DEF EndReceive
  <2> QED BY <1>0, <1>17, <2>1 DEF EndReceive, chip, events, ready
<1>18. CASE Release
  <2>1. CASE ResetChip
    <3>1. task'.pc = "state" BY <1>0, <2>1, Gone DEF ResetChip
    <3> QED BY <3>1
  <2> QED BY <1>0, <1>18, <2>1 DEF Release, CommitState, PurgeDataRequest, ReleaseReset
<1>19. CASE \E r \in Reqs : Cancel(r)
  <2>1. PICK r \in Reqs : Cancel(r)
    BY <1>19
  <2>2. task'.pc = "sched" /\ task.pc \in {"wait", "sched"} BY <1>0, <2>1, Gone DEF Cancel
  <2> QED BY <1>0, <2>1, <2>2 DEF Cancel, chip, events, ready
<1>20. CASE \/ \E r \in Reqs : Check(r) \/ Enqueue(r)
            \/ \E d \in Discards : CheckDiscard(d) \/ EnqueueDiscard(d)
            \/ UNCHANGED vars
  <2>1. UNCHANGED <<chip, irq, ev, over, link, ready, dev, task, links>>
    BY <1>20 DEF Check, CheckDiscard, Enqueue, EnqueueDiscard, AddToRxQueue, vars, events
  <2> QED BY <1>0, <2>1 DEF chip, ready
<1> QED
  BY <1>1, <1>2, <1>3, <1>4, <1>5, <1>6, <1>7, <1>8, <1>9, <1>10, <1>11, <1>12, <1>13, <1>14,
     <1>15, <1>16, <1>17, <1>18, <1>19, <1>20
     DEF Next, Environment, Task, Scheduler, Reception

(****************************************************************************)
(* The units in the banks                                                   *)
(****************************************************************************)
\* Multiples are ordered like their factors.
LEMMA MulOrder == ASSUME NEW a \in Nat, NEW b \in Nat, NEW s \in Nat, a <= b PROVE a * s <= b * s
<1>1. (b - a) * s \in Nat
  <2>1. b - a \in Nat
    OBVIOUS
  <2> QED BY <2>1
<1>2. (b - a) * s = b * s - a * s
  OBVIOUS
<1> QED BY <1>1, <1>2

\* The remainder of what lies between two multiples.
LEMMA ModWithin ==
  ASSUME NEW s \in Nat \ {0}, NEW k \in Nat, NEW x \in Nat, k * s <= x, x < k * s + s
  PROVE  x % s = x - k * s
<1> DEFINE q == x \div s
<1> DEFINE m == x % s
<1>1. q \in Nat /\ m \in Nat /\ m < s /\ x = s * q + m
  BY SMT
<1> HIDE DEF q, m
<1>2. q * s \in Nat /\ q * s = s * q
  BY <1>1
<1>3. q * s <= x /\ x < q * s + s
  BY <1>1, <1>2
<1>4. ~(q < k)
  <2> SUFFICES ASSUME q + 1 <= k PROVE FALSE
    BY <1>1
  <2>1. (q + 1) * s <= k * s
    BY <1>1, MulOrder
  <2>2. (q + 1) * s = q * s + s
    BY <1>1
  <2>3. q * s + s <= k * s
    BY <2>1, <2>2
  <2> QED BY <1>1, <1>3, <1>2, <2>3
<1>5. ~(k < q)
  <2> SUFFICES ASSUME k + 1 <= q PROVE FALSE
    BY <1>1
  <2>1. (k + 1) * s <= q * s
    BY <1>1, MulOrder
  <2>2. (k + 1) * s = k * s + s
    OBVIOUS
  <2>3. k * s + s <= q * s
    BY <2>1, <2>2
  <2> QED BY <1>1, <1>3, <1>2, <2>3
<1>6. q = k
  BY <1>1, <1>4, <1>5
<1>7. m = x - k * s
  BY <1>1, <1>2, <1>6
<1> QED BY <1>7 DEF m

\* The same where less than a whole multiple follows.
LEMMA ModShort ==
  ASSUME NEW s \in Nat \ {0}, NEW k \in Nat, NEW x \in Nat, NEW l \in 1 .. s,
         k * s <= x, x < k * s + l
  PROVE  x % s = x - k * s
<1>1. k * s \in Nat
  OBVIOUS
<1>2. x < k * s + s
  BY <1>1
<1> QED BY <1>2, ModWithin, Zenon

\* Where the k-th bank ends: it holds at least one unit and at most all it can.
LEMMA EndOf ==
  ASSUME RxAssumption, TypeOK, NEW k \in DOMAIN banks
  PROVE  /\ k \in Nat /\ k >= 1 /\ k <= Len(banks) /\ banks[k] \in Csdu
         /\ banks[k].len \in 1 .. CsduSize
         /\ End(k) \in Nat /\ End(k) = (k - 1) * CsduSize + banks[k].len
         /\ End(k) <= k * CsduSize /\ k * CsduSize \in Nat
         /\ (k - 1) * CsduSize \in Nat /\ (k - 1) * CsduSize = k * CsduSize - CsduSize
<1>1. CsduSize \in Nat \ {0}
  BY DEF RxAssumption
<1>2. k \in Nat /\ k >= 1 /\ k <= Len(banks) /\ banks[k] \in Csdu
  BY DEF TypeOK
<1>3. banks[k].len \in 1 .. CsduSize
  BY <1>2 DEF Csdu
<1>4. k * CsduSize \in Nat
  BY <1>1, <1>2
<1>5. (k - 1) * CsduSize = k * CsduSize - CsduSize
  BY <1>1, <1>2
<1>6. k - 1 \in Nat
  BY <1>2
<1>7. (k - 1) * CsduSize \in Nat
  BY <1>1, <1>6
<1> QED BY <1>1, <1>2, <1>3, <1>4, <1>5, <1>7 DEF End

\* The banks end one after the other.
LEMMA EndsInOrder ==
  ASSUME RxAssumption, TypeOK, NEW i \in DOMAIN banks, NEW j \in DOMAIN banks, i < j
  PROVE  End(i) <= (j - 1) * CsduSize /\ End(i) < End(j)
<1>0. i \in Nat /\ j \in Nat /\ j >= 1
  BY EndOf
<1>1. j - 1 \in Nat /\ i <= j - 1 /\ CsduSize \in Nat
  BY <1>0, WordSize
<1>2. i * CsduSize <= (j - 1) * CsduSize
  BY <1>0, <1>1, MulOrder
<1>3. /\ End(i) \in Nat /\ End(i) <= i * CsduSize /\ i * CsduSize \in Nat
      /\ End(j) = (j - 1) * CsduSize + banks[j].len /\ (j - 1) * CsduSize \in Nat
      /\ banks[j].len \in 1 .. CsduSize
  BY EndOf
<1> QED BY <1>1, <1>2, <1>3

\* All that the banks hold is less than a word can count.
LEMMA EndInWord ==
  ASSUME RxAssumption, TypeOK, NEW k \in DOMAIN banks
  PROVE  End(k) < Word /\ Word \in Nat
<1>1. k \in Nat /\ RxCsduNum \in Nat /\ CsduSize \in Nat /\ k <= RxCsduNum /\ Word \in Nat
  BY EndOf DEF RxAssumption, TypeOK
<1>2. k * CsduSize <= RxCsduNum * CsduSize
  BY <1>1, MulOrder
<1>3. RxCsduNum * CsduSize = CsduSize * RxCsduNum /\ CsduSize * RxCsduNum \in Nat
  BY <1>1
<1>4. CsduSize * RxCsduNum < Word
  BY DEF RxAssumption
<1>5. End(k) \in Nat /\ End(k) <= k * CsduSize /\ k * CsduSize \in Nat
  BY EndOf
<1> QED BY <1>1, <1>2, <1>3, <1>4, <1>5

\* Of a run, all banks but the last are full.
LEMMA RunFull ==
  ASSUME RxAssumption, TypeOK, BanksInv, NEW k \in DOMAIN banks, SameRun(k),
         NEW i \in DOMAIN banks, i < k
  PROVE  End(i) = i * CsduSize
<1>0. k \in Nat /\ i \in 1 .. k
  BY EndOf
<1>1. banks[i].more
  BY <1>0 DEF SameRun
<1>2. banks[i].len = CsduSize
  BY <1>1 DEF BanksInv
<1>3. End(i) = (i - 1) * CsduSize + banks[i].len /\ (i - 1) * CsduSize = i * CsduSize - CsduSize
      /\ i * CsduSize \in Nat
  BY EndOf
<1>4. CsduSize \in Nat
  BY WordSize
<1> QED BY <1>2, <1>3, <1>4

\* How many banks become empty when n units of a run are read.
LEMMA RunEmptied ==
  ASSUME RxAssumption, TypeOK, BanksInv, NEW k \in DOMAIN banks, SameRun(k),
         NEW n \in Nat, pos + n <= End(k),
         NEW e \in 0 .. Len(banks), Emptied(e, n)
  PROVE  /\ pos + n = End(k) => e = k /\ After(e, n) = 0
         /\ pos + n < End(k) => /\ e < k /\ e * CsduSize <= pos + n
                                /\ e + 1 \in DOMAIN banks
                                /\ pos + n < e * CsduSize + banks[e + 1].len
                                /\ After(e, n) = pos + n - e * CsduSize
<1>0. /\ pos \in Nat /\ CsduSize \in Nat \ {0} /\ Len(banks) \in Nat /\ DOMAIN banks = 1 .. Len(banks)
      /\ e \in Nat /\ e <= Len(banks) /\ k \in 1 .. Len(banks)
  BY EndOf DEF TypeOK, RxAssumption
<1>1. e \in Nat /\ k \in Nat /\ k <= Len(banks) /\ Len(banks) \in Nat
  BY EndOf DEF TypeOK
<1>2. pos \in Nat /\ CsduSize \in Nat \ {0} /\ End(k) \in Nat
  BY WordSize, EndOf DEF TypeOK
<1>3. e <= k
  <2> SUFFICES ASSUME k < e PROVE FALSE
    BY <1>0
  <2>1. e \in DOMAIN banks /\ End(e) <= pos + n
    BY <1>0 DEF Emptied
  <2>2. End(k) < End(e)
    BY <2>1, EndsInOrder
  <2> QED BY <1>0, <2>1, <2>2, EndOf
<1>4. ASSUME e < k
      PROVE  /\ e * CsduSize <= pos + n /\ e + 1 \in DOMAIN banks
             /\ End(e + 1) = e * CsduSize + banks[e + 1].len
             /\ pos + n < End(e + 1) /\ e * CsduSize \in Nat
             /\ (e > 0 => End(e) = e * CsduSize)
  <2>1. e + 1 \in DOMAIN banks /\ pos + n < End(e + 1)
    BY <1>0, <1>4 DEF Emptied
  <2>2. End(e + 1) = (e + 1 - 1) * CsduSize + banks[e + 1].len
    BY DEF End
  <2>3. e + 1 - 1 = e
    BY <1>0
  <2>4. CASE e = 0
    <3>1. e * CsduSize = 0
      BY <1>0, <2>4
    <3> QED BY <1>0, <2>1, <2>2, <2>3, <2>4, <3>1
  <2>5. CASE e > 0
    <3>1. e \in DOMAIN banks /\ End(e) <= pos + n
      BY <1>0, <2>5 DEF Emptied
    <3>2. End(e) = e * CsduSize
      BY <1>4, <3>1, RunFull
    <3>3. e * CsduSize \in Nat
      BY <1>0
    <3> QED BY <2>1, <2>2, <2>3, <3>1, <3>2, <3>3
  <2> QED BY <1>0, <2>4, <2>5
<1>5. ASSUME pos + n = End(k) PROVE e = k /\ After(e, n) = 0
  <2>1. ~(e < k)
    <3> SUFFICES ASSUME e < k PROVE FALSE
      OBVIOUS
    <3>1. e + 1 \in DOMAIN banks /\ pos + n < End(e + 1)
      BY <1>4
    <3>3. End(e + 1) \in Nat
      BY <3>1, EndOf
    <3>2. End(e + 1) <= End(k)
      <4>1. CASE e + 1 = k
        BY <4>1, EndOf
      <4>2. CASE e + 1 < k
        <5>1. End(e + 1) < End(k)
          BY <3>1, <4>2, EndsInOrder
        <5> QED BY <1>2, <3>3, <5>1
      <4> QED BY <1>1, <4>1, <4>2
    <3> QED BY <1>5, <1>2, <3>1, <3>2, <3>3
  <2>2. e = k
    BY <1>0, <1>3, <2>1
  <2> QED BY <1>0, <1>5, <2>2 DEF After
<1>6. ASSUME pos + n < End(k)
      PROVE  /\ e < k /\ e * CsduSize <= pos + n
             /\ e + 1 \in DOMAIN banks
             /\ pos + n < e * CsduSize + banks[e + 1].len
             /\ After(e, n) = pos + n - e * CsduSize
  <2>1. e < k
    <3> SUFFICES ASSUME e = k PROVE FALSE
      BY <1>0, <1>3
    <3>1. End(k) <= pos + n
      BY <1>0 DEF Emptied
    <3> QED BY <1>0, <1>6, <3>1, EndOf
  <2>2. /\ e * CsduSize <= pos + n /\ e + 1 \in DOMAIN banks /\ e * CsduSize \in Nat
        /\ pos + n < e * CsduSize + banks[e + 1].len
        /\ (e > 0 => End(e) = e * CsduSize)
    BY <1>4, <2>1
  <2>3. banks[e + 1].len \in 1 .. CsduSize
    BY <2>2, EndOf
  <2>4. (pos + n) % CsduSize = pos + n - e * CsduSize
    <3>1. pos + n \in Nat /\ e \in Nat /\ CsduSize \in Nat \ {0}
      BY <1>1, <1>2
    <3>2. e * CsduSize <= pos + n /\ pos + n < e * CsduSize + banks[e + 1].len
      BY <2>2
    <3>3. \A s \in Nat \ {0} : \A m \in Nat : \A x \in Nat : \A l \in 1 .. s :
            m * s <= x /\ x < m * s + l => x % s = x - m * s
      BY ModShort
    <3>4. \A x \in Nat : \A l \in 1 .. CsduSize :
            e * CsduSize <= x /\ x < e * CsduSize + l => x % CsduSize = x - (e * CsduSize)
      BY <3>1, <3>3
    <3>5. (pos + n) % CsduSize = (pos + n) - (e * CsduSize)
      BY <2>3, <3>1, <3>2, <3>4, Zenon
    <3>6. e * CsduSize \in Nat /\ pos \in Nat /\ n \in Nat
      BY <1>2, <2>2
    <3> QED BY <3>5, <3>6
  <2>5. After(e, n) = pos + n - e * CsduSize
    <3>1. e # Len(banks)
      BY <1>1, <2>1
    <3>2. CASE e > 0 /\ End(e) = pos + n
      BY <1>0, <2>2, <3>2 DEF After
    <3>3. CASE ~(e > 0 /\ End(e) = pos + n)
      BY <1>0, <2>4, <3>1, <3>3 DEF After
    <3> QED BY <3>2, <3>3
  <2> QED BY <2>1, <2>2, <2>5
<1> QED BY <1>5, <1>6

\* What is left when the first e banks were given away.
LEMMA Rest ==
  ASSUME TypeOK, NEW e \in 0 .. Len(banks), banks' = SubSeq(banks, e + 1, Len(banks))
  PROVE  /\ Len(banks') = Len(banks) - e /\ DOMAIN banks' = 1 .. Len(banks) - e
         /\ \A i \in DOMAIN banks' : i + e \in DOMAIN banks /\ banks'[i] = banks[i + e]
         /\ (e = Len(banks) => banks' = <<>>)
         /\ (e # Len(banks) => banks' # <<>>)
<1>1. banks \in Seq(Csdu) /\ Len(banks) \in Nat /\ DOMAIN banks = 1 .. Len(banks)
  BY DEF TypeOK
<1>2. \A i \in e + 1 .. Len(banks) : banks[i] \in Csdu
  BY <1>1
<1>3. /\ banks' \in Seq(Csdu)
      /\ Len(banks') = IF e + 1 <= Len(banks) THEN Len(banks) - (e + 1) + 1 ELSE 0
      /\ \A i \in 1 .. Len(banks) - (e + 1) + 1 : banks'[i] = banks[e + 1 + i - 1]
  <2>1. e + 1 \in Int /\ Len(banks) \in Int
    BY <1>1
  <2> QED BY <1>2, <2>1, SubSeqProperties
<1>4. Len(banks') = Len(banks) - e
  BY <1>1, <1>3
<1>5. DOMAIN banks' = 1 .. Len(banks) - e
  BY <1>3, <1>4, LenProperties
<1>6. \A i \in DOMAIN banks' : i + e \in DOMAIN banks /\ banks'[i] = banks[i + e]
  <2>1. \A i \in 1 .. Len(banks) - e : e + 1 + i - 1 = i + e /\ i + e \in 1 .. Len(banks)
    BY <1>1
  <2>2. Len(banks) - (e + 1) + 1 = Len(banks) - e
    BY <1>1
  <2> QED BY <1>1, <1>3, <1>5, <2>1, <2>2
<1>7. e = Len(banks) => banks' = <<>>
  <2>1. e = Len(banks) => Len(banks') = 0
    BY <1>1, <1>4
  <2> QED BY <1>3, <2>1, EmptySeq
<1>8. e # Len(banks) => banks' # <<>>
  <2>1. e \in Int /\ Len(banks) \in Int
    BY <1>1
  <2>2. e # Len(banks) => Len(banks) - e # 0
    BY <2>1
  <2> QED BY <1>4, <2>2, EmptySeq, Zenon
<1> QED BY <1>4, <1>5, <1>6, <1>7, <1>8

\* What arrives is the next of the peer's message, or begins one.
LEMMA Arrived ==
  ASSUME TypeOK, Arrive
  PROVE  \E b \in Csdu :
           /\ banks' = Append(banks, b) /\ b.msg = peer.msg
           /\ b.more => b.len = CsduSize /\ peer'.open = b.pid /\ peer'.msg = peer.msg
           /\ peer.open \in {NoPid, b.pid}
<1>1. PICK p \in Profiles, n \in 1 .. CsduSize, more \in BOOLEAN :
        /\ more => n = CsduSize
        /\ peer.open \in {NoPid, p}
        /\ banks' = Append(banks, [pid |-> p, len |-> n, more |-> more, msg |-> peer.msg])
        /\ peer' = [sent |-> peer.sent + 1,
                    msg  |-> IF more THEN peer.msg ELSE peer.msg + 1,
                    open |-> IF more THEN p ELSE NoPid]
  BY DEF Arrive
<1>2. peer.msg \in Nat
  BY DEF TypeOK
<1> DEFINE b == [pid |-> p, len |-> n, more |-> more, msg |-> peer.msg]
<1>3. b \in Csdu
  BY <1>2 DEF Csdu
<1> QED BY <1>1, <1>3

\* The peer finishes a message before it begins the next.
LEMMA BanksStep ==
  ASSUME RxAssumption, TypeOK, BanksInv, [Next]_vars
  PROVE  BanksInv'
<1>1. CASE Arrive
  <2>1. PICK b \in Csdu :
          /\ banks' = Append(banks, b) /\ b.msg = peer.msg
          /\ b.more => b.len = CsduSize /\ peer'.open = b.pid /\ peer'.msg = peer.msg
          /\ peer.open \in {NoPid, b.pid}
    BY <1>1, Arrived
  <2>2. banks \in Seq(Csdu) /\ Len(banks) \in Nat /\ DOMAIN banks = 1 .. Len(banks)
    BY DEF TypeOK
  <2>3. /\ DOMAIN banks' = 1 .. Len(banks) + 1 /\ Len(banks') = Len(banks) + 1
        /\ \A i \in 1 .. Len(banks) : banks'[i] = banks[i]
        /\ banks'[Len(banks) + 1] = b
    BY <2>1, <2>2
  <2>4. \A i \in DOMAIN banks' : banks'[i].more => banks'[i].len = CsduSize
    BY <2>1, <2>2, <2>3 DEF BanksInv
  <2>5. ASSUME NEW i \in DOMAIN banks', NEW j \in DOMAIN banks', i <= j,
               \A l \in i .. j - 1 : banks'[l].more
        PROVE  banks'[j].pid = banks'[i].pid /\ banks'[j].msg = banks'[i].msg
    <3>1. i \in Nat /\ j \in Nat /\ i >= 1 /\ j <= Len(banks) + 1
      BY <2>2, <2>3
    <3>2. CASE i = j
      BY <3>2
    <3>3. CASE i < j /\ j <= Len(banks)
      <4>1. i \in 1 .. Len(banks) /\ j \in 1 .. Len(banks)
            /\ \A l \in i .. j - 1 : l \in 1 .. Len(banks)
        BY <2>2, <3>1, <3>3
      <4>2. \A l \in i .. j - 1 : banks[l].more
        BY <2>3, <2>5, <4>1
      <4>3. banks[j].pid = banks[i].pid /\ banks[j].msg = banks[i].msg
        BY <2>2, <2>5, <4>1, <4>2 DEF BanksInv
      <4> QED BY <2>3, <4>1, <4>3
    <3>4. CASE i < j /\ j = Len(banks) + 1
      <4> DEFINE last == Len(banks)
      <4>1. /\ i \in 1 .. last /\ last \in 1 .. last /\ last \in i .. j - 1 /\ banks # <<>> /\ i <= last
            /\ \A l \in i .. last - 1 : l \in 1 .. last /\ l \in i .. j - 1
        BY <2>2, <3>1, <3>4
      <4>2. banks[last].more /\ \A l \in i .. last - 1 : banks[l].more
        <5>1. \A l \in 1 .. last : banks'[l] = banks[l]
          BY <2>3
        <5> HIDE DEF last
        <5> QED BY <2>5, <4>1, <5>1
      <4>3. banks[last].pid = banks[i].pid /\ banks[last].msg = banks[i].msg
        BY <2>2, <4>1, <4>2 DEF BanksInv
      <4>4. peer.open = banks[last].pid /\ peer.msg = banks[last].msg
        BY <4>1, <4>2 DEF BanksInv
      <4>5. banks[last].pid # NoPid
        <5>1. banks[last] \in Csdu
          BY <2>2, <4>1
        <5> QED BY <5>1 DEF Csdu, RxAssumption
      <4>6. banks'[i] = banks[i] /\ banks'[j] = b
        BY <2>3, <3>4, <4>1
      <4> QED BY <2>1, <4>3, <4>4, <4>5, <4>6
    <3> QED BY <2>5, <3>1, <3>2, <3>3, <3>4
  <2>6. banks'[Len(banks')] = b
    BY <2>3
  <2> QED BY <2>1, <2>4, <2>5, <2>6 DEF BanksInv
<1>2. CASE ReceiveData
  <2>1. peer' = peer
    BY <1>2 DEF ReceiveData
  <2>2. PICK e \in 0 .. Len(banks) : banks' = SubSeq(banks, e + 1, Len(banks))
    BY <1>2 DEF ReceiveData
  <2>3. /\ Len(banks') = Len(banks) - e /\ DOMAIN banks' = 1 .. Len(banks) - e
        /\ \A i \in DOMAIN banks' : i + e \in DOMAIN banks /\ banks'[i] = banks[i + e]
        /\ (e = Len(banks) => banks' = <<>>)
    BY <2>2, Rest
  <2>4. Len(banks) \in Nat /\ DOMAIN banks = 1 .. Len(banks) /\ e \in Nat
    BY DEF TypeOK
  <2>5. \A i \in DOMAIN banks' : banks'[i].more => banks'[i].len = CsduSize
    BY <2>3 DEF BanksInv
  <2>6. ASSUME NEW i \in DOMAIN banks', NEW j \in DOMAIN banks', i <= j,
               \A l \in i .. j - 1 : banks'[l].more
        PROVE  banks'[j].pid = banks'[i].pid /\ banks'[j].msg = banks'[i].msg
    <3>1. i \in Nat /\ j \in Nat /\ i + e \in DOMAIN banks /\ j + e \in DOMAIN banks
          /\ banks'[i] = banks[i + e] /\ banks'[j] = banks[j + e] /\ i + e <= j + e
      BY <2>3, <2>4, <2>6
    <3>2. ASSUME NEW l \in i + e .. (j + e) - 1 PROVE banks[l].more
      <4>1. l - e \in DOMAIN banks' /\ l - e \in i .. j - 1 /\ (l - e) + e = l
        BY <2>3, <2>4, <3>1
      <4>2. banks'[l - e] = banks[(l - e) + e]
        BY <2>3, <4>1
      <4> QED BY <2>6, <4>1, <4>2
    <3> QED BY <3>1, <3>2 DEF BanksInv
  <2>7. banks' # <<>> => banks # <<>> /\ banks'[Len(banks')] = banks[Len(banks)]
    <3> SUFFICES ASSUME banks' # <<>>
                 PROVE  banks # <<>> /\ banks'[Len(banks')] = banks[Len(banks)]
      OBVIOUS
    <3>1. e < Len(banks)
      BY <2>3, <2>4
    <3>2. Len(banks') \in DOMAIN banks' /\ Len(banks') + e = Len(banks)
      BY <2>3, <2>4, <3>1
    <3> QED BY <2>3, <2>4, <3>1, <3>2
  <2> QED BY <2>1, <2>5, <2>6, <2>7 DEF BanksInv
<1>3. CASE ResetChip
  BY <1>3 DEF ResetChip, BanksInv
<1>4. CASE UNCHANGED <<banks, peer>>
  BY <1>4 DEF BanksInv
<1> QED
  BY <1>1, <1>2, <1>3, <1>4
     DEF Next, Environment, Interrupt, Task, Scheduler, Reception, Release, vars, chip,
         ChipConnects, LinkLost, IrqClear, IrqLook, IrqAdd, Check, CheckDiscard, Enqueue,
         EnqueueDiscard, AddToRxQueue, Cancel, Wakeup, CheckEvent, CheckRxRequest,
         ReadReadyBuffer, NoMoreToReceive, ReadReadyRxBuffer, CompleteReceive, CountBanks,
         DropEvent, EnableInterrupt, EndReceive, Connected, CommitState, PurgeDataRequest,
         ReleaseReset

(****************************************************************************)
(* What the cached reading stands for                                       *)
(****************************************************************************)
\* Steps that touch neither the banks nor the cached reading.
LEMMA AccountKept ==
  ASSUME AccountInv, UNCHANGED <<banks, pos, fifo, dev>>,
         rxPid' # NoPid => rxReady',
         dev.remain # 0 => rxPid' = rxPid,
         rxPid' # NoPid /\ ~AtBanks' /\ ~At("end")' => rxPid' = banks[1].pid,
         AtBanks' \/ At("end")' => task'.ready = dev.remain,
         At("after")' => /\ At("after") /\ task'.ready = task.ready
                         /\ HasRoom(First)' => HasRoom(First)
  PROVE  AccountInv'
<1>1. \A k : CachedRun(k)' <=> CachedRun(k)
  BY DEF CachedRun, SameRun, End
<1> QED BY <1>1 DEF AccountInv

\* A reading of the headers stands for a run of banks that ends where it says.
LEMMA RunRead ==
  ASSUME RxAssumption, TypeOK, BanksInv, banks # <<>>, NEW h \in Headers,
         dev.headPos = pos, pos < banks[1].len
  PROVE  \E k \in DOMAIN banks :
           /\ SameRun(k) /\ h.units = End(k) /\ h.more = banks[k].more
           /\ Cached(h).remain = End(k) - pos /\ End(k) - pos \in 1 .. Word - 1
           /\ Cached(h).more = banks[k].more
           /\ Cached(h).reset = (~banks[k].more /\ banks[k].len # CsduSize)
           /\ Cached(h).headPos = pos
<1>1. PICK k \in DOMAIN banks : /\ h = [units |-> End(k), more |-> banks[k].more]
                                /\ EndsRun(k)
  BY DEF Headers
<1>2. /\ k \in Nat /\ k >= 1 /\ banks[k] \in Csdu /\ banks[k].len \in 1 .. CsduSize
      /\ End(k) \in Nat /\ End(k) = (k - 1) * CsduSize + banks[k].len
      /\ (k - 1) * CsduSize \in Nat
  BY EndOf
<1>3. SameRun(k) /\ h.units = End(k) /\ h.more = banks[k].more
  BY <1>1 DEF EndsRun
<1>4. 1 \in DOMAIN banks /\ banks[1].len \in 1 .. CsduSize
  <2>1. 1 \in DOMAIN banks
    BY DEF TypeOK
  <2> QED BY <2>1, EndOf
<1>5. pos \in Nat /\ Word \in Nat \ {0} /\ CsduSize \in Nat \ {0}
  BY WordSize DEF TypeOK
<1>6. banks[1].len <= End(k)
  <2>1. CASE k = 1
    <3>1. (k - 1) * CsduSize = 0
      BY <1>5, <2>1
    <3> QED BY <1>2, <2>1, <3>1
  <2>2. CASE k # 1
    <3>1. banks[1].more
      BY <1>2, <1>3, <2>2 DEF SameRun
    <3>2. banks[1].len = CsduSize
      BY <1>4, <3>1 DEF BanksInv
    <3>3. 1 * CsduSize <= (k - 1) * CsduSize
      <4>1. k - 1 \in Nat /\ 1 <= k - 1 /\ CsduSize \in Nat
        BY <1>2, <1>5, <2>2
      <4> QED BY <4>1, MulOrder
    <3>4. CsduSize <= (k - 1) * CsduSize
      BY <1>5, <3>3
    <3> QED BY <1>2, <1>5, <3>2, <3>4
  <2> QED BY <2>1, <2>2
<1>7. End(k) - pos \in 1 .. Word - 1
  <2>1. End(k) < Word
    BY EndInWord
  <2> QED BY <1>2, <1>4, <1>5, <1>6, <2>1
<1>8. (End(k) - pos) % Word = End(k) - pos
  <2>1. \A x \in 1 .. Word - 1 : x % Word = x
    BY <1>5
  <2> QED BY <1>7, <2>1
<1>9. NeedReset(h) = (~banks[k].more /\ banks[k].len # CsduSize)
  <2>1. CASE banks[k].more
    BY <1>3, <2>1 DEF NeedReset
  <2>2. CASE banks[k].len = CsduSize
    <3>1. End(k) = (k - 1) * CsduSize + CsduSize /\ End(k) = k * CsduSize
      BY <1>2, <2>2, EndOf
    <3>2. End(k) % CsduSize = End(k) - (k * CsduSize)
      <4>1. k * CsduSize <= End(k) /\ End(k) < k * CsduSize + CsduSize
        BY <1>2, <1>5, <3>1
      <4> QED BY <1>2, <1>5, <4>1, ModWithin
    <3>3. End(k) % CsduSize = 0
      BY <1>2, <3>1, <3>2
    <3> QED BY <1>3, <2>2, <3>3 DEF NeedReset
  <2>3. CASE ~banks[k].more /\ banks[k].len # CsduSize
    <3>1. End(k) % CsduSize = End(k) - ((k - 1) * CsduSize)
      <4>1. (k - 1) * CsduSize <= End(k) /\ End(k) < (k - 1) * CsduSize + CsduSize
            /\ k - 1 \in Nat
        BY <1>2, <1>5, <2>3
      <4> QED BY <1>2, <1>5, <4>1, ModWithin
    <3>2. End(k) % CsduSize # 0
      BY <1>2, <3>1
    <3> QED BY <1>3, <2>3, <3>2 DEF NeedReset
  <2> QED BY <2>1, <2>2, <2>3
<1>10. dev \in Device
  BY DEF TypeOK
<1>11. /\ Cached(h).remain = (h.units - dev.headPos) % Word /\ Cached(h).more = h.more
       /\ Cached(h).reset = NeedReset(h) /\ Cached(h).headPos = dev.headPos
  BY <1>10 DEF Cached, Device
<1> QED BY <1>3, <1>7, <1>8, <1>9, <1>11

\* What is left of a run when its first banks were read away.
LEMMA RunLeft ==
  ASSUME RxAssumption, TypeOK, NEW k \in DOMAIN banks, CachedRun(k),
         NEW e \in 0 .. Len(banks), e < k, banks' = SubSeq(banks, e + 1, Len(banks))
  PROVE  /\ banks' # <<>> /\ banks'[1] = banks[e + 1] /\ banks'[1].pid = banks[1].pid
         /\ k - e \in DOMAIN banks' /\ SameRun(k - e)'
         /\ End(k - e)' = End(k) - (e * CsduSize)
         /\ banks'[k - e] = banks[k]
<1>1. /\ DOMAIN banks' = 1 .. Len(banks) - e
      /\ \A i \in DOMAIN banks' : i + e \in DOMAIN banks /\ banks'[i] = banks[i + e]
      /\ (e # Len(banks) => banks' # <<>>)
  BY Rest
<1>2. e \in Nat /\ k \in Nat /\ k <= Len(banks) /\ Len(banks) \in Nat /\ CsduSize \in Nat
  BY EndOf, WordSize DEF TypeOK
<1>3. k - e \in DOMAIN banks' /\ 1 \in DOMAIN banks' /\ k - e + e = k
      /\ \A i \in 1 .. k - e : i \in DOMAIN banks' /\ i + e \in 1 .. k
                               /\ (i < k - e => i + e < k)
  BY <1>1, <1>2
<1>4. banks'[k - e] = banks[k] /\ banks'[1] = banks[1 + e] /\ 1 + e = e + 1
  <2>1. banks'[k - e] = banks[k - e + e]
    BY <1>1, <1>3
  <2>2. banks'[1] = banks[1 + e]
    BY <1>1, <1>3
  <2> QED BY <1>2, <1>3, <2>1, <2>2
<1>5. \A i \in 1 .. k : banks[i].pid = banks[1].pid /\ (i < k => banks[i].more)
  BY DEF CachedRun, SameRun
<1>6. \A i \in 1 .. k - e : banks'[i].pid = banks[1].pid /\ (i < k - e => banks'[i].more)
  BY <1>1, <1>3, <1>5
<1>7. banks'[1].pid = banks[1].pid
  <2>1. 1 \in 1 .. k - e
    BY <1>2
  <2> QED BY <1>6, <2>1
<1>8. SameRun(k - e)'
  BY <1>6, <1>7 DEF SameRun
<1>9. End(k - e)' = End(k) - (e * CsduSize)
  <2>1. banks[k].len \in Nat
    BY EndOf
  <2>2. End(k - e)' = ((k - e) - 1) * CsduSize + banks[k].len
    BY <1>4 DEF End
  <2>3. ((k - e) - 1) * CsduSize = ((k - 1) * CsduSize) - (e * CsduSize)
    <3>1. (k - e) - 1 = (k - 1) - e
      BY <1>2
    <3>2. ((k - 1) - e) * CsduSize = ((k - 1) * CsduSize) - (e * CsduSize)
      BY <1>2
    <3> QED BY <3>1, <3>2
  <2>4. End(k) = (k - 1) * CsduSize + banks[k].len
    BY DEF End
  <2>5. (k - 1) * CsduSize \in Int /\ e * CsduSize \in Int
    BY <1>2
  <2> QED BY <2>1, <2>2, <2>3, <2>4, <2>5
<1> QED BY <1>1, <1>2, <1>3, <1>4, <1>7, <1>8, <1>9

\* Reading moves the first bank, the address and the account together.
LEMMA AccountReceived ==
  ASSUME RxAssumption, IInv, BanksInv, AccountInv, ReceiveData, rxReady
  PROVE  AccountInv'
<1> DEFINE r == First
<1> DEFINE all == Asked(r) >= dev.remain
<1> DEFINE n == IF all THEN dev.remain ELSE Asked(r)
<1>0. TypeOK /\ NoOverrun
  BY DEF IInv
<1>1. PICK e \in 0 .. Len(banks), read \in BOOLEAN :
        /\ Emptied(e, n)
        /\ banks' = SubSeq(banks, e + 1, Len(banks))
        /\ pos' = After(e, n)
        /\ fifo' = IF all /\ dev.reset THEN 0 ELSE (fifo + n) % CsduSize
        /\ dev' = [dev EXCEPT
             !.remain  = IF all THEN 0 ELSE dev.remain - Asked(r),
             !.reset   = @ /\ ~all,
             !.headPos = HeadPosAfter(all, n)]
        /\ req' = [req EXCEPT ![r] = Filled(r, e, n, read)]
        /\ task' = [pc |-> "after", ready |-> task.ready - n, more |-> MoreAfter(all)]
  BY DEF ReceiveData
<1>2. /\ UNCHANGED <<rxReady, rxPid, queue>>
      /\ At("receive") /\ queue[rxPid] # <<>> /\ task.ready > 0
  BY DEF ReceiveData, ready
<1>3. rxPid \in Profiles
  BY <1>2 DEF IInv, TaskInv, At
<1>4. r \in All
  BY <1>0, <1>2, <1>3, FirstQueued DEF IInv
<1>5. /\ dev \in Device /\ dev.remain \in Nat /\ dev.more \in BOOLEAN /\ dev.headPos \in Nat
      /\ dev.reset \in BOOLEAN
  BY <1>0, WordSize DEF TypeOK, Device
<1>6. Asked(r) \in Nat /\ Asked(r) <= task.ready /\ Asked(r) <= req[r].len - req[r].pos
  BY <1>0, <1>4, Piece
<1>7. task.ready = dev.remain /\ dev.remain # 0 /\ dev.headPos = pos /\ fifo = pos
  <2>1. task.ready = dev.remain
    BY <1>2 DEF AccountInv, AtBanks, At
  <2> QED BY <1>2, <1>5, <2>1 DEF AccountInv
<1>8. PICK k \in DOMAIN banks : CachedRun(k)
  BY <1>7 DEF AccountInv
<1>9. rxPid = banks[1].pid
  BY <1>7 DEF AccountInv
<1>10. /\ SameRun(k) /\ dev.remain = End(k) - pos /\ dev.more = banks[k].more
       /\ dev.reset = (~banks[k].more /\ banks[k].len # CsduSize)
  BY <1>8 DEF CachedRun
<1>11. /\ k \in Nat /\ banks[k].len \in 1 .. CsduSize /\ End(k) \in Nat
       /\ End(k) <= k * CsduSize /\ pos \in Nat /\ CsduSize \in Nat \ {0}
  BY <1>0, EndOf, WordSize DEF TypeOK
<1>12. n \in Nat /\ n <= dev.remain /\ (~all => n < dev.remain /\ n = Asked(r))
       /\ (all => n = dev.remain)
  BY <1>5, <1>6
<1> HIDE DEF n
<1>13. pos + n <= End(k)
  BY <1>10, <1>11, <1>12
<1>14. /\ pos + n = End(k) => e = k /\ After(e, n) = 0
       /\ pos + n < End(k) => /\ e < k /\ e * CsduSize <= pos + n
                              /\ e + 1 \in DOMAIN banks
                              /\ pos + n < e * CsduSize + banks[e + 1].len
                              /\ After(e, n) = pos + n - e * CsduSize
  BY <1>0, <1>1, <1>10, <1>12, <1>13, RunEmptied
<1>15. /\ task'.pc = "after" /\ task'.ready = task.ready - n
       /\ dev'.remain = (IF all THEN 0 ELSE dev.remain - Asked(r))
       /\ dev'.headPos = HeadPosAfter(all, n) /\ dev'.more = dev.more
       /\ dev'.reset = (dev.reset /\ ~all)
  <2> HIDE DEF all
  <2> QED BY <1>1, <1>5 DEF Device
<1>16. AtBanks' /\ ~At("end")'
  BY <1>15 DEF AtBanks, At
<1>17. CASE all
  <2>1. pos + n = End(k)
    BY <1>10, <1>11, <1>12, <1>17
  <2>2. e = k /\ pos' = 0
    BY <1>1, <1>14, <2>1
  <2>3. dev'.headPos = 0 /\ dev'.remain = 0
    BY <1>15, <1>17 DEF HeadPosAfter
  <2>4. fifo' = 0
    <3>1. CASE dev.reset
      BY <1>1, <1>17, <3>1
    <3>2. CASE ~dev.reset
      <4>1. banks[k].len = CsduSize
        BY <1>10, <3>2 DEF BanksInv
      <4>2. End(k) = k * CsduSize
        <5>1. End(k) = (k - 1) * CsduSize + banks[k].len
              /\ (k - 1) * CsduSize = k * CsduSize - CsduSize /\ k * CsduSize \in Nat
          BY <1>0, EndOf
        <5> QED BY <1>11, <4>1, <5>1
      <4>3. End(k) % CsduSize = End(k) - (k * CsduSize)
        <5>1. k * CsduSize <= End(k) /\ End(k) < k * CsduSize + CsduSize
          BY <1>11, <4>2
        <5> QED BY <1>11, <5>1, ModWithin
      <4>4. fifo' = End(k) % CsduSize
        BY <1>1, <1>7, <2>1, <3>2
      <4> QED BY <1>11, <4>2, <4>3, <4>4
    <3> QED BY <3>1, <3>2
  <2>5. task'.ready = 0
    BY <1>7, <1>12, <1>15, <1>17
  <2>6. banks' # <<>> => pos' < banks'[1].len
    <3> SUFFICES ASSUME banks' # <<>> PROVE pos' < banks'[1].len
      OBVIOUS
    <3>1. 1 \in DOMAIN banks' /\ \A i \in DOMAIN banks' : i + e \in DOMAIN banks
                                                          /\ banks'[i] = banks[i + e]
      <4>1. /\ DOMAIN banks' = 1 .. Len(banks) - e
            /\ \A i \in DOMAIN banks' : i + e \in DOMAIN banks /\ banks'[i] = banks[i + e]
            /\ (e = Len(banks) => banks' = <<>>)
        BY <1>0, <1>1, Rest
      <4> QED BY <1>0, <4>1 DEF TypeOK
    <3>2. 1 + e \in DOMAIN banks /\ banks'[1] = banks[1 + e]
      BY <3>1
    <3>3. banks[1 + e].len \in 1 .. CsduSize
      BY <1>0, <3>2, EndOf
    <3> QED BY <2>2, <3>2, <3>3
  <2> QED BY <1>2, <1>3, <1>15, <1>16, <2>2, <2>3, <2>4, <2>5, <2>6 DEF AccountInv
<1>18. CASE ~all
  <2>1. pos + n < End(k) /\ n = Asked(r)
    BY <1>10, <1>11, <1>12, <1>18
  <2>2. /\ e < k /\ e * CsduSize <= pos + n /\ e + 1 \in DOMAIN banks
        /\ pos + n < e * CsduSize + banks[e + 1].len
        /\ pos' = pos + n - e * CsduSize
    BY <1>1, <1>14, <2>1
  <2>3. e \in Nat /\ e * CsduSize \in Nat /\ banks[e + 1].len \in 1 .. CsduSize
    <3>1. e \in Nat
      OBVIOUS
    <3>2. e * CsduSize \in Nat
      BY <1>11, <3>1
    <3> QED BY <1>0, <2>2, <3>1, <3>2, EndOf
  <2>4. (pos + n) % CsduSize = pos + n - e * CsduSize
    <3>1. pos + n \in Nat
      BY <1>11, <1>12
    <3>2. (pos + n) % CsduSize = (pos + n) - (e * CsduSize)
      BY <1>11, <2>2, <2>3, <3>1, ModShort
    <3> QED BY <1>11, <1>12, <2>3, <3>2
  <2>5. fifo' = pos' /\ dev'.headPos = pos'
    <3>1. fifo' = (pos + n) % CsduSize
      BY <1>1, <1>7, <1>18
    <3>2. dev'.headPos = (pos + n) % CsduSize
      BY <1>7, <1>15, <1>18 DEF HeadPosAfter
    <3> QED BY <2>2, <2>4, <3>1, <3>2
  <2>6. /\ banks' # <<>> /\ banks'[1] = banks[e + 1] /\ banks'[1].pid = banks[1].pid
        /\ k - e \in DOMAIN banks' /\ SameRun(k - e)'
        /\ End(k - e)' = End(k) - (e * CsduSize)
        /\ banks'[k - e] = banks[k]
    BY <1>0, <1>1, <1>8, <2>2, RunLeft
  <2>7. pos' < banks'[1].len
    BY <1>11, <1>12, <2>2, <2>3, <2>6
  <2>8. dev'.remain = dev.remain - n /\ dev'.remain # 0 /\ task'.ready = dev'.remain
    BY <1>5, <1>7, <1>12, <1>15, <1>18
  <2>9. dev'.remain = End(k - e)' - pos'
    BY <1>10, <1>11, <1>12, <2>2, <2>3, <2>6, <2>8
  <2>10. CachedRun(k - e)'
    BY <1>10, <1>15, <1>18, <2>6, <2>9 DEF CachedRun
  <2>11. ~HasRoom(First)'
    <3>1. req[r].len \in Nat /\ req[r].pos \in Nat /\ req[r] \in Request
      BY <1>0, <1>4 DEF TypeOK, Request
    <3>2. n = req[r].len - req[r].pos
      BY <1>7, <1>12, <1>18, <2>1, <3>1 DEF Asked, Least
    <3>3. req'[r] = Filled(r, e, n, read)
      BY <1>0, <1>1, <1>4 DEF TypeOK
    <3>4. req'[r].len = req[r].len /\ req'[r].pos = req[r].pos + n
      BY <3>1, <3>3 DEF Filled, Request
    <3>5. First' = r
      BY <1>2 DEF First
    <3>6. ~(req'[r].pos < req'[r].len)
      BY <1>12, <3>1, <3>2, <3>4
    <3> QED BY <3>5, <3>6 DEF HasRoom
  <2> QED BY <1>2, <1>3, <1>9, <1>15, <1>16, <2>5, <2>6, <2>7, <2>8, <2>10, <2>11 DEF AccountInv
<1> QED BY <1>17, <1>18

(****************************************************************************)
(* Callers during the link                                                  *)
(****************************************************************************)
\* A caller touches one request, which is in no queue; it may append it to that of its
\* profile.
LEMMA Called ==
  ASSUME RxAssumption, IInv,
         \/ \E r \in Reqs : Check(r) \/ Enqueue(r)
         \/ \E d \in Discards : CheckDiscard(d) \/ EnqueueDiscard(d)
  PROVE  \E r \in All :
           /\ \A s \in All \ {r} : req'[s] = req[s]
           /\ req[r].st \in {"out", "answered", "checked"}
           /\ \/ UNCHANGED queue /\ req'[r].st \in {"out", "checked"} /\ req'[r].from = {}
              \/ /\ req[r].st = "checked" /\ req[r].pid \in Profiles
                 /\ queue' = [queue EXCEPT ![req[r].pid] = Append(@, r)]
                 /\ req'[r] = [req[r] EXCEPT !.st = "queued"]
           /\ UNCHANGED <<chip, irq, ev, over, link, ready, dev, task, links>>
<1> USE DEF IInv
<1>1. PICK r \in All :
        \/ r \in Reqs /\ (Check(r) \/ Enqueue(r))
        \/ r \in Discards /\ (CheckDiscard(r) \/ EnqueueDiscard(r))
  BY DEF All
<1>2. CASE Check(r) \/ CheckDiscard(r)
  <2>1. PICK p, n :
          req' = [req EXCEPT ![r] = [NewReq EXCEPT !.st = "checked", !.pid = p, !.len = n]]
    BY <1>2 DEF Check, CheckDiscard
  <2>2. UNCHANGED <<chip, irq, ev, over, link, ready, dev, queue, task, links>>
        /\ req[r].st \in {"out", "answered"}
    BY <1>2 DEF Check, CheckDiscard, Callable, events
  <2> DEFINE made == [NewReq EXCEPT !.st = "checked", !.pid = p, !.len = n]
  <2>3. made.st = "checked" /\ made.from = {}
    BY DEF NewReq
  <2> HIDE DEF made
  <2>4. req'[r] = made /\ \A s \in All \ {r} : req'[s] = req[s]
    BY <2>1 DEF TypeOK, made
  <2> QED BY <2>2, <2>3, <2>4
<1>3. CASE Enqueue(r) \/ EnqueueDiscard(r)
  <2>1. AddToRxQueue(r)
    BY <1>3 DEF Enqueue, EnqueueDiscard
  <2>2. UNCHANGED <<chip, irq, ev, over, link, ready, dev, task, links>> /\ req[r].st = "checked"
    BY <2>1 DEF AddToRxQueue
  <2>3. req[r].pid \in Profiles
    BY <2>2 DEF RequestInv
  <2>4. CASE /\ queue' = [queue EXCEPT ![req[r].pid] = Append(@, r)]
             /\ req' = [req EXCEPT ![r].st = "queued"]
    <3>1. req'[r] = [req[r] EXCEPT !.st = "queued"] /\ \A s \in All \ {r} : req'[s] = req[s]
      BY <2>4 DEF TypeOK
    <3> QED BY <2>2, <2>3, <2>4, <3>1
  <2>5. CASE UNCHANGED queue /\ req' = [req EXCEPT ![r] = NewReq]
    <3>1. req'[r] = NewReq /\ \A s \in All \ {r} : req'[s] = req[s]
      BY <2>5 DEF TypeOK
    <3> QED BY <2>2, <2>5, <3>1 DEF NewReq
  <2> QED BY <2>1, <2>4, <2>5 DEF AddToRxQueue
<1> QED BY <1>1, <1>2, <1>3

\* It does not touch the request that is being filled.
LEMMA CalledAside ==
  ASSUME RxAssumption, IInv, At("after"),
         \/ \E r \in Reqs : Check(r) \/ Enqueue(r)
         \/ \E d \in Discards : CheckDiscard(d) \/ EnqueueDiscard(d)
  PROVE  First' = First /\ First \in All /\ req'[First] = req[First]
<1>1. PICK r \in All :
           /\ \A s \in All \ {r} : req'[s] = req[s]
           /\ req[r].st \in {"out", "answered", "checked"}
           /\ \/ UNCHANGED queue
              \/ /\ req[r].pid \in Profiles
                 /\ queue' = [queue EXCEPT ![req[r].pid] = Append(@, r)]
           /\ UNCHANGED <<chip, irq, ev, over, link, ready, dev, task, links>>
  BY Called
<1>2. rxPid \in Profiles /\ queue[rxPid] # <<>> /\ rxPid' = rxPid
  BY <1>1 DEF IInv, TaskInv, At, ready
<1>3. First \in All /\ req[First].st \in {"queued", "begun"}
  BY <1>2, FirstQueued
<1>4. First # r
  BY <1>1, <1>3
<1>5. First' = First
  <2>1. CASE UNCHANGED queue
    BY <1>2, <2>1 DEF First
  <2>2. CASE queue' = [queue EXCEPT ![req[r].pid] = Append(@, r)] /\ req[r].pid \in Profiles
    <3>1. queue[rxPid] \in Seq(All)
      BY <1>2 DEF IInv, TypeOK
    <3>2. queue'[rxPid] = queue[rxPid] \/ queue'[rxPid] = Append(queue[rxPid], r)
      BY <1>2, <2>2 DEF IInv, TypeOK
    <3>3. Head(Append(queue[rxPid], r)) = Head(queue[rxPid])
      BY <1>2, <3>1
    <3> QED BY <1>2, <3>2, <3>3 DEF First
  <2> QED BY <1>1, <2>1, <2>2
<1> QED BY <1>1, <1>3, <1>4, <1>5

\* The cached reading stands for a run of banks, in every step of the link.
LEMMA AccountStep ==
  ASSUME RxAssumption, IInv, LinkInv, [Next]_vars, Live \/ Connected, Live'
  PROVE  AccountInv'
<1> USE DEF AtBanks, At
<1>0. /\ TypeOK /\ TaskInv /\ BanksInv /\ (Live => TokenInv /\ AccountInv)
      /\ (Live => task.pc \notin {"purge", "clear"})
  BY DEF IInv, LinkInv, PhaseInv
<1>1. CASE Connected
  <2>1. task'.pc = "sched" BY <1>0, <1>1, Gone DEF Connected
  <2>2. Before /\ PhaseInv
    BY <1>1 DEF Connected, Before, LinkInv
  <2>3. /\ pos = 0 /\ fifo = 0 /\ dev.headPos = 0 /\ dev.remain = 0 /\ rxPid = NoPid
        /\ UNCHANGED <<banks, pos, fifo, dev, rxPid>>
    BY <1>1, <2>2 DEF Connected, PhaseInv, ready
  <2>4. banks # <<>> => 0 < banks[1].len
    <3>1. banks # <<>> => 1 \in DOMAIN banks
      BY <1>0 DEF TypeOK
    <3>2. \A i \in DOMAIN banks : banks[i].len \in 1 .. CsduSize
      BY <1>0, EndOf
    <3> QED BY <3>1, <3>2
  <2> QED BY <2>1, <2>3, <2>4 DEF AccountInv
<1> SUFFICES ASSUME Live
             PROVE  AccountInv'
  BY <1>1
<1>2. TokenInv /\ AccountInv /\ task.pc \notin {"purge", "clear"}
  BY <1>0
<1>3. rxPid # NoPid => rxReady
  BY <1>2 DEF AccountInv
<1>4. CASE Arrive
  <2>1. PICK b \in Csdu : banks' = Append(banks, b)
    BY <1>0, <1>4 DEF Arrive, Csdu, RxAssumption, TypeOK
  <2>2. UNCHANGED <<pos, fifo, dev, rxReady, rxPid, queue, req, task>>
    BY <1>4 DEF Arrive, ready
  <2>3. banks \in Seq(Csdu) /\ DOMAIN banks = 1 .. Len(banks) /\ Len(banks) \in Nat
    BY <1>0 DEF TypeOK
  <2>4. /\ banks' # <<>> /\ \A i \in DOMAIN banks : i \in DOMAIN banks' /\ banks'[i] = banks[i]
        /\ (banks = <<>> => banks'[1] = b)
        /\ (banks # <<>> => 1 \in DOMAIN banks)
    BY <2>1, <2>3
  <2>5. pos' < banks'[1].len
    <3>1. b.len \in 1 .. CsduSize
      BY DEF Csdu
    <3>2. CASE banks = <<>>
      BY <1>2, <2>2, <2>4, <3>1, <3>2 DEF AccountInv
    <3>3. CASE banks # <<>>
      BY <1>2, <2>2, <2>4, <3>3 DEF AccountInv
    <3> QED BY <3>2, <3>3
  <2>6. ASSUME NEW k \in DOMAIN banks, CachedRun(k)
        PROVE  k \in DOMAIN banks' /\ CachedRun(k)'
    <3>1. \A i \in 1 .. k : banks'[i] = banks[i]
      BY <2>3, <2>4
    <3>2. k \in 1 .. k /\ 1 \in 1 .. k
      BY <2>3
    <3>3. End(k)' = End(k)
      BY <3>1, <3>2 DEF End
    <3>4. SameRun(k)'
      BY <2>6, <3>1, <3>2 DEF CachedRun, SameRun
    <3>5. banks'[k] = banks[k]
      BY <3>1, <3>2
    <3> QED BY <2>2, <2>4, <2>6, <3>3, <3>4, <3>5 DEF CachedRun
  <2>7. dev.remain # 0 => banks # <<>> /\ banks'[1] = banks[1]
    <3>1. dev.remain # 0 => \E k \in DOMAIN banks : TRUE
      BY <1>2 DEF AccountInv
    <3> QED BY <2>3, <2>4, <3>1
  <2>8. rxPid # NoPid /\ ~AtBanks /\ ~At("end") => banks # <<>> /\ banks'[1] = banks[1]
    BY <1>2, <1>3, <2>4 DEF TokenInv, Holding
  <2>9. HasRoom(First)' = HasRoom(First)
    BY <2>2 DEF HasRoom, First
  <2> QED BY <1>2, <2>2, <2>4, <2>5, <2>6, <2>7, <2>8, <2>9 DEF AccountInv
<1>5. CASE ChipConnects \/ LinkLost \/ Interrupt
  <2>1. UNCHANGED <<banks, pos, fifo, dev, rxReady, rxPid, queue, req, task>>
    BY <1>5 DEF ChipConnects, LinkLost, Interrupt, IrqClear, IrqLook, IrqAdd, chip, ready
  <2>2. HasRoom(First)' = HasRoom(First)
    BY <2>1 DEF HasRoom, First
  <2> QED BY <1>2, <2>1, <2>2, AccountKept DEF AccountInv
<1>6. CASE Wakeup
  <2>1. task'.pc = "sched" /\ task.pc = "wait" BY <1>0, <1>6, Gone DEF Wakeup
  <2> QED BY <1>2, <1>6, <2>1, AccountKept DEF Wakeup, chip, ready, AccountInv
<1>7. CASE CheckEvent
  <2>1. task'.pc \in {"reset", "rx"} /\ task.pc = "sched" BY <1>0, <1>7, Gone DEF CheckEvent
  <2>2. UNCHANGED <<banks, pos, fifo, dev, rxPid>> /\ (rxReady => rxReady')
    BY <1>7 DEF CheckEvent, chip
  <2> QED BY <1>2, <2>1, <2>2, AccountKept DEF AccountInv
<1>8. CASE CheckRxRequest
  <2>1. task'.pc \in {"ready", "sched", "wait"} /\ task.pc = "rx"
    BY <1>0, <1>8, Gone DEF CheckRxRequest
  <2>2. UNCHANGED <<banks, pos, fifo, dev, rxReady>>
    BY <1>8 DEF CheckRxRequest, chip
  <2>3. /\ rxPid' # NoPid => rxReady' /\ rxPid' = banks[1].pid
        /\ dev.remain # 0 => rxPid' = rxPid
    <3>1. CASE ~(link /\ rxReady)
      <4>1. rxPid' = rxPid
        BY <1>8, <3>1 DEF CheckRxRequest
      <4> QED BY <1>2, <2>1, <2>2, <4>1 DEF AccountInv
    <3>2. CASE link /\ rxReady
      <4>1. rxPid' \in ReadyPid
        BY <1>8, <3>2 DEF CheckRxRequest
      <4>2. banks # <<>>
        BY <1>2, <2>1, <3>2 DEF TokenInv, Holding
      <4>3. CASE rxPid # NoPid
        BY <1>2, <2>1, <2>2, <3>2, <4>1, <4>3 DEF ReadyPid, AccountInv
      <4>4. CASE rxPid = NoPid
        <5>1. rxPid' = banks[1].pid
          BY <1>0, <4>1, <4>2, <4>4 DEF ReadyPid, TypeOK
        <5>2. 1 \in DOMAIN banks
          BY <1>0, <4>2 DEF TypeOK
        <5>3. banks[1].pid # NoPid
          <6>1. banks[1] \in Csdu
            BY <1>0, <5>2 DEF TypeOK
          <6> QED BY <6>1 DEF Csdu, RxAssumption
        <5>4. dev.remain = 0
          BY <1>2, <4>4, <5>3 DEF AccountInv
        <5> QED BY <2>2, <3>2, <5>1, <5>4
      <4> QED BY <4>3, <4>4
    <3> QED BY <3>1, <3>2
  <2> QED BY <1>2, <2>1, <2>2, <2>3, AccountKept
<1>9. CASE ReadReadyBuffer
  <2>1. /\ task.pc = "ready" /\ task'.pc = "receive" /\ task'.ready = dev'.remain
        /\ UNCHANGED <<banks, pos, fifo, rxReady, rxPid>>
    BY <1>0, <1>9 DEF ReadReadyBuffer, chip, ready, TypeOK
  <2>2. rxReady /\ banks # <<>> /\ rxPid # NoPid /\ rxPid = banks[1].pid
    <3>1. rxPid # NoPid
      BY <1>0, <2>1 DEF TaskInv, RxAssumption
    <3> QED BY <1>2, <2>1, <3>1 DEF TokenInv, Holding, AccountInv
  <2>3. CASE dev' = dev
    BY <1>2, <2>1, <2>2, <2>3, AccountKept
  <2>4. CASE dev' # dev
    <3>1. PICK h \in Headers : dev' = Cached(h)
      BY <1>9, <2>4 DEF ReadReadyBuffer
    <3>2. dev.headPos = pos /\ fifo = pos /\ pos < banks[1].len
      BY <1>2, <2>2 DEF AccountInv
    <3>3. PICK k \in DOMAIN banks :
            /\ SameRun(k) /\ dev'.remain = End(k) - pos /\ End(k) - pos \in 1 .. Word - 1
            /\ dev'.more = banks[k].more
            /\ dev'.reset = (~banks[k].more /\ banks[k].len # CsduSize)
            /\ dev'.headPos = pos
      BY <1>0, <2>2, <3>1, <3>2, RunRead
    <3>4. dev'.remain # 0
      BY <3>3, WordSize
    <3>5. CachedRun(k)'
      BY <2>1, <3>3 DEF CachedRun, SameRun, End
    <3> QED BY <2>1, <2>2, <3>2, <3>3, <3>4, <3>5 DEF AccountInv
  <2> QED BY <2>3, <2>4
<1>10. CASE ReceiveData
  <2>1. rxReady
    BY <1>2, <1>10 DEF TokenInv, ReceiveData
  <2> QED BY <1>0, <1>2, <1>10, <2>1, AccountReceived
<1>11. CASE NoMoreToReceive
  <2>1. /\ task'.pc = "unmask" /\ task'.ready = task.ready /\ task.pc = "receive"
    BY <1>0, <1>11, Gone DEF NoMoreToReceive
  <2> QED BY <1>2, <1>11, <2>1, AccountKept DEF NoMoreToReceive, chip, ready, AccountInv
<1>12. CASE ReadReadyRxBuffer
  <2>1. /\ task.pc = "after" /\ task'.pc = "receive" /\ HasRoom(First)
        /\ UNCHANGED <<banks, pos, fifo, rxReady, rxPid>>
    BY <1>0, <1>12, Gone DEF ReadReadyRxBuffer, chip, ready, TypeOK
  <2>2. task.ready = 0 /\ dev.remain = 0 /\ pos = 0 /\ dev.headPos = 0 /\ fifo = 0
    BY <1>2, <2>1 DEF AccountInv
  <2>3. CASE dev' = dev /\ task'.ready = task.ready
    BY <1>2, <2>1, <2>2, <2>3, AccountKept DEF AccountInv
  <2>4. CASE ~(dev' = dev /\ task'.ready = task.ready)
    <3>1. PICK h \in Headers : /\ dev' = Cached(h)
                               /\ task'.ready = (task.ready + dev'.remain) % Word
                               /\ (banks # <<>> => rxPid = Head(banks).pid)
      <4>1. PICK other \in IF banks = <<>> THEN BOOLEAN ELSE {Head(banks).pid # rxPid} :
              IF other
              THEN UNCHANGED dev /\ Goto("receive")
              ELSE \E h \in Headers :
                     /\ dev' = Cached(h)
                     /\ task' = [task EXCEPT !.pc = "receive",
                                             !.ready = (@ + dev'.remain) % Word]
        BY <1>12 DEF ReadReadyRxBuffer
      <4>2. ~other
        BY <1>0, <2>4, <4>1, Gone
      <4> QED BY <1>0, <4>1, <4>2 DEF TypeOK
    <3>2. Word \in Nat \ {0} /\ dev \in Device
      BY <1>0, WordSize DEF TypeOK
    <3>3. CASE banks = <<>>
      <4>1. h.units = 0
        BY <3>3 DEF Headers
      <4>2. dev'.remain = 0 /\ dev'.headPos = 0
        <5>1. dev'.remain = (0 - 0) % Word /\ dev'.headPos = dev.headPos
          BY <2>2, <3>1, <3>2, <4>1 DEF Cached, Device
        <5> QED BY <2>2, <3>2, <5>1
      <4>3. task'.ready = 0
        BY <2>2, <3>1, <3>2, <4>2
      <4> QED BY <1>3, <2>1, <2>2, <3>3, <4>2, <4>3 DEF AccountInv
    <3>4. CASE banks # <<>>
      <4>1. rxPid = banks[1].pid /\ pos < banks[1].len
        BY <1>0, <1>2, <3>1, <3>4 DEF TypeOK, AccountInv
      <4>2. PICK k \in DOMAIN banks :
              /\ SameRun(k) /\ dev'.remain = End(k) - pos /\ End(k) - pos \in 1 .. Word - 1
              /\ dev'.more = banks[k].more
              /\ dev'.reset = (~banks[k].more /\ banks[k].len # CsduSize)
              /\ dev'.headPos = pos
        BY <1>0, <2>2, <3>1, <3>4, <4>1, RunRead
      <4>3. dev'.remain # 0 /\ task'.ready = dev'.remain
        <5>1. \A x \in 1 .. Word - 1 : x # 0 /\ (0 + x) % Word = x
          BY <3>2
        <5>2. dev'.remain \in 1 .. Word - 1
          BY <4>2
        <5> QED BY <2>2, <3>1, <5>1, <5>2
      <4>4. CachedRun(k)'
        BY <2>1, <4>2 DEF CachedRun, SameRun, End
      <4> QED BY <1>3, <2>1, <2>2, <3>4, <4>1, <4>2, <4>3, <4>4 DEF AccountInv
    <3> QED BY <3>3, <3>4
  <2> QED BY <2>3, <2>4
<1>13. CASE CompleteReceive
  <2>1. task'.pc = "receive" /\ task'.ready = task.ready /\ task.pc = "after"
    BY <1>0, <1>13, Gone DEF CompleteReceive
  <2> QED BY <1>2, <1>13, <2>1, AccountKept DEF CompleteReceive, chip, ready, AccountInv
<1>14. CASE CountBanks \/ DropEvent \/ EnableInterrupt
  <2>1. /\ task'.ready = task.ready /\ task.pc \in {"unmask", "drop", "enable"}
        /\ task'.pc \in {"end", "drop", "enable"}
    BY <1>0, <1>14, Gone DEF CountBanks, DropEvent, EnableInterrupt
  <2>2. UNCHANGED <<banks, pos, fifo, dev, rxReady, rxPid>>
    BY <1>14 DEF CountBanks, DropEvent, EnableInterrupt, chip, ready
  <2> QED BY <1>2, <2>1, <2>2, AccountKept DEF AccountInv
<1>15. CASE EndReceive
  <2>1. task'.pc = "sched" /\ task.pc = "end" BY <1>0, <1>15, Gone DEF EndReceive
  <2>2. task.ready = dev.remain /\ UNCHANGED <<banks, pos, fifo, dev>>
    BY <1>2, <1>15, <2>1 DEF AccountInv, EndReceive, chip
  <2>3. CASE task.ready = 0
    <3>1. rxPid' = NoPid
      BY <1>15, <2>3 DEF EndReceive
    <3> QED BY <1>2, <2>1, <2>2, <2>3, <3>1, AccountKept
  <2>4. CASE task.ready # 0
    <3>1. UNCHANGED <<rxReady, rxPid>> /\ rxPid = banks[1].pid
      BY <1>2, <1>15, <2>2, <2>4 DEF EndReceive, ready, AccountInv
    <3> QED BY <1>2, <1>3, <2>1, <2>2, <3>1, AccountKept
  <2> QED BY <2>3, <2>4
<1>16. CASE Release
  <2>1. ~ResetChip
    BY <1>0, Gone DEF ResetChip, Live
  <2> QED BY <1>2, <1>16, <2>1 DEF Release, CommitState, PurgeDataRequest, ReleaseReset, Live
<1>17. CASE \E r \in Reqs : Cancel(r)
  <2>1. PICK r \in Reqs : Cancel(r)
    BY <1>17
  <2>2. task'.pc = "sched" /\ task.pc \in {"wait", "sched"} BY <1>0, <2>1, Gone DEF Cancel
  <2> QED BY <1>2, <2>1, <2>2, AccountKept DEF Cancel, chip, ready, AccountInv
<1>18. CASE \/ \E r \in Reqs : Check(r) \/ Enqueue(r)
            \/ \E d \in Discards : CheckDiscard(d) \/ EnqueueDiscard(d)
            \/ UNCHANGED vars
  <2>1. UNCHANGED <<chip, ready, dev, task>>
    BY <1>18 DEF Check, CheckDiscard, Enqueue, EnqueueDiscard, AddToRxQueue, vars
  <2>2. CASE UNCHANGED vars
    BY <1>2, <2>1, <2>2, AccountKept DEF vars, chip, ready, AccountInv, HasRoom, First
  <2>3. CASE ~UNCHANGED vars
    <3>1. At("after") => (HasRoom(First)' => HasRoom(First))
      BY <1>18, <2>3, CalledAside DEF HasRoom
    <3> QED BY <1>2, <2>1, <3>1, AccountKept DEF chip, ready, AccountInv
  <2> QED BY <2>2, <2>3
<1> QED
  BY <1>1, <1>4, <1>5, <1>6, <1>7, <1>8, <1>9, <1>10, <1>11, <1>12, <1>13, <1>14,
     <1>15, <1>16, <1>17, <1>18
     DEF Next, Environment, Task, Scheduler, Reception

(****************************************************************************)
(* Whose data it is                                                         *)
(****************************************************************************)
\* What arrives goes on with the message that was broken off.
LEMMA ContinuesKept ==
  ASSUME IInv, NEW r \in All, Continues(r), req'[r].from = req[r].from, req'[r].pid = req[r].pid,
         Arrive \/ UNCHANGED <<banks, peer>>
  PROVE  Continues(r)'
<1>1. CASE UNCHANGED <<banks, peer>>
  BY <1>1 DEF Continues, GoesOn
<1>2. CASE Arrive
  <2>1. PICK b \in Csdu :
          /\ banks' = Append(banks, b) /\ b.msg = peer.msg
          /\ peer.open \in {NoPid, b.pid}
    BY <1>2, Arrived DEF IInv
  <2>2. banks \in Seq(Csdu) /\ banks' # <<>>
        /\ banks'[1] = IF banks = <<>> THEN b ELSE banks[1]
    BY <2>1 DEF IInv, TypeOK
  <2>3. req[r] \in Request
    BY DEF IInv, TypeOK
  <2>4. ASSUME NEW x \in req[r].from
        PROVE  x.pid = req[r].pid /\ GoesOn(x.pid, x.msg)'
    <3>1. x.pid = req[r].pid /\ GoesOn(x.pid, x.msg)
      BY <2>4 DEF Continues
    <3>2. CASE banks # <<>>
      BY <2>2, <3>1, <3>2 DEF GoesOn
    <3>3. CASE banks = <<>>
      <4>1. peer.open = x.pid /\ peer.msg = x.msg
        BY <3>1, <3>3 DEF GoesOn
      <4>2. x.pid \in Profiles
        BY <2>3 DEF Request
      <4>3. NoPid \notin Profiles
        BY RxAssumption DEF RxAssumption
      <4> QED BY <2>1, <2>2, <3>1, <3>3, <4>1, <4>2, <4>3 DEF GoesOn
    <3> QED BY <3>2, <3>3
  <2> QED BY <2>4 DEF Continues
<1> QED BY <1>1, <1>2

\* Steps that leave requests and queues alone.
LEMMA MessageStill ==
  ASSUME IInv, MessageInv, OneMessage, UNCHANGED <<req, queue>>, Before' => Before,
         Live' => Live \/ Before, Live /\ Live' => Arrive \/ UNCHANGED <<banks, peer>>,
         At("after") => Live,
         At("after")' => At("after") /\ Live' /\ UNCHANGED <<rxPid, task>>,
         At("after") /\ ~At("after")' => task.more
  PROVE  MessageInv' /\ OneMessage'
<1>1. OneMessage'
  BY DEF OneMessage, OwnProfile
<1>2. ASSUME NEW r \in Reqs, Continues(r), Live, Live'
      PROVE  Continues(r)'
  BY <1>2, ContinuesKept DEF All
<1>3. At("after")' => First' = First
  BY DEF First
<1>4. ASSUME Live', NEW r \in Reqs, req[r].st = "begun", ~(At("after")' /\ r = First')
      PROVE  Continues(r)'
  <2>1. Live
    BY <1>4 DEF MessageInv, All
  <2>2. CASE At("after") /\ r = First
    BY <1>2, <1>3, <1>4, <2>1, <2>2 DEF MessageInv
  <2>3. CASE ~(At("after") /\ r = First)
    BY <1>2, <1>4, <2>1, <2>3 DEF MessageInv
  <2> QED BY <2>2, <2>3
<1>5. At("after")' /\ First' \in Reqs =>
        /\ OneFrom(First)' /\ req'[First'].ended = ~task'.more
        /\ task'.more => Continues(First)'
  <2> SUFFICES ASSUME At("after")', First \in Reqs
               PROVE  /\ OneFrom(First)' /\ req'[First'].ended = ~task'.more
                      /\ task'.more => Continues(First)'
    BY <1>3
  <2>1. OneFrom(First) /\ req[First].ended = ~task.more /\ (task.more => Continues(First))
    BY DEF MessageInv
  <2>2. OneFrom(First)'
    BY <1>3, <2>1 DEF OneFrom
  <2>3. task.more => Continues(First)'
    <3>1. ASSUME NEW r \in Reqs, r = First, task.more PROVE Continues(r)'
      BY <1>2, <2>1, <3>1
    <3>2. ASSUME NEW r \in Reqs, r = First, task.more PROVE Continues(First)'
      BY <1>3, <3>1, <3>2 DEF Continues
    <3> QED BY <3>2
  <2> QED BY <1>3, <2>1, <2>2, <2>3
<1> QED BY <1>1, <1>4, <1>5 DEF MessageInv

\* A caller's request is empty, and is appended as such.
LEMMA MessageCalled ==
  ASSUME RxAssumption, IInv, MessageInv, OneMessage, Before' => Before,
         \/ \E r \in Reqs : Check(r) \/ Enqueue(r)
         \/ \E d \in Discards : CheckDiscard(d) \/ EnqueueDiscard(d)
  PROVE  MessageInv' /\ OneMessage'
<1>0. TypeOK /\ QueuesInOrder /\ RequestInv /\ Reqs \subseteq All
  BY DEF IInv, All
<1>1. PICK r \in All :
        /\ \A s \in All \ {r} : req'[s] = req[s]
        /\ req[r].st \in {"out", "answered", "checked"}
        /\ \/ UNCHANGED queue /\ req'[r].st \in {"out", "checked"} /\ req'[r].from = {}
           \/ /\ req[r].st = "checked" /\ req[r].pid \in Profiles
              /\ queue' = [queue EXCEPT ![req[r].pid] = Append(@, r)]
              /\ req'[r] = [req[r] EXCEPT !.st = "queued"]
        /\ UNCHANGED <<chip, irq, ev, over, link, ready, dev, task, links>>
  BY Called
<1>2. UNCHANGED <<banks, peer, rxPid, task, link>>
  BY <1>1 DEF chip, ready
<1>3. req[r] \in Request
  BY <1>0 DEF TypeOK
<1>4. ASSUME NEW p \in Profiles, NEW i \in DOMAIN queue[p]
      PROVE  queue[p][i] # r /\ queue[p][i] \in All
  <2>1. req[queue[p][i]].st \in {"queued", "begun"}
    BY <1>0 DEF QueuesInOrder
  <2>2. queue[p] \in Seq(All)
    BY <1>0 DEF TypeOK
  <2>3. queue[p][i] \in All
    BY <2>2
  <2> QED BY <1>1, <2>1, <2>3
<1>5. /\ r \in Reqs => req'[r].from = {}
      /\ req'[r].from \in {{}, req[r].from} /\ req'[r].st \in {"out", "checked", "queued"}
      /\ req'[r].from = {} \/ req'[r].pid = req[r].pid
  <2>1. CASE req'[r].st \in {"out", "checked"} /\ req'[r].from = {}
    BY <2>1
  <2>2. CASE req[r].st = "checked" /\ req'[r] = [req[r] EXCEPT !.st = "queued"]
    <3>1. req'[r].from = req[r].from /\ req'[r].st = "queued" /\ req'[r].pid = req[r].pid
      BY <1>3, <2>2 DEF Request
    <3> QED BY <2>2, <3>1 DEF MessageInv
  <2> QED BY <1>1, <2>1, <2>2
<1>6. OneMessage'
  <2>1. OwnProfile'
    BY <1>1, <1>5 DEF OneMessage, OwnProfile
  <2>2. ASSUME NEW s \in Reqs, req'[s].st = "answered" PROVE req'[s] = req[s]
    BY <1>0, <1>1, <1>5, <2>2
  <2> QED BY <2>1, <2>2 DEF OneMessage
<1>7. \A s \in Reqs : req'[s].st \in {"checked", "queued"} => req'[s].from = {}
  BY <1>0, <1>1, <1>5 DEF MessageInv
<1>8. /\ \A p \in Profiles : \A i \in DOMAIN queue'[p] :
           queue'[p][i] \in Reqs /\ i # 1 => req'[queue'[p][i]].from = {}
      /\ \A s \in Reqs : req'[s].st \in {"queued", "begun"} =>
           \E i \in DOMAIN queue'[req'[s].pid] : queue'[req'[s].pid][i] = s
  <2>1. CASE UNCHANGED queue /\ req'[r].st \in {"out", "checked"}
    <3>1. ASSUME NEW p \in Profiles, NEW i \in DOMAIN queue[p], queue[p][i] \in Reqs, i # 1
          PROVE  req'[queue[p][i]].from = {}
      <4>1. req'[queue[p][i]] = req[queue[p][i]]
        BY <1>1, <1>4
      <4>2. req[queue[p][i]].from = {}
        BY <3>1 DEF MessageInv
      <4> QED BY <4>1, <4>2
    <3>2. ASSUME NEW s \in Reqs, req'[s].st \in {"queued", "begun"}
          PROVE  \E i \in DOMAIN queue[req'[s].pid] : queue[req'[s].pid][i] = s
      <4>1. s \in All /\ s # r
        BY <1>0, <2>1, <3>2
      <4>2. req'[s] = req[s]
        BY <1>1, <4>1
      <4> QED BY <3>2, <4>2 DEF MessageInv
    <3> QED BY <2>1, <3>1, <3>2
  <2>2. CASE /\ req[r].st = "checked" /\ req[r].pid \in Profiles
             /\ queue' = [queue EXCEPT ![req[r].pid] = Append(@, r)]
             /\ req'[r] = [req[r] EXCEPT !.st = "queued"]
    <3> DEFINE q == req[r].pid
    <3> DEFINE n == Len(queue[q])
    <3>1. queue[q] \in Seq(All) /\ n \in Nat /\ DOMAIN queue[q] = 1 .. n
      BY <1>0, <2>2 DEF TypeOK
    <3>2. queue'[q] = Append(queue[q], r) /\ \A p \in Profiles \ {q} : queue'[p] = queue[p]
      BY <1>0, <2>2 DEF TypeOK
    <3>3. /\ DOMAIN queue'[q] = 1 .. n + 1 /\ queue'[q][n + 1] = r
          /\ \A i \in 1 .. n : queue'[q][i] = queue[q][i]
      BY <3>1, <3>2
    <3>4. req'[r].pid = q
      BY <1>3, <2>2 DEF Request
    <3> HIDE DEF n, q
    <3>5. ASSUME NEW p \in Profiles, NEW i \in DOMAIN queue[p]
          PROVE  i \in DOMAIN queue'[p] /\ queue'[p][i] = queue[p][i]
      <4>1. CASE p = q
        BY <3>1, <3>3, <3>5, <4>1
      <4>2. CASE p # q
        BY <3>2, <3>5, <4>2
      <4> QED BY <4>1, <4>2
    <3>6. ASSUME NEW p \in Profiles, NEW i \in DOMAIN queue'[p]
          PROVE  queue'[p][i] = r \/ (i \in DOMAIN queue[p] /\ queue'[p][i] = queue[p][i])
      <4>1. CASE p = q
        <5>1. i \in 1 .. n \/ i = n + 1
          BY <3>1, <3>3, <3>6, <4>1
        <5> QED BY <3>1, <3>3, <4>1, <5>1
      <4>2. CASE p # q
        BY <3>2, <3>6, <4>2
      <4> QED BY <4>1, <4>2
    <3>7. ASSUME NEW p \in Profiles, NEW i \in DOMAIN queue'[p], queue'[p][i] \in Reqs, i # 1
          PROVE  req'[queue'[p][i]].from = {}
      <4>1. CASE queue'[p][i] = r
        BY <1>5, <3>7, <4>1
      <4>2. CASE queue'[p][i] # r
        <5>1. i \in DOMAIN queue[p] /\ queue'[p][i] = queue[p][i]
          BY <3>6, <4>2
        <5>2. req[queue[p][i]].from = {}
          BY <3>7, <5>1 DEF MessageInv
        <5> QED BY <1>0, <1>1, <3>7, <4>2, <5>1, <5>2
      <4> QED BY <4>1, <4>2
    <3>8. ASSUME NEW s \in Reqs, req'[s].st \in {"queued", "begun"}
          PROVE  \E i \in DOMAIN queue'[req'[s].pid] : queue'[req'[s].pid][i] = s
      <4>1. CASE s = r
        <5>1. n + 1 \in DOMAIN queue'[q]
          BY <3>1, <3>3
        <5> QED BY <3>3, <3>4, <4>1, <5>1
      <4>2. CASE s # r
        <5>1. s \in All /\ req'[s] = req[s]
          BY <1>0, <1>1, <4>2
        <5>2. req[s].pid \in Profiles
          BY <1>0, <3>8, <5>1 DEF RequestInv
        <5>3. PICK i \in DOMAIN queue[req[s].pid] : queue[req[s].pid][i] = s
          BY <3>8, <5>1 DEF MessageInv
        <5>4. i \in DOMAIN queue'[req[s].pid] /\ queue'[req[s].pid][i] = s
          BY <3>5, <5>2, <5>3
        <5> QED BY <5>1, <5>4
      <4> QED BY <4>1, <4>2
    <3> QED BY <3>7, <3>8
  <2> QED BY <1>1, <2>1, <2>2
<1>9. Before' => \A s \in All : req'[s].st # "begun"
  BY <1>1, <1>5 DEF MessageInv
<1>10. At("after") => First' = First /\ First \in All /\ req'[First] = req[First]
  BY CalledAside
<1>11. ASSUME NEW s \in All, req'[s] = req[s], Continues(s) PROVE Continues(s)'
  BY <1>2, <1>11 DEF Continues, GoesOn
<1>12. ASSUME Live', NEW s \in Reqs, req'[s].st = "begun", ~(At("after") /\ s = First)'
       PROVE  Continues(s)'
  <2>1. Live /\ s \in All /\ req'[s] = req[s]
    BY <1>0, <1>1, <1>2, <1>5, <1>12 DEF Live, At
  <2>2. ~(At("after") /\ s = First)
    BY <1>2, <1>10, <1>12 DEF At
  <2>3. Continues(s)
    BY <1>12, <2>1, <2>2 DEF MessageInv
  <2> QED BY <1>11, <2>1, <2>3
<1>13. At("after")' /\ First' \in Reqs =>
         /\ OneFrom(First)' /\ req'[First'].ended = ~task'.more
         /\ task'.more => Continues(First)'
  <2> SUFFICES ASSUME At("after"), First \in Reqs
               PROVE  /\ OneFrom(First)' /\ req'[First'].ended = ~task'.more
                      /\ task'.more => Continues(First)'
    BY <1>2, <1>10 DEF At
  <2>1. OneFrom(First) /\ req[First].ended = ~task.more /\ (task.more => Continues(First))
    BY DEF MessageInv
  <2>2. OneFrom(First)'
    BY <1>10, <2>1 DEF OneFrom
  <2>3. task.more => Continues(First)'
    BY <1>2, <1>10, <2>1 DEF Continues, GoesOn
  <2> QED BY <1>2, <1>10, <2>1, <2>2, <2>3
<1> QED BY <1>6, <1>7, <1>8, <1>9, <1>12, <1>13 DEF MessageInv

\* A cancelled request is empty, and the others keep their order.
LEMMA MessageCancelled ==
  ASSUME RxAssumption, IInv, MessageInv, OneMessage, Before' => Before,
         NEW r \in Reqs, Cancel(r)
  PROVE  MessageInv' /\ OneMessage'
<1>0. TypeOK /\ QueuesInOrder /\ RequestInv /\ Reqs \subseteq All
  BY DEF IInv, All
<1> DEFINE q == req[r].pid
<1>1. /\ req' = [req EXCEPT ![r] = NewReq] /\ Goto("sched") /\ task.pc \in {"wait", "sched"}
      /\ UNCHANGED <<chip, irq, events, link, ready, dev, links>>
      /\ req[r].st \in {"queued", "begun"}
  BY DEF Cancel
<1>2. PICK k \in DOMAIN queue[q] : queue[q][k] = r /\ queue' = [queue EXCEPT ![q] = Removed(@, k)]
  BY DEF Cancel
<1>3. q \in Profiles /\ r \in All
  BY <1>0, <1>1 DEF RequestInv
<1>4. req'[r] = NewReq /\ \A s \in All \ {r} : req'[s] = req[s]
  BY <1>0, <1>1, <1>3 DEF TypeOK
<1>5. NewReq.from = {} /\ NewReq.st = "out"
  BY DEF NewReq
<1>6. task'.pc = "sched" /\ UNCHANGED <<banks, peer, link>>
  BY <1>0, <1>1, Gone DEF chip
<1> DEFINE n == Len(queue[q])
<1>7. queue[q] \in Seq(All) /\ n \in Nat /\ DOMAIN queue[q] = 1 .. n
  BY <1>0, <1>3 DEF TypeOK
<1>8. queue'[q] = Removed(queue[q], k) /\ \A p \in Profiles \ {q} : queue'[p] = queue[p]
  BY <1>0, <1>2, <1>3 DEF TypeOK
<1>9. /\ DOMAIN queue'[q] = 1 .. n - 1
      /\ \A j \in 1 .. n - 1 : queue'[q][j] = IF j < k THEN queue[q][j] ELSE queue[q][j + 1]
  BY <1>2, <1>7, <1>8, RemovedTyped
<1> HIDE DEF n, q
<1>10. ASSUME NEW p \in Profiles, NEW i \in DOMAIN queue'[p]
       PROVE  \E j \in DOMAIN queue[p] : queue'[p][i] = queue[p][j] /\ (i # 1 => j # 1)
  <2>1. CASE p = q
    <3>1. i \in 1 .. n /\ i + 1 \in 1 .. n /\ i + 1 # 1
      BY <1>7, <1>9, <1>10, <2>1
    <3> QED BY <1>7, <1>9, <1>10, <2>1, <3>1
  <2>2. CASE p # q
    BY <1>8, <1>10, <2>2
  <2> QED BY <2>1, <2>2
<1>11. ASSUME NEW p \in Profiles, NEW j \in DOMAIN queue[p], queue[p][j] # r
       PROVE  \E i \in DOMAIN queue'[p] : queue'[p][i] = queue[p][j]
  <2>1. CASE p = q
    <3>1. j # k /\ j \in 1 .. n /\ k \in 1 .. n
      BY <1>2, <1>7, <1>11, <2>1 DEF q
    <3>2. CASE j < k
      <4>1. j \in 1 .. n - 1
        BY <1>7, <3>1, <3>2
      <4> QED BY <1>9, <2>1, <3>2, <4>1
    <3>3. CASE k < j
      <4>1. j - 1 \in 1 .. n - 1 /\ ~(j - 1 < k) /\ (j - 1) + 1 = j
        BY <1>7, <3>1, <3>3
      <4> QED BY <1>9, <2>1, <4>1
    <3> QED BY <1>7, <3>1, <3>2, <3>3
  <2>2. CASE p # q
    BY <1>8, <1>11, <2>2
  <2> QED BY <2>1, <2>2
<1>12. OneMessage'
  <2>1. OwnProfile'
    BY <1>4, <1>5 DEF OneMessage, OwnProfile
  <2>2. ASSUME NEW s \in Reqs, req'[s].st = "answered" PROVE req'[s] = req[s]
    BY <1>0, <1>4, <1>5, <2>2
  <2> QED BY <2>1, <2>2 DEF OneMessage
<1>13. \A s \in Reqs : req'[s].st \in {"checked", "queued"} => req'[s].from = {}
  BY <1>0, <1>4, <1>5 DEF MessageInv
<1>14. ASSUME NEW p \in Profiles, NEW i \in DOMAIN queue'[p], queue'[p][i] \in Reqs, i # 1
       PROVE  req'[queue'[p][i]].from = {}
  <2>1. PICK j \in DOMAIN queue[p] : queue'[p][i] = queue[p][j] /\ j # 1
    BY <1>10, <1>14
  <2>2. req[queue[p][j]].from = {}
    BY <1>14, <2>1 DEF MessageInv
  <2> QED BY <1>0, <1>4, <1>5, <1>14, <2>1, <2>2
<1>15. ASSUME NEW s \in Reqs, req'[s].st \in {"queued", "begun"}
       PROVE  \E i \in DOMAIN queue'[req'[s].pid] : queue'[req'[s].pid][i] = s
  <2>1. s # r /\ s \in All /\ req'[s] = req[s]
    BY <1>0, <1>4, <1>5, <1>15
  <2>2. req[s].pid \in Profiles
    BY <1>0, <1>15, <2>1 DEF RequestInv
  <2>3. PICK j \in DOMAIN queue[req[s].pid] : queue[req[s].pid][j] = s
    BY <1>15, <2>1 DEF MessageInv
  <2> QED BY <1>11, <2>1, <2>2, <2>3
<1>16. Before' => \A s \in All : req'[s].st # "begun"
  BY <1>4, <1>5 DEF MessageInv
<1>17. ASSUME Live', NEW s \in Reqs, req'[s].st = "begun"
       PROVE  Continues(s)'
  <2>1. s \in All /\ req'[s] = req[s]
    BY <1>0, <1>4, <1>5, <1>17
  <2>2. Live /\ ~At("after")
    BY <1>1, <1>6, <1>17 DEF Live, At
  <2>3. Continues(s)
    BY <1>17, <2>1, <2>2 DEF MessageInv
  <2> QED BY <1>6, <2>1, <2>3 DEF Continues, GoesOn
<1> QED BY <1>6, <1>12, <1>13, <1>14, <1>15, <1>16, <1>17 DEF MessageInv, At

\* A request that is complete was given data of one message and is told whether that ended.
LEMMA MessageCompleted ==
  ASSUME IInv, MessageInv, OneMessage, Before' => Before, CompleteReceive, Live
  PROVE  MessageInv' /\ OneMessage'
<1>0. TypeOK /\ QueuesInOrder /\ RequestInv /\ Reqs \subseteq All
  BY DEF IInv, All
<1> DEFINE r == First
<1>1. At("after") /\ UNCHANGED <<chip, irq, events, link, ready, dev, links>> /\ task'.pc = "receive"
  BY <1>0, Gone DEF CompleteReceive
<1>2. rxPid \in Profiles /\ queue[rxPid] # <<>>
  BY <1>1 DEF IInv, TaskInv, At
<1>3. r \in All /\ r = queue[rxPid][1] /\ 1 \in DOMAIN queue[rxPid] /\ req[r].pid = rxPid
      /\ queue[rxPid] \in Seq(All)
  BY <1>0, <1>2, FirstQueued DEF TypeOK
<1>4. req[r] \in Request
  BY <1>0, <1>3 DEF TypeOK
<1>5. r \in Reqs => OneFrom(r) /\ req[r].ended = ~task.more
  BY <1>1 DEF MessageInv
<1>6. ASSUME NEW s \in Reqs, req[s].st = "begun", s # r PROVE Continues(s)
  BY <1>6 DEF MessageInv
<1>7. ASSUME NEW s \in Reqs, Continues(s), req'[s] = req[s] PROVE Continues(s)'
  BY <1>1, <1>7 DEF Continues, GoesOn, chip
<1> HIDE DEF r
<1>8. CASE r \in Discards
  <2>1. req' = [req EXCEPT ![r].pos = 0] /\ UNCHANGED queue
    BY <1>8 DEF CompleteReceive, r
  <2>2. /\ \A s \in All \ {r} : req'[s] = req[s]
        /\ req'[r].st = req[r].st /\ req'[r].from = req[r].from /\ req'[r].pid = req[r].pid
    BY <1>0, <1>3, <1>4, <2>1 DEF TypeOK, Request
  <2>3. r \notin Reqs
    BY <1>8, RxAssumption DEF RxAssumption
  <2>4. \A s \in Reqs : s # r /\ s \in All /\ req'[s] = req[s]
    BY <1>0, <2>2, <2>3
  <2>5. OneMessage'
    <3>1. OwnProfile'
      BY <2>2 DEF OneMessage, OwnProfile
    <3> QED BY <2>4, <3>1 DEF OneMessage
  <2>6. Before' => \A s \in All : req'[s].st # "begun"
    BY <2>2 DEF MessageInv
  <2>7. \A s \in Reqs : req'[s].st = "begun" => Continues(s)'
    BY <1>6, <1>7, <2>4
  <2> QED BY <1>1, <2>1, <2>4, <2>5, <2>6, <2>7 DEF MessageInv, At
<1>9. CASE r \in Reqs
  <2>1. /\ req' = [req EXCEPT ![r].st = "answered", ![r].more = task.more]
        /\ queue' = [queue EXCEPT ![rxPid] = Tail(@)]
    <3>1. r \notin Discards
      BY <1>9, RxAssumption DEF RxAssumption
    <3> QED BY <3>1 DEF CompleteReceive, r
  <2>2. /\ \A s \in All \ {r} : req'[s] = req[s]
        /\ req'[r].st = "answered" /\ req'[r].from = req[r].from /\ req'[r].pid = req[r].pid
        /\ req'[r].ended = req[r].ended /\ req'[r].more = task.more
    BY <1>0, <1>3, <1>4, <2>1 DEF TypeOK, Request
  <2>3. /\ queue'[rxPid] = Tail(queue[rxPid])
        /\ \A p \in Profiles \ {rxPid} : queue'[p] = queue[p]
    BY <1>0, <1>2, <2>1 DEF TypeOK
  <2>4. /\ DOMAIN queue'[rxPid] = 1 .. Len(queue[rxPid]) - 1
        /\ DOMAIN queue[rxPid] = 1 .. Len(queue[rxPid]) /\ Len(queue[rxPid]) \in Nat
        /\ \A i \in 1 .. Len(queue[rxPid]) - 1 : queue'[rxPid][i] = queue[rxPid][i + 1]
    BY <1>2, <1>3, <2>3
  <2>5. ASSUME NEW p \in Profiles, NEW i \in DOMAIN queue'[p]
        PROVE  \E j \in DOMAIN queue[p] : queue'[p][i] = queue[p][j] /\ (i # 1 => j # 1)
    <3>1. CASE p = rxPid
      <4>1. i + 1 \in DOMAIN queue[p] /\ i + 1 # 1
        BY <2>4, <2>5, <3>1
      <4> QED BY <2>4, <2>5, <3>1, <4>1
    <3>2. CASE p # rxPid
      BY <2>3, <2>5, <3>2
    <3> QED BY <3>1, <3>2
  <2>6. ASSUME NEW p \in Profiles, NEW j \in DOMAIN queue[p], queue[p][j] # r
        PROVE  \E i \in DOMAIN queue'[p] : queue'[p][i] = queue[p][j]
    <3>1. CASE p = rxPid
      <4>1. j # 1
        BY <1>3, <2>6, <3>1
      <4>2. j - 1 \in 1 .. Len(queue[rxPid]) - 1 /\ (j - 1) + 1 = j
        BY <2>4, <2>6, <3>1, <4>1
      <4> QED BY <2>4, <3>1, <4>2
    <3>2. CASE p # rxPid
      BY <2>3, <2>6, <3>2
    <3> QED BY <3>1, <3>2
  <2>7. OneMessage'
    <3>1. OwnProfile'
      BY <2>2 DEF OneMessage, OwnProfile
    <3>2. ASSUME NEW s \in Reqs, req'[s].st = "answered"
          PROVE  /\ \A m1, m2 \in req'[s].from : m1 = m2
                 /\ req'[s].ended = ~req'[s].more
      <4>1. CASE s = r
        BY <1>5, <1>9, <2>2, <4>1 DEF OneFrom
      <4>2. CASE s # r
        <5>1. req'[s] = req[s]
          BY <1>0, <2>2, <4>2
        <5> QED BY <3>2, <5>1 DEF OneMessage
      <4> QED BY <4>1, <4>2
    <3> QED BY <3>1, <3>2 DEF OneMessage
  <2>8. \A s \in Reqs : req'[s].st \in {"checked", "queued"} => req'[s].from = {}
    BY <1>0, <2>2 DEF MessageInv
  <2>9. ASSUME NEW p \in Profiles, NEW i \in DOMAIN queue'[p], queue'[p][i] \in Reqs, i # 1
        PROVE  req'[queue'[p][i]].from = {}
    <3>1. PICK j \in DOMAIN queue[p] : queue'[p][i] = queue[p][j] /\ j # 1
      BY <2>5, <2>9
    <3>2. req[queue[p][j]].from = {}
      BY <2>9, <3>1 DEF MessageInv
    <3> QED BY <1>0, <2>2, <2>9, <3>1, <3>2
  <2>10. ASSUME NEW s \in Reqs, req'[s].st \in {"queued", "begun"}
         PROVE  \E i \in DOMAIN queue'[req'[s].pid] : queue'[req'[s].pid][i] = s
    <3>1. s # r /\ s \in All /\ req'[s] = req[s]
      BY <1>0, <2>2, <2>10
    <3>2. req[s].pid \in Profiles
      BY <1>0, <2>10, <3>1 DEF RequestInv
    <3>3. PICK j \in DOMAIN queue[req[s].pid] : queue[req[s].pid][j] = s
      BY <2>10, <3>1 DEF MessageInv
    <3> QED BY <2>6, <3>1, <3>2, <3>3
  <2>11. Before' => \A s \in All : req'[s].st # "begun"
    BY <2>2 DEF MessageInv
  <2>12. ASSUME NEW s \in Reqs, req'[s].st = "begun"
         PROVE  Continues(s)'
    <3>1. s # r /\ s \in All /\ req'[s] = req[s]
      BY <1>0, <2>2, <2>12
    <3> QED BY <1>6, <1>7, <2>12, <3>1
  <2> QED BY <1>1, <2>7, <2>8, <2>9, <2>10, <2>11, <2>12 DEF MessageInv, At
<1> QED BY <1>3, <1>8, <1>9 DEF All

\* When the link is over no request is left in a queue.
LEMMA MessagePurged ==
  ASSUME IInv, MessageInv, OneMessage, PurgeDataRequest
  PROVE  MessageInv' /\ OneMessage'
<1>1. /\ queue' = [p \in Profiles |-> <<>>] /\ task'.pc = "clear"
      /\ req' = [r \in All |-> IF req[r].st \in {"queued", "begun"} THEN NewReq ELSE req[r]]
  BY Gone DEF PurgeDataRequest, IInv
<1>2. NewReq.from = {} /\ NewReq.st = "out"
  BY DEF NewReq
<1>3. ASSUME NEW r \in All
      PROVE  /\ req'[r].st \notin {"queued", "begun"}
             /\ req'[r] = req[r] \/ (req'[r].from = {} /\ req'[r].st = "out")
  BY <1>1, <1>2
<1>4. Reqs \subseteq All
  BY DEF All
<1>5. OneMessage'
  <2>1. OwnProfile'
    BY <1>3 DEF OneMessage, OwnProfile
  <2>2. ASSUME NEW s \in Reqs, req'[s].st = "answered" PROVE req'[s] = req[s]
    BY <1>3, <1>4, <2>2
  <2> QED BY <2>1, <2>2 DEF OneMessage
<1>6. \A s \in Reqs : req'[s].st \in {"checked", "queued"} => req'[s].from = {}
  BY <1>3, <1>4 DEF MessageInv
<1>7. \A p \in Profiles : DOMAIN queue'[p] = {}
  BY <1>1
<1> QED BY <1>1, <1>3, <1>4, <1>5, <1>6, <1>7 DEF MessageInv, At

\* A run of banks holds one message.
LEMMA RunOfOne ==
  ASSUME TypeOK, BanksInv, NEW k \in DOMAIN banks, SameRun(k), NEW i \in 1 .. k
  PROVE  i \in DOMAIN banks /\ banks[i].pid = banks[1].pid /\ banks[i].msg = banks[1].msg
<1>1. DOMAIN banks = 1 .. Len(banks) /\ Len(banks) \in Nat
  BY DEF TypeOK
<1>2. i \in DOMAIN banks /\ 1 \in DOMAIN banks /\ 1 <= i /\ \A l \in 1 .. i - 1 : l \in 1 .. k /\ l < k
  BY <1>1
<1>3. \A l \in 1 .. i - 1 : banks[l].more
  BY <1>2 DEF SameRun
<1> QED BY <1>2, <1>3 DEF BanksInv

\* The request that is filled gets more of the message it waits for, or the beginning of one,
\* and waits for the rest unless the message ends.
LEMMA MessageReceived ==
  ASSUME RxAssumption, IInv, BanksInv, AccountInv, MessageInv, OneMessage, ReceiveData,
         Before' => Before, Live, Live'
  PROVE  MessageInv' /\ OneMessage'
<1> DEFINE r == First
<1> DEFINE all == Asked(r) >= dev.remain
<1> DEFINE n == IF all THEN dev.remain ELSE Asked(r)
<1>0. TypeOK /\ NoOverrun /\ QueuesInOrder /\ RequestInv /\ Reqs \subseteq All
  BY DEF IInv, All
<1>1. PICK e \in 0 .. Len(banks), read \in BOOLEAN :
        /\ Emptied(e, n)
        /\ banks' = SubSeq(banks, e + 1, Len(banks))
        /\ req' = [req EXCEPT ![r] = Filled(r, e, n, read)]
        /\ task' = [pc |-> "after", ready |-> task.ready - n, more |-> MoreAfter(all)]
  BY DEF ReceiveData
<1>2. /\ UNCHANGED <<rxReady, rxPid, queue, peer>>
      /\ At("receive") /\ queue[rxPid] # <<>> /\ task.ready > 0
  BY DEF ReceiveData, ready
<1>3. rxPid \in Profiles
  BY <1>2 DEF IInv, TaskInv, At
<1>4. r \in All /\ 1 \in DOMAIN queue[rxPid] /\ r = queue[rxPid][1] /\ req[r].pid = rxPid
      /\ req[r].st \in {"queued", "begun"}
  BY <1>2, <1>3, FirstQueued
<1>5. dev \in Device /\ dev.remain \in Nat /\ dev.more \in BOOLEAN
  BY <1>0, WordSize DEF TypeOK, Device
<1>6. Asked(r) \in Nat
  BY <1>0, <1>4, Piece
<1>7. dev.remain # 0
  <2>1. task.ready = dev.remain
    BY <1>2 DEF AccountInv, AtBanks, At
  <2> QED BY <1>2, <1>5, <2>1
<1>8. PICK k \in DOMAIN banks : CachedRun(k)
  BY <1>7 DEF AccountInv
<1>9. rxPid = banks[1].pid
  BY <1>7 DEF AccountInv
<1>10. SameRun(k) /\ dev.remain = End(k) - pos /\ dev.more = banks[k].more
  BY <1>8 DEF CachedRun
<1>11. k \in Nat /\ k >= 1 /\ k <= Len(banks) /\ Len(banks) \in Nat /\ End(k) \in Nat /\ pos \in Nat
       /\ DOMAIN banks = 1 .. Len(banks)
  BY <1>0, EndOf DEF TypeOK
<1>12. n \in Nat /\ n <= dev.remain /\ (~all => n < dev.remain) /\ (all => n = dev.remain)
  BY <1>5, <1>6
<1> HIDE DEF n
<1>13. pos + n <= End(k)
  BY <1>10, <1>11, <1>12
<1>14. /\ pos + n = End(k) => e = k /\ After(e, n) = 0
       /\ pos + n < End(k) => e < k
  BY <1>0, <1>1, <1>10, <1>12, <1>13, RunEmptied
<1>15. /\ all => e = k /\ After(e, n) = 0
       /\ ~all => e < k
  <2>1. (all => pos + n = End(k)) /\ (~all => pos + n < End(k))
    BY <1>10, <1>11, <1>12
  <2> HIDE DEF all
  <2> QED BY <1>14, <2>1
<1>16. PICK p1, m1 : p1 = banks[1].pid /\ m1 = banks[1].msg
  OBVIOUS
<1> DEFINE here == [pid |-> p1, msg |-> m1]
<1>17. \A i \in 1 .. k : banks[i].pid = p1 /\ banks[i].msg = m1
  BY <1>0, <1>10, <1>16, RunOfOne
<1>18. Touched(e, n) \subseteq {here}
  <2> DEFINE last == IF After(e, n) > 0 THEN Least(e + 1, Len(banks)) ELSE e
  <2>1. last \in Nat /\ last <= k
    <3>1. CASE all
      BY <1>11, <1>15, <3>1
    <3>2. CASE ~all
      <4>1. e \in Nat /\ e + 1 <= k /\ e + 1 <= Len(banks)
        BY <1>11, <1>15, <3>2
      <4>2. Least(e + 1, Len(banks)) = e + 1
        BY <4>1 DEF Least
      <4> QED BY <1>11, <4>1, <4>2
    <3> QED BY <3>1, <3>2
  <2>2. Touched(e, n) = {[pid |-> banks[i].pid, msg |-> banks[i].msg] : i \in 1 .. last}
    BY DEF Touched
  <2> HIDE DEF last
  <2>3. \A i \in 1 .. last : i \in 1 .. k
    BY <1>11, <2>1
  <2> QED BY <1>17, <2>2, <2>3
<1>19. req[r] \in Request
  BY <1>0, <1>4 DEF TypeOK
<1>20. /\ \A s \in All \ {r} : req'[s] = req[s]
       /\ req'[r].st = "begun" /\ req'[r].pid = rxPid
       /\ req'[r].from = req[r].from \cup Touched(e, n)
       /\ req'[r].ended = (e > 0 /\ After(e, n) = 0 /\ ~banks[e].more)
  <2>1. req'[r] = Filled(r, e, n, read) /\ \A s \in All \ {r} : req'[s] = req[s]
    BY <1>0, <1>1, <1>4 DEF TypeOK
  <2> DEFINE ended == e > 0 /\ After(e, n) = 0 /\ ~banks[e].more
  <2> DEFINE seen == req[r].from \cup Touched(e, n)
  <2>2. Filled(r, e, n, read) = [req[r] EXCEPT !.st = "begun", !.pos = @ + n, !.from = seen,
                                               !.ended = ended, !.read = @ /\ read]
    BY DEF Filled
  <2> HIDE DEF ended, seen
  <2>3. req'[r].st = "begun" /\ req'[r].pid = req[r].pid /\ req'[r].from = seen
        /\ req'[r].ended = ended
    BY <1>19, <2>1, <2>2 DEF Request
  <2> QED BY <1>4, <2>1, <2>3 DEF ended, seen
<1>21. task'.pc = "after" /\ task'.more = (~all \/ dev.more) /\ First' = r
  BY <1>1, <1>2 DEF MoreAfter, First
<1>22. banks # <<>>
  BY <1>11
<1>23. ASSUME r \in Reqs PROVE req'[r].from \subseteq {here}
  <2>1. ASSUME NEW x \in req[r].from PROVE x = here
    <3>1. Continues(r)
      BY <1>2, <1>4, <1>23, <2>1 DEF MessageInv, At
    <3>2. banks[1].pid = x.pid /\ banks[1].msg = x.msg
      BY <1>22, <2>1, <3>1 DEF Continues, GoesOn
    <3>3. x \in [pid : Profiles, msg : Nat]
      BY <1>19, <2>1 DEF Request
    <3> QED BY <1>16, <3>2, <3>3
  <2> QED BY <1>18, <1>20, <2>1
<1> HIDE DEF r
<1>24. GoesOn(p1, m1)' \/ (all /\ ~dev.more)
  <2> SUFFICES ASSUME ~(all /\ ~dev.more) PROVE GoesOn(p1, m1)'
    OBVIOUS
  <2>1. /\ DOMAIN banks' = 1 .. Len(banks) - e
        /\ \A i \in DOMAIN banks' : i + e \in DOMAIN banks /\ banks'[i] = banks[i + e]
        /\ (e = Len(banks) => banks' = <<>>)
        /\ (e # Len(banks) => banks' # <<>>)
    BY <1>0, <1>1, Rest
  <2>2. e \in Nat /\ e <= Len(banks) /\ e <= k
    BY <1>11, <1>15
  <2>3. CASE e = Len(banks)
    <3>1. all /\ dev.more /\ k = Len(banks)
      BY <1>11, <1>15, <2>2, <2>3
    <3>2. peer.open = banks[k].pid /\ peer.msg = banks[k].msg
      BY <1>10, <1>22, <3>1 DEF BanksInv
    <3>3. k \in 1 .. k
      BY <1>11
    <3>4. peer'.open = p1 /\ peer'.msg = m1
      BY <1>2, <1>17, <3>2, <3>3
    <3>5. banks' = <<>>
      BY <2>1, <2>3
    <3> QED BY <3>4, <3>5 DEF GoesOn
  <2>4. CASE e # Len(banks)
    <3>0. 1 \in 1 .. Len(banks) - e /\ 1 + e = e + 1
      <4>1. \A a \in Nat, c \in Nat : a <= c /\ a # c => 1 \in 1 .. c - a /\ 1 + a = a + 1
        OBVIOUS
      <4>2. e \in Nat /\ Len(banks) \in Nat /\ e <= Len(banks) /\ e # Len(banks)
        BY <1>11, <2>2, <2>4
      <4> QED BY <4>1, <4>2, Zenon
    <3>1. 1 \in DOMAIN banks' /\ banks' # <<>> /\ 1 + e = e + 1
      BY <2>1, <2>4, <3>0
    <3>2. e + 1 \in DOMAIN banks /\ banks'[1] = banks[e + 1]
      BY <2>1, <3>1
    <3>3. \A l \in 1 .. (e + 1) - 1 : banks[l].more
      <4>1. CASE all
        <5>1. e = k /\ banks[k].more
          BY <1>10, <1>15, <4>1
        <5>2. \A l \in 1 .. (e + 1) - 1 : l \in 1 .. k /\ (l = k \/ l < k)
          BY <1>11, <5>1
        <5> QED BY <1>10, <5>1, <5>2 DEF SameRun
      <4>2. CASE ~all
        <5>1. \A l \in 1 .. (e + 1) - 1 : l \in 1 .. k /\ l < k
          BY <1>11, <1>15, <2>2, <4>2
        <5> QED BY <1>10, <5>1 DEF SameRun
      <4> QED BY <4>1, <4>2
    <3>4. 1 \in DOMAIN banks /\ 1 <= e + 1
      BY <1>11, <2>2
    <3>5. banks[e + 1].pid = banks[1].pid /\ banks[e + 1].msg = banks[1].msg
      BY <3>2, <3>3, <3>4 DEF BanksInv
    <3> QED BY <1>16, <3>1, <3>2, <3>5 DEF GoesOn
  <2> QED BY <2>3, <2>4
<1>25. req'[r].ended = ~task'.more
  <2>1. CASE all
    <3>1. e = k /\ e > 0 /\ After(e, n) = 0
      BY <1>11, <1>15, <2>1
    <3>2. req'[r].ended = ~banks[k].more
      BY <1>20, <3>1
    <3>3. task'.more = dev.more
      BY <1>5, <1>21, <2>1
    <3> QED BY <1>10, <3>2, <3>3
  <2>2. CASE ~all
    <3>1. ~(e > 0 /\ ~banks[e].more)
      <4>1. e > 0 => e \in 1 .. k /\ e < k
        BY <1>11, <1>15, <2>2
      <4> QED BY <1>10, <4>1 DEF SameRun
    <3> QED BY <1>20, <1>21, <2>2, <3>1
  <2> QED BY <2>1, <2>2
<1>26. ASSUME r \in Reqs
       PROVE  /\ OneFrom(First)' /\ (task'.more => Continues(First)')
  <2>1. OneFrom(First)'
    BY <1>21, <1>23, <1>26 DEF OneFrom
  <2>2. task'.more => Continues(First)'
    <3> SUFFICES ASSUME task'.more, NEW x \in req'[r].from
                 PROVE  x.pid = req'[r].pid /\ GoesOn(x.pid, x.msg)'
      BY <1>21 DEF Continues
    <3>1. GoesOn(p1, m1)'
      BY <1>21, <1>24
    <3>2. x = here
      BY <1>23, <1>26
    <3>3. x.pid = p1 /\ x.msg = m1
      BY <3>2
    <3> QED BY <1>9, <1>20, <1>16, <3>1, <3>3 DEF GoesOn
  <2> QED BY <2>1, <2>2
<1>27. ASSUME NEW s \in Reqs, req'[s].st = "begun", s # r
       PROVE  Continues(s)'
  <2>1. s \in All /\ req'[s] = req[s] /\ Continues(s)
    BY <1>0, <1>2, <1>20, <1>27 DEF MessageInv, At
  <2>2. req[s].from = {}
    <3> SUFFICES ASSUME NEW x \in req[s].from PROVE FALSE
      OBVIOUS
    <3>1. req[s].pid = rxPid
      BY <1>9, <1>22, <2>1 DEF Continues, GoesOn
    <3>2. PICK i \in DOMAIN queue[rxPid] : queue[rxPid][i] = s
      BY <1>27, <2>1, <3>1 DEF MessageInv
    <3>3. i # 1
      BY <1>4, <1>27, <3>2
    <3> QED BY <1>3, <1>27, <3>2, <3>3 DEF MessageInv
  <2> QED BY <2>1, <2>2 DEF Continues
<1>28. OneMessage'
  <2>1. OwnProfile'
    <3>1. ASSUME NEW x \in req'[r].from PROVE x.pid = req'[r].pid
      <4>1. x \in req[r].from \/ x = here
        BY <1>18, <1>20, <3>1
      <4>2. x \in req[r].from => x.pid = rxPid
        BY <1>4 DEF OneMessage, OwnProfile
      <4> QED BY <1>9, <1>20, <1>16, <4>1, <4>2
    <3>2. ASSUME NEW s \in All \ {r}, NEW x \in req'[s].from PROVE x.pid = req'[s].pid
      BY <1>20, <3>2 DEF OneMessage, OwnProfile
    <3> QED BY <3>1, <3>2 DEF OwnProfile
  <2>2. ASSUME NEW s \in Reqs, req'[s].st = "answered" PROVE req'[s] = req[s]
    <3>1. s # r /\ s \in All
      BY <1>0, <1>20, <2>2
    <3> QED BY <1>20, <3>1
  <2> QED BY <2>1, <2>2 DEF OneMessage
<1>29. \A s \in Reqs : req'[s].st \in {"checked", "queued"} => req'[s].from = {}
  <2>1. ASSUME NEW s \in Reqs, req'[s].st \in {"checked", "queued"} PROVE req'[s] = req[s]
    <3>1. s # r /\ s \in All
      BY <1>0, <1>20, <2>1
    <3> QED BY <1>20, <3>1
  <2> QED BY <2>1 DEF MessageInv
<1>30. ASSUME NEW p \in Profiles, NEW i \in DOMAIN queue'[p], queue'[p][i] \in Reqs, i # 1
       PROVE  req'[queue'[p][i]].from = {}
  <2> DEFINE s == queue[p][i]
  <2>1. queue' = queue /\ i \in DOMAIN queue[p] /\ s \in Reqs
    BY <1>2, <1>30
  <2>2. req[s].from = {} /\ req[s].pid = p /\ \A j \in DOMAIN queue[p] : queue[p][j] = s => i = j
    BY <1>0, <1>30, <2>1 DEF MessageInv, QueuesInOrder
  <2>3. s # r
    BY <1>4, <1>30, <2>2
  <2> QED BY <1>0, <1>20, <2>1, <2>2, <2>3
<1>31. ASSUME NEW s \in Reqs, req'[s].st \in {"queued", "begun"}
       PROVE  \E i \in DOMAIN queue'[req'[s].pid] : queue'[req'[s].pid][i] = s
  <2>1. CASE s = r
    BY <1>2, <1>4, <1>20, <2>1
  <2>2. CASE s # r
    <3>1. req'[s] = req[s]
      BY <1>0, <1>20, <2>2
    <3> QED BY <1>2, <1>31, <3>1 DEF MessageInv
  <2> QED BY <2>1, <2>2
<1>32. ~Before'
  BY DEF Before, Live
<1>33. First' = r /\ At("after")'
  BY <1>21 DEF At
<1> QED BY <1>25, <1>26, <1>27, <1>28, <1>29, <1>30, <1>31, <1>32, <1>33 DEF MessageInv

\* A request goes on with the message it began, in every step of the link.
LEMMA MessageStep ==
  ASSUME RxAssumption, IInv, LinkInv, [Next]_vars, links' <= 1
  PROVE  MessageInv' /\ OneMessage'
<1>0. /\ TypeOK /\ PhaseInv /\ BanksInv /\ MessageInv /\ OneMessage /\ (Live => AccountInv)
      /\ (Live' => Live \/ Connected) /\ (Before' => Before)
  BY PhaseStep DEF IInv, LinkInv
<1>1. Live' => Live \/ Before
  BY <1>0 DEF Connected, Before
<1>2. task.pc \in {"ready", "receive", "after", "unmask", "drop", "enable", "end"} => Live
  BY <1>0 DEF PhaseInv, Over
<1>3. CASE ChipConnects \/ LinkLost \/ Interrupt \/ Arrive \/ UNCHANGED vars
  <2>1. UNCHANGED <<link, rxPid, req, queue, task>>
    BY <1>3 DEF ChipConnects, LinkLost, Interrupt, IrqClear, IrqLook, IrqAdd, Arrive, chip, ready,
                vars
  <2>2. Arrive \/ UNCHANGED <<banks, peer>>
    BY <1>3 DEF ChipConnects, LinkLost, Interrupt, IrqClear, IrqLook, IrqAdd, chip, vars
  <2>3. At("after") => Live
    BY <1>2 DEF At
  <2>4. (At("after")' <=> At("after")) /\ (Live' <=> Live)
    BY <2>1 DEF Live, At
  <2> QED BY <1>0, <1>1, <2>1, <2>2, <2>3, <2>4, MessageStill
<1>4. CASE \/ Wakeup \/ CheckEvent \/ CheckRxRequest \/ ReadReadyBuffer \/ NoMoreToReceive
           \/ ReadReadyRxBuffer \/ CountBanks \/ DropEvent \/ EnableInterrupt \/ EndReceive
           \/ Connected \/ ResetChip \/ CommitState \/ ReleaseReset
  <2>1. UNCHANGED <<req, queue>> /\ (~ResetChip => UNCHANGED <<banks, peer>>)
    BY <1>4 DEF Wakeup, CheckEvent, CheckRxRequest, ReadReadyBuffer, NoMoreToReceive,
                ReadReadyRxBuffer, CountBanks, DropEvent, EnableInterrupt, EndReceive,
                Connected, ResetChip, CommitState, ReleaseReset, chip
  <2>2. task'.pc # "after"
    <3>1. \A p : Goto(p) => task'.pc = p
      BY <1>0, Gone
    <3>2. CASE ReadReadyBuffer
      BY <1>0, <3>2 DEF ReadReadyBuffer, TypeOK
    <3>3. CASE ReadReadyRxBuffer
      <4>1. Goto("receive") \/ \E x : task' = [task EXCEPT !.pc = "receive", !.ready = x]
        BY <3>3 DEF ReadReadyRxBuffer
      <4> QED BY <1>0, <3>1, <4>1 DEF TypeOK
    <3>4. CASE \/ Wakeup \/ CheckEvent \/ CheckRxRequest \/ NoMoreToReceive
               \/ CountBanks \/ DropEvent \/ EnableInterrupt \/ EndReceive
               \/ Connected \/ ResetChip \/ CommitState \/ ReleaseReset
      <4>1. \E p : Goto(p) /\ p # "after"
        BY <3>4 DEF Wakeup, CheckEvent, CheckRxRequest, NoMoreToReceive,
                    CountBanks, DropEvent, EnableInterrupt, EndReceive,
                    Connected, ResetChip, CommitState, ReleaseReset
      <4> QED BY <3>1, <4>1
    <3> QED BY <1>4, <3>2, <3>3, <3>4
  <2>3. At("after") => ReadReadyRxBuffer
    BY <1>4 DEF Wakeup, CheckEvent, CheckRxRequest, ReadReadyBuffer, NoMoreToReceive,
                CountBanks, DropEvent, EnableInterrupt, EndReceive,
                Connected, ResetChip, CommitState, ReleaseReset, At
  <2>4. At("after") => task.more /\ Live
    BY <1>2, <2>3 DEF ReadReadyRxBuffer, At
  <2>5. ResetChip => ~Live'
    <3>1. ResetChip => task'.pc = "state"
      BY <1>0, Gone DEF ResetChip
    <3> QED BY <3>1 DEF Live, At
  <2>6. ~At("after")'
    BY <2>2 DEF At
  <2> QED BY <1>0, <1>1, <2>1, <2>4, <2>5, <2>6, MessageStill
<1>5. CASE ReceiveData
  <2>1. task.pc = "receive" /\ task'.pc = "after" /\ link' = link
    BY <1>5 DEF ReceiveData, At
  <2>2. Live /\ Live'
    BY <1>2, <2>1 DEF Live, At
  <2> QED BY <1>0, <1>5, <2>2, MessageReceived
<1>6. CASE CompleteReceive
  <2>1. Live
    BY <1>2, <1>6 DEF CompleteReceive, At
  <2> QED BY <1>0, <1>6, <2>1, MessageCompleted
<1>7. CASE PurgeDataRequest
  BY <1>0, <1>7, MessagePurged
<1>8. CASE \E r \in Reqs : Cancel(r)
  BY <1>0, <1>8, MessageCancelled
<1>9. CASE \/ \E r \in Reqs : Check(r) \/ Enqueue(r)
           \/ \E d \in Discards : CheckDiscard(d) \/ EnqueueDiscard(d)
  BY <1>0, <1>9, MessageCalled
<1> QED
  BY <1>3, <1>4, <1>5, <1>6, <1>7, <1>8, <1>9
     DEF Next, Environment, Task, Scheduler, Reception, Release

(****************************************************************************)
(* Theorems about the first link                                            *)
(****************************************************************************)
\* Nothing was received, asked for or linked in the beginning.
LEMMA FirstInit == ASSUME RxAssumption, Init PROVE FirstInv
<1>1. Before /\ ~Live /\ ~Over /\ ~At("after")
  BY DEF Init, Before, Live, Over, At
<1>2. PhaseInv
  BY <1>1 DEF Init, PhaseInv
<1>3. BanksInv
  <2>1. DOMAIN banks = {}
    BY DEF Init
  <2> QED BY <2>1 DEF Init, BanksInv
<1>4. \A r \in All : req[r].st = "out" /\ req[r].from = {}
  BY DEF Init, NewReq
<1>5. \A p \in Profiles : DOMAIN queue[p] = {}
  BY DEF Init
<1>6. Reqs \subseteq All
  BY DEF All
<1>7. MessageInv
  BY <1>1, <1>4, <1>5, <1>6 DEF MessageInv
<1>8. OneMessage
  BY <1>4, <1>6 DEF OneMessage, OwnProfile
<1> QED BY <1>1, <1>2, <1>3, <1>7, <1>8 DEF FirstInv, LinkInv

\* Links are counted and never taken back.
LEMMA FirstStep ==
  ASSUME RxAssumption, IInv, FirstInv, [Next]_vars
  PROVE  FirstInv'
<1> SUFFICES ASSUME links' <= 1
             PROVE  LinkInv'
  BY DEF FirstInv
<1>1. links <= 1
  <2>1. links' = links \/ links' = links + 1
    BY DEF Next, Environment, Interrupt, Task, Scheduler, Reception, Release, vars,
           ChipConnects, Arrive, LinkLost, IrqClear, IrqLook, IrqAdd, Check, CheckDiscard,
           Enqueue, EnqueueDiscard, AddToRxQueue, Cancel, Wakeup, CheckEvent, CheckRxRequest,
           ReadReadyBuffer, ReceiveData, NoMoreToReceive, ReadReadyRxBuffer, CompleteReceive,
           CountBanks, DropEvent, EnableInterrupt, EndReceive, Connected, ResetChip,
           CommitState, PurgeDataRequest, ReleaseReset
  <2>2. links \in Nat
    BY DEF IInv, TypeOK
  <2> QED BY <2>1, <2>2
<1>2. LinkInv
  BY <1>1 DEF FirstInv
<1>3. PhaseInv' /\ (Live' => Live \/ Connected)
  BY <1>2, PhaseStep
<1>4. BanksInv'
  BY <1>2, BanksStep DEF LinkInv, IInv
<1>5. Live' => TokenInv' /\ AccountInv'
  BY <1>2, <1>3, TokenStep, AccountStep
<1>6. MessageInv' /\ OneMessage'
  BY <1>2, MessageStep
<1> QED BY <1>3, <1>4, <1>5, <1>6 DEF LinkInv

\* The account of the first link is kept.
LEMMA FirstInvariance == Spec => []FirstInv
<1>1. Init => FirstInv
  BY FirstInit, RxAssumption
<1>2. IInv /\ FirstInv /\ [Next]_vars => FirstInv'
  BY FirstStep, RxAssumption
<1> QED BY <1>1, <1>2, Invariance, PTL DEF Spec

\* What the task takes to be ready is what the banks hold of the message and it has not read:
\* IZAN_readReadyBuffer reckons it from the headers, and what was cached is not read again.
THEOREM LeftIsReady == Spec => [](links <= 1 => ReadyIsLeft)
<1> SUFFICES ASSUME RxAssumption, IInv, LinkInv
             PROVE  ReadyIsLeft
  <2>1. IInv /\ FirstInv => (links <= 1 => ReadyIsLeft)
    BY RxAssumption DEF FirstInv
  <2> QED BY <2>1, Invariance, FirstInvariance, PTL
<1> SUFFICES ASSUME At("receive"), task.ready > 0, NEW h \in Headers
             PROVE  /\ task.ready <= h.units - pos
                    /\ ~dev.more => task.ready = h.units - pos
  BY DEF ReadyIsLeft
<1>1. TypeOK /\ BanksInv /\ AccountInv
  BY DEF IInv, LinkInv, PhaseInv, Live, Over, At
<1>2. task.ready = dev.remain /\ dev.remain # 0 /\ task.ready \in Nat
  BY <1>1 DEF AccountInv, AtBanks, At, TypeOK
<1>3. PICK c \in DOMAIN banks : CachedRun(c)
  BY <1>1, <1>2 DEF AccountInv
<1>4. SameRun(c) /\ dev.remain = End(c) - pos /\ dev.more = banks[c].more
  BY <1>3 DEF CachedRun
<1>5. banks # <<>>
  BY <1>3
<1>6. PICK k \in DOMAIN banks : h = [units |-> End(k), more |-> banks[k].more] /\ EndsRun(k)
  BY <1>5 DEF Headers
<1>7. /\ c \in Nat /\ k \in Nat /\ c >= 1 /\ k >= 1 /\ End(c) \in Nat /\ End(k) \in Nat /\ pos \in Nat
      /\ DOMAIN banks = 1 .. Len(banks) /\ Len(banks) \in Nat /\ k <= Len(banks) /\ c <= Len(banks)
  BY <1>1, EndOf DEF TypeOK
<1>8. c <= k
  <2> SUFFICES ASSUME k < c PROVE FALSE
    BY <1>7
  <2>1. k \in 1 .. c /\ k + 1 \in 1 .. c /\ k # Len(banks)
    BY <1>7
  <2>2. banks[k].more /\ banks[k].pid = banks[1].pid /\ banks[k + 1].pid = banks[1].pid
    BY <1>4, <2>1 DEF SameRun
  <2> QED BY <1>6, <2>1, <2>2 DEF EndsRun
<1>9. ~dev.more => c = k
  <2>1. c < k => banks[c].more
    <3>1. c < k => c \in 1 .. k
      BY <1>7
    <3> QED BY <1>6, <3>1 DEF EndsRun, SameRun
  <2> QED BY <1>4, <1>7, <1>8, <2>1
<1>10. End(c) <= End(k)
  <2>1. CASE c = k
    BY <1>7, <2>1
  <2>2. CASE c < k
    <3>1. End(c) < End(k)
      BY <1>1, <2>2, EndsInOrder
    <3> QED BY <1>7, <3>1
  <2> QED BY <1>7, <1>8, <2>1, <2>2
<1>11. h.units = End(k)
  BY <1>6
<1> QED BY <1>2, <1>4, <1>7, <1>9, <1>10, <1>11

\* Reading begins where the rest of the first bank is: IZAN_receiveData resets the address in
\* the RXFIFO exactly when the message ends in a bank that is not full.
THEOREM FifoKept == Spec => [](links <= 1 => FifoAtRest)
<1>1. LinkInv => FifoAtRest
  BY DEF LinkInv, PhaseInv, Live, Over, AccountInv, FifoAtRest, At
<1>2. FirstInv => (links <= 1 => FifoAtRest)
  BY <1>1 DEF FirstInv
<1> QED BY <1>2, FirstInvariance, PTL

\* What arrives is reported once and is not forgotten, although the handler clears the status
\* before it counts the banks and the task lifts the mask after it counted them.
THEOREM ReportedOnce == Spec => [](links <= 1 => Reported)
<1>1. IInv /\ LinkInv => Reported
  <2> SUFFICES ASSUME IInv, LinkInv PROVE Reported
    OBVIOUS
  <2>1. CASE Live
    <3>1. irq \in {"idle", "look", "add"}
      BY DEF IInv, TypeOK
    <3> QED BY <2>1, <3>1 DEF LinkInv, TokenInv, AtBanks, Reported, ReadyAddedOnce, NotForgotten,
                              Live, At
  <2>2. CASE ~Live
    BY <2>2 DEF LinkInv, PhaseInv, Over, Reported, ReadyAddedOnce, NotForgotten, Live, At
  <2> QED BY <2>1, <2>2
<1>2. IInv /\ FirstInv => (links <= 1 => Reported)
  BY <1>1 DEF FirstInv
<1> QED BY <1>2, Invariance, FirstInvariance, PTL

\* A request is answered with data of one message of its profile and is told whether the message
\* ended, whatever is cancelled, discarded or arrives meanwhile.
THEOREM AnsweredWithOne == Spec => [](links <= 1 => OneMessage)
<1>1. FirstInv => (links <= 1 => OneMessage)
  BY DEF FirstInv, LinkInv
<1> QED BY <1>1, FirstInvariance, PTL
=============================================================================

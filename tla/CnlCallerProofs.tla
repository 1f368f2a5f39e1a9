--------------------------- MODULE CnlCallerProofs ---------------------------
(****************************************************************************)
(* Theorems about the blocked callers of the CNL core: whoever waits is     *)
(* known to the core or answered already, whatever fails or expires; and    *)
(* without the command alarm he is answered once, and nothing refers to his *)
(* request once he has returned.                                            *)
(*                                                                          *)
(* A request is answered in four places: by the task when it finishes an    *)
(* action, by the reset of a link, by the purge after an error, and by the  *)
(* alarm.  The argument follows the one request there is from the queue to  *)
(* the hand of the task: ForgetInv says that it is never out of both before *)
(* the semaphore is up, AnswerInv that it is never in both at a place where *)
(* both are answered.  The last part is about the sleep of the task: no     *)
(* wake-up of a caller, of data or of an event is lost.                     *)
(****************************************************************************)
EXTENDS CnlCoreProofs, FiniteSetTheorems

\* The mutex lets one caller block.
OneWaits == \A c, d \in Waiting : c = d

AllKnown == \A c \in Waiting : ctrlQ = c \/ Answers(c) \/ sem > 0

ForgetInv == OneWaits /\ AllKnown

\* While a request is queued it is the one counted: the count goes wrong only while
\* the queue is empty.
CountInv == ctrlQ # NoReq => ctrlCnt = 1

\* What is done inside the scheduler is done for a caller.
WaitOps == {"WAIT_CONNECT", "CANCEL_WAIT_CONNECT"}

WaitInv == act.op \in WaitOps => act.req \in Callers

\* Without the alarm, what is in the queue or in hand is unanswered, and an action
\* that answers its request finds the queue empty.
QueueInv == ctrlQ \in Callers =>
              ctrlQ \in Waiting /\ sem = 0 /\ req[ctrlQ].state # "COMPLETED"

HandInv == act.req \in Callers =>
             /\ act.req \in Waiting /\ sem = 0
             /\ act.op \in StateOps \/ pc = "reset" => ctrlQ = NoReq

SemInv == sem <= 1 /\ (sem > 0 => Waiting # {})

AnswerInv == QueueInv /\ HandInv /\ SemInv

CallerInv == ForgetInv /\ CountInv /\ WaitInv /\ (MaxTimeout = 0 => AnswerInv)

(****************************************************************************)
(* The scheduler.                                                           *)
(****************************************************************************)
\* An action carries the queued request or none of a caller.
Own(a) == /\ a.req \in Callers => a.req = ctrlQ
          /\ a.op \in WaitOps => a.req \in Callers

\* What taking an action does to the requests: nothing; or the queued one goes to
\* the hand of the task, to be answered; or it is in both, to be executed.
Handed ==
  \/ act'.req \notin Callers /\ act'.op \notin WaitOps /\ UNCHANGED <<queue, req>>
  \/ /\ ctrlQ \in Callers /\ act'.req = ctrlQ /\ pc' = "do"
     /\ \A c \in Callers : /\ req'[c].caller = req[c].caller
                           /\ c # ctrlQ => req'[c].state = req[c].state
     /\ \/ /\ act'.op = "HANDLE_COMPLETE" /\ ctrlQ' = NoReq
           /\ act'.arg = "COMP_NULL" \/ req'[ctrlQ].state = "COMPLETED"
        \/ /\ act'.op \notin StateOps \cup {"HANDLE_ERROR"} /\ UNCHANGED queue
           /\ req'[ctrlQ].state \in {"PROCESSING", req[ctrlQ].state}

\* The queued request is in the queue, in the hand of the task, or in both.
LEMMA TakeHands ==
  ASSUME IInv, NEW a, NEW s, Own(a), Take(a, s)
  PROVE  Handed
<1>1. act' = a /\ pc' = "do"
  BY DEF Take
<1>2. req \in [Callers -> RequestObject]
  BY DEF IInv, TypeOK, ReqTypeOK
<1>3. CASE a.req \notin Callers
  BY <1>1, <1>3 DEF Take, Handed, Own
<1>4. CASE a.req \in Callers
  <2>1. a.req = ctrlQ
    BY <1>4 DEF Own
  <2>2. CASE /\ a.op = "HANDLE_COMPLETE"
             /\ IF LeavesQueue(a) THEN RemoveRequest ELSE UNCHANGED queue
             /\ req' = [req EXCEPT ![a.req].status = s,
                                   ![a.req].state = IF a.arg = "COMP_NULL" THEN @
                                                    ELSE "COMPLETED"]
    <3>1. /\ \A c \in Callers : /\ req'[c].caller = req[c].caller
                                /\ c # ctrlQ => req'[c].state = req[c].state
          /\ a.arg # "COMP_NULL" => req'[ctrlQ].state = "COMPLETED"
      BY <1>2, <1>4, <2>1, <2>2 DEF RequestObject
    <3>2. ctrlQ' = NoReq
      BY <2>2 DEF LeavesQueue, RemoveRequest
    <3> QED
      BY <1>1, <1>4, <2>1, <2>2, <3>1, <3>2 DEF Handed
  <2>3. CASE /\ a.op \in {"INIT", "CLOSE", "SEND_MNG_FRAME"}
             /\ req' = [req EXCEPT ![a.req].state = "PROCESSING"]
             /\ UNCHANGED queue
    <3>1. /\ \A c \in Callers : /\ req'[c].caller = req[c].caller
                                /\ c # ctrlQ => req'[c].state = req[c].state
          /\ req'[ctrlQ].state = "PROCESSING"
      BY <1>2, <1>4, <2>1, <2>3 DEF RequestObject
    <3> QED
      BY <1>1, <1>4, <2>1, <2>3, <3>1 DEF Handed, StateOps
  <2>4. CASE a.op \in WaitOps /\ UNCHANGED <<queue, req>>
    BY <1>1, <1>4, <2>1, <2>4 DEF Handed, StateOps, WaitOps
  <2> QED
    BY <1>4, <2>2, <2>3, <2>4 DEF Take, WaitOps
<1> QED
  BY <1>3, <1>4

\* The actions the scheduler makes without a caller's request.
LEMMA OwnActions ==
  /\ Own(Err) /\ Own(Wake) /\ Own(Nop)
  /\ NoReq \notin Callers /\ PwrReq \notin Callers
  /\ \A op, arg : op \notin {"WAIT_CONNECT", "CANCEL_WAIT_CONNECT"} =>
        Own(Action(op, arg, NoReq)) /\ Own(Action(op, arg, PwrReq))
        /\ Own(Action(op, arg, ctrlQ))
  /\ \A op, arg : ctrlQ \in Callers => Own(Action(op, arg, ctrlQ))
<1>1. NoReq \notin Callers /\ PwrReq \notin Callers
  BY CallersAssumption
<1> QED
  BY <1>1 DEF Own, Err, Wake, Nop, Action, WaitOps

\* No action: the task goes on with nothing in hand.
LEMMA NopHands ==
  ASSUME act' = Nop, UNCHANGED <<queue, req>>
  PROVE  Handed
<1>1. act'.req \notin Callers /\ act'.op \notin WaitOps
  BY CallersAssumption DEF Nop, Action, WaitOps
<1> QED
  BY <1>1 DEF Handed

\* Taking an action of an event does the same to the requests.
LEMMA HandleHands ==
  ASSUME IInv, NEW a, NEW s, NEW E, NEW F, Own(a), Handle(a, s, E, F)
  PROVE  Handed
<1>1. Take(a, s)
  BY DEF Handle
<1> QED
  BY <1>1, TakeHands

\* So do events that leave nothing to do and the frames of the peer.
LEMMA NoActionHands ==
  ASSUME IInv, NEW E, NEW F,
         NoAction(E, F) \/ \E f \in Frames : RecvdMngFrame(f, E, F)
  PROVE  Handed
<1>1. ASSUME NEW A, NEW G, Settle(A, G)
      PROVE  Handed
  BY <1>1, NopHands DEF Settle
<1>2. ASSUME NEW f, NEW A, NEW G, RecvdMngFrame(f, A, G)
      PROVE  Handed
  <2>1. CASE \/ Handle(Err, "NONE", A \ {f}, G)
             \/ Handle(Wake, "NONE", A, FrameFlags(f, G))
    BY <2>1, OwnActions, HandleHands
  <2>2. CASE /\ act' = Action(IF FrameSkipped(f, G) THEN "SKIP_MNG_FRAME"
                                                    ELSE "HANDLE_MNG_FRAME", f, NoReq)
             /\ UNCHANGED <<queue, req>>
    <3>1. act'.req \notin Callers /\ act'.op \notin WaitOps
      BY <2>2, OwnActions DEF Action, WaitOps
    <3> QED
      BY <2>2, <3>1 DEF Handed
  <2>3. CASE Settle(A, FrameFlags(f, G))
    BY <1>1, <2>3
  <2> QED
    BY <1>2, <2>1, <2>2, <2>3 DEF RecvdMngFrame
<1>3. CASE NoAction(E, F)
  BY <1>1, <1>2, <1>3 DEF NoAction
<1> QED
  BY <1>2, <1>3

\* The branch of the events hands on the queued request or leaves it.
LEMMA EventHands ==
  ASSUME IInv, CheckEvent
  PROVE  Handed
<1>1. CASE WakeRequired
  BY <1>1, OwnActions, HandleHands, NoActionHands DEF WakeRequired
<1>2. ASSUME NEW e, CompRequest(e)
      PROVE  Handed
  <2>1. CASE ProbeCompleted
    BY <2>1, OwnActions, HandleHands, NoActionHands DEF ProbeCompleted, Send
  <2>2. CASE /\ e # "COMP_PROBE_REQ"
             /\ \/ CompDeferred(e) /\ NoAction(ev, flags)
                \/ pwr = "HIBERNATE" /\ Handle(Wake, "NONE", ev, flags)
    BY <2>2, OwnActions, HandleHands, NoActionHands
  <2>3. CASE \/ Handle(Action("HANDLE_COMPLETE", e, NoReq), "NONE", ev \ {e}, flags)
             \/ NoAction(ev \ {e}, flags)
             \/ Handle(Action("HANDLE_COMPLETE", e, ctrlQ), "SUCCESS", ev \ {e}, flags)
    BY <2>3, OwnActions, HandleHands, NoActionHands
  <2>4. CASE ~CompValid(e) /\ Handle(Err, "NONE", ev \ {e}, flags)
    BY <2>4, OwnActions, HandleHands
  <2> QED
    BY <1>2, <2>1, <2>2, <2>3, <2>4 DEF CompRequest
<1>3. ASSUME NEW t, Timeout(t)
      PROVE  Handed
  BY <1>3, OwnActions, HandleHands, NoActionHands DEF Timeout
<1>4. CASE Handle(Err, "NONE", ev \ {"ERROR_OCCURRED"}, flags)
  BY <1>4, OwnActions, HandleHands
<1> QED
  BY <1>1, <1>2, <1>3, <1>4, NoActionHands DEF CheckEvent

\* The body of a frame is read for an action that no caller asked for: Take has no
\* place for one with a caller's request.
LEMMA ReadHands ==
  ASSUME IInv, ReadMngBody
  PROVE  Handed
<1> DEFINE E == ev \ {act.arg}
<1>1. \/ Handle(Err, "NONE", E, flags)
      \/ act.op = "HANDLE_MNG_FRAME" /\ Handle(act, "NONE", E, flags)
      \/ NoAction(E, flags)
  BY DEF ReadMngBody
<1>2. CASE Handle(Err, "NONE", E, flags)
  BY <1>2, OwnActions, HandleHands
<1>3. CASE act.op = "HANDLE_MNG_FRAME" /\ Handle(act, "NONE", E, flags)
  <2>1. /\ act.req \notin Callers /\ act' = act /\ UNCHANGED <<queue, req>>
        /\ act.op \notin WaitOps
    BY <1>3 DEF Handle, Take, WaitOps
  <2> QED
    BY <2>1 DEF Handed
<1>4. CASE NoAction(E, flags)
  BY <1>4, NoActionHands
<1> QED
  BY <1>1, <1>2, <1>3, <1>4

\* So does the branch of a device that is being opened or closed.
LEMMA InitCloseHands ==
  ASSUME IInv, CheckInitClose
  PROVE  Handed
<1>1. Own(Complete(ctrlQ)) /\ Own(Action("INIT", "", ctrlQ)) /\ Own(Action("CLOSE", "", ctrlQ))
  BY OwnActions DEF Complete
<1>2. CASE \/ Take(Complete(ctrlQ), "INVSTAT")
           \/ Take(Action("INIT", "", ctrlQ), "NONE")
           \/ Take(Wake, "NONE")
           \/ Take(Action("CLOSE", "", ctrlQ), "NONE")
  BY <1>1, <1>2, OwnActions, TakeHands
<1>3. CASE UNCHANGED <<act, queue, req>>
  <2>1. act = Nop
    BY DEF CheckInitClose, IInv, TaskInv
  <2> QED
    BY <1>3, <2>1, NopHands
<1> QED
  BY <1>2, <1>3 DEF CheckInitClose

\* Every action made of the queued request carries it, or none of a caller.
LEMMA OwnAwake ==
  ASSUME IInv, NEW a, Own(a)
  PROVE  Own(AwakeFirst(a))
<1>1. pwr \in {"AWAKE", "HIBERNATE"} \cup Transitional
  BY DEF IInv, TypeOK, DevTypeOK
<1> QED
  BY <1>1, OwnActions DEF AwakeFirst, Transitional

\* What the branch of the requests makes of a request carries that request alone.
LEMMA OwnRequests ==
  ASSUME IInv, NEW o \in CtrlOutcomes
  PROVE  Own(o.act)
<1>0. ctrlQ \in Callers \cup {NoReq}
  BY DEF IInv, TypeOK, ReqTypeOK
<1>1. \A a : Own(a) => Own(AwakeFirst(a))
  BY OwnAwake
<1>2. /\ ctrlQ # NoReq => \A op, arg : /\ Own(Action(op, arg, ctrlQ))
                                       /\ Own(AwakeFirst(Action(op, arg, ctrlQ)))
      /\ \A t : Own(Order(t)) /\ Own(AwakeFirst(Order(t)))
      /\ Own(WakeLink) /\ \A f : Own(Send(f, ctrlQ))
      /\ Own(Complete(ctrlQ))
  BY <1>0, <1>1, OwnActions DEF Order, WakeLink, Send, Complete
<1>3. /\ \A a : Perform(a).act = a
      /\ \A s : Answer(ctrlQ, s).act = Complete(ctrlQ)
  BY DEF Perform, Answer
<1>4. ctrlQ # NoReq => Own(ConnectReq(ctrlQ).act) /\ Own(WconnectReq(ctrlQ).act)
  BY <1>2, <1>3 DEF ConnectReq, WconnectReq
<1>5. Own(AcceptReq(ctrlQ).act) /\ Own(AcceptRes(ctrlQ).act)
  BY <1>2, <1>3 DEF AcceptReq, AcceptRes
<1>6. ctrlQ # NoReq => Own(ReleaseReq(ctrlQ).act)
  <2>1. \/ ReleaseReq(ctrlQ) \in {Perform(Send("C_RLS", ctrlQ)), Perform(WakeLink),
                                  Answer(ctrlQ, "INVSTAT")}
        \/ ReleaseReq(ctrlQ) = Perform(AwakeFirst(Action("CANCEL_WAIT_CONNECT", "", ctrlQ)))
    BY DEF ReleaseReq
  <2> QED
    BY <1>2, <1>3, <2>1
<1>7. ASSUME NEW same \in BOOLEAN
      PROVE  Own(PowersaveReq(ctrlQ, same).act)
  <2>1. \/ PowersaveReq(ctrlQ, same) = Perform(Send("C_SLEEP", ctrlQ))
        \/ \E s : PowersaveReq(ctrlQ, same) = Answer(ctrlQ, s)
    BY DEF PowersaveReq
  <2> QED
    BY <1>2, <1>3, <2>1
<1>8. ctrlQ # NoReq => req[ctrlQ].type \in RequestTypes \cup {"NONE"}
  BY DEF IInv, TypeOK, ReqTypeOK, RequestObject
<1>9. ASSUME ctrlQ # NoReq, NEW same \in BOOLEAN
      PROVE  Own(CtrlRequest(ctrlQ, same).act)
  BY <1>3, <1>4, <1>5, <1>6, <1>7, <1>8, <1>9, OwnActions DEF CtrlRequest, RequestTypes
<1>10. \/ o = Perform(Nop)
       \/ ctrlQ # NoReq /\ \E same \in BOOLEAN : o = CtrlRequest(ctrlQ, same)
  BY DEF CtrlOutcomes
<1> QED
  BY <1>3, <1>9, <1>10, OwnActions

\* The branch of the requests hands on the queued request or leaves it.
LEMMA RequestHands ==
  ASSUME IInv, CheckRequests
  PROVE  Handed
<1>1. PICK o \in CtrlOutcomes :
        LET a == FirstOf(o.act, FirstOf(RxRequest, FirstOf(TxRequest, SleepReady)))
        IN \/ Take(a, o.status)
           \/ Take(Err, "NONE")
           \/ act' = Nop /\ UNCHANGED <<queue, req>>
  BY Zenon DEF CheckRequests
<1> DEFINE a == FirstOf(o.act, FirstOf(RxRequest, FirstOf(TxRequest, SleepReady)))
<1>2. /\ Own(RxRequest) /\ Own(SleepReady)
  BY OwnActions, OwnAwake DEF RxRequest, SleepReady, Order
<1>3. Own(TxRequest)
  BY OwnActions, OwnAwake DEF TxRequest, WakeLink, Order, Send
<1>4. Own(a)
  BY <1>2, <1>3, OwnRequests DEF FirstOf
<1> HIDE DEF a
<1>5. CASE Take(a, o.status) \/ Take(Err, "NONE")
  BY <1>4, <1>5, OwnActions, TakeHands
<1>6. CASE act' = Nop /\ UNCHANGED <<queue, req>>
  BY <1>6, NopHands
<1> QED
  BY <1>1, <1>5, <1>6 DEF a

\* While the task looks for an action it has none of a caller in hand that would
\* answer him.
LEMMA ScheduleStep ==
  ASSUME IInv, CallerInv, Schedule
  PROVE  CallerInv'
<1>1. Handed /\ UNCHANGED sem
  <2>1. CASE TaskWait
    <3>1. act = Nop /\ UNCHANGED <<act, queue, req, sem>>
      BY <2>1 DEF TaskWait, IInv, TaskInv, reqVars, queue
    <3> QED
      BY <3>1, NopHands
  <2> QED
    BY <2>1, EventHands, ReadHands, InitCloseHands, RequestHands
       DEF Schedule, CheckInitClose, CheckEvent, ReadMngBody, CheckRequests
<1>2. \A c \in Callers : ~Answers(c)
  <2>1. pc \in {"wait", "sched", "event", "request"} => act = Nop
    BY DEF IInv, TaskInv
  <2>2. pc = "read" => act.op \in {"HANDLE_MNG_FRAME", "SKIP_MNG_FRAME"}
    BY DEF IInv, TaskInv
  <2>3. pc \in {"wait", "sched", "event", "read", "request"}
    BY DEF Schedule, TaskWait, CheckInitClose, CheckEvent, ReadMngBody, CheckRequests
  <2>4. Nop.op = "NOP"
    BY DEF Nop, Action
  <2> QED
    BY <2>1, <2>2, <2>3, <2>4 DEF Answers
<1>3. ctrlQ \in Callers \cup {NoReq} /\ NoReq \notin Callers
  BY OwnActions DEF IInv, TypeOK, ReqTypeOK
<1>4. Waiting' = Waiting
  BY <1>1 DEF Handed, Waiting
<1>5. ForgetInv'
  BY <1>1, <1>2, <1>3, <1>4 DEF CallerInv, ForgetInv, OneWaits, AllKnown, Handed, Answers, Waiting,
     queue
<1>7. CountInv' /\ WaitInv'
  BY <1>1, <1>3 DEF CallerInv, CountInv, WaitInv, Handed, queue
<1>6. ASSUME AnswerInv
      PROVE  AnswerInv'
  <2>1. SemInv'
    BY <1>1, <1>4, <1>6 DEF AnswerInv, SemInv
  <2>2. QueueInv'
    BY <1>1, <1>3, <1>4, <1>6 DEF AnswerInv, QueueInv, Handed, queue
  <2>3. HandInv'
    BY <1>1, <1>3, <1>4, <1>6 DEF AnswerInv, QueueInv, HandInv, Handed, queue
  <2> QED
    BY <2>1, <2>2, <2>3 DEF AnswerInv
<1> QED
  BY <1>5, <1>6, <1>7 DEF CallerInv

(****************************************************************************)
(* The callers.                                                             *)
(****************************************************************************)
LEMMA CallersStep ==
  ASSUME IInv, CallerInv, NEW c \in Callers, Caller(c)
  PROVE  CallerInv'
<1>1. /\ req \in [Callers -> RequestObject] /\ ctrlQ \in Callers \cup {NoReq} /\ sem \in Nat
      /\ NoReq \notin Callers /\ nTimeout \in Nat /\ MaxTimeout \in Nat
  BY OwnActions, BoundsAssumption DEF IInv, TypeOK, ReqTypeOK
<1>2. UNCHANGED <<pc, act>>
  BY DEF Caller, CheckRequest, AddRequest, Return, CmdTimeout, taskVars
<1>3. CASE \E t \in ReqTypes : CheckRequest(c, t)
  <2>1. /\ UNCHANGED <<queue, sem>>
        /\ \A d \in Callers : /\ req'[d].state = req[d].state
                              /\ d # c => req'[d].caller = req[d].caller
        /\ req[c].caller # "waiting" /\ req'[c].caller # "waiting"
    BY <1>1, <1>3 DEF CheckRequest, RequestObject
  <2>2. Waiting' = Waiting
    BY <2>1 DEF Waiting
  <2>3. ForgetInv'
    BY <1>2, <2>1, <2>2 DEF CallerInv, ForgetInv, OneWaits, AllKnown, Answers, Waiting, queue
  <2>4. AnswerInv => AnswerInv'
    BY <1>2, <2>1, <2>2 DEF AnswerInv, QueueInv, HandInv, SemInv, queue
  <2>5. CountInv' /\ WaitInv'
    BY <1>2, <2>1 DEF CallerInv, CountInv, WaitInv, queue
  <2> QED
    BY <2>3, <2>4, <2>5 DEF CallerInv
<1>4. CASE AddRequest(c)
  <2>0. Waiting = {} /\ UNCHANGED sem
    BY <1>4 DEF AddRequest, MutexFree, Waiting
  <2>1. CASE ctrlCnt < 1
    <3>0. ctrlQ = NoReq /\ ctrlCnt' = 1 /\ WaitInv'
      <4>1. ctrlQ = NoReq
        BY <2>1 DEF CallerInv, CountInv
      <4>2. ctrlCnt = 0 /\ ctrlCnt' = ctrlCnt + 1
        BY <1>4, <2>1 DEF AddRequest, IInv, TypeOK, ReqTypeOK, Byte
      <4>3. WaitInv'
        BY <1>2 DEF CallerInv, WaitInv
      <4> QED
        BY <4>1, <4>2, <4>3
    <3>1. /\ ctrlQ' = c
          /\ req'[c].caller = "waiting" /\ req'[c].state = "QUEUED"
          /\ \A d \in Callers : d # c => req'[d].caller = req[d].caller
      BY <1>1, <1>4, <2>1 DEF AddRequest, RequestObject
    <3>2. Waiting' = {c}
      BY <2>0, <3>1 DEF Waiting
    <3>3. ForgetInv'
      BY <3>1, <3>2 DEF ForgetInv, OneWaits, AllKnown
    <3>4. AnswerInv => AnswerInv'
      BY <1>1, <1>2, <2>0, <3>1, <3>2 DEF AnswerInv, QueueInv, HandInv, SemInv
    <3> QED
      BY <3>0, <3>3, <3>4 DEF CallerInv, CountInv
  <2>2. CASE ~(ctrlCnt < 1)
    <3>1. /\ UNCHANGED queue
          /\ req'[c].caller # "waiting"
          /\ \A d \in Callers : d # c => req'[d].caller = req[d].caller
          /\ \A d \in Callers : req'[d].state = req[d].state
      BY <1>1, <1>4, <2>2 DEF AddRequest, RequestObject
    <3>2. Waiting' = {}
      BY <2>0, <3>1 DEF Waiting
    <3>3. ForgetInv'
      BY <3>2 DEF ForgetInv, OneWaits, AllKnown
    <3>4. AnswerInv => AnswerInv'
      BY <1>1, <1>2, <2>0, <3>1, <3>2 DEF AnswerInv, QueueInv, HandInv, SemInv, queue
    <3>5. CountInv' /\ WaitInv'
      BY <1>2, <3>1 DEF CallerInv, CountInv, WaitInv, queue
    <3> QED
      BY <3>3, <3>4, <3>5 DEF CallerInv
  <2> QED
    BY <2>1, <2>2
<1>5. CASE Return(c)
  <2>1. /\ UNCHANGED queue /\ sem > 0 /\ sem' = sem - 1 /\ c \in Waiting
        /\ req'[c].caller # "waiting"
        /\ \A d \in Callers : d # c => req'[d].caller = req[d].caller
    BY <1>1, <1>5 DEF Return, RequestObject, Waiting
  <2>2. Waiting' = {}
    BY <2>1 DEF CallerInv, ForgetInv, OneWaits, Waiting
  <2>3. ForgetInv'
    BY <2>2 DEF ForgetInv, OneWaits, AllKnown
  <2>4. AnswerInv => AnswerInv'
    BY <1>1, <1>2, <2>1, <2>2 DEF AnswerInv, QueueInv, HandInv, SemInv, queue
  <2>5. CountInv' /\ WaitInv'
    BY <1>2, <2>1 DEF CallerInv, CountInv, WaitInv, queue
  <2> QED
    BY <2>3, <2>4, <2>5 DEF CallerInv
<1>6. CASE CmdTimeout(c)
  <2>1. /\ MaxTimeout # 0 /\ sem' = sem + 1 /\ ctrlQ' = NoReq
        /\ \A d \in Callers : req'[d].caller = req[d].caller
    BY <1>1, <1>6 DEF CmdTimeout, RequestObject, RemoveRequest
  <2>2. Waiting' = Waiting
    BY <2>1 DEF Waiting
  <2>3. ForgetInv'
    BY <1>1, <2>1, <2>2 DEF CallerInv, ForgetInv, OneWaits, AllKnown
  <2> QED
    BY <1>2, <2>1, <2>3 DEF CallerInv, CountInv, WaitInv
<1> QED
  BY <1>3, <1>4, <1>5, <1>6 DEF Caller

\* Steps of senders, of the chip and of the interrupt handler.
LEMMA OthersStep ==
  ASSUME CallerInv, UNCHANGED <<queue, req, sem, pc, act>>
  PROVE  CallerInv'
BY DEF CallerInv, ForgetInv, CountInv, WaitInv, AnswerInv, OneWaits, AllKnown, QueueInv, HandInv,
       SemInv, Answers, Waiting, queue

(****************************************************************************)
(* The actions.                                                             *)
(****************************************************************************)
\* An action that answers nobody is over or fails: its request stays where it is.
LEMMA ExecutedStep ==
  ASSUME CallerInv, UNCHANGED <<queue, req, sem>>,
         pc = "do", act.op \notin {"HANDLE_COMPLETE", "HANDLE_ERROR"},
         \/ act' = Nop /\ pc' = "sched"
         \/ act' = [act EXCEPT !.op = "HANDLE_ERROR", !.arg = ""] /\ pc' = pc,
         act \in ActionObject
  PROVE  CallerInv'
<1>1. Waiting' = Waiting
  BY DEF Waiting
<1>2. \A c \in Callers : ~Answers(c)
  BY DEF Answers
<1>3. ForgetInv'
  BY <1>1, <1>2 DEF CallerInv, ForgetInv, OneWaits, AllKnown, Waiting, queue
<1>4. /\ act'.req \in Callers => act'.req = act.req /\ pc' = "do" /\ act'.op \notin StateOps
      /\ act'.op \notin WaitOps
  <2>1. CASE act' = Nop
    BY <2>1, OwnActions DEF Nop, Action, WaitOps
  <2>2. CASE act' = [act EXCEPT !.op = "HANDLE_ERROR", !.arg = ""] /\ pc' = pc
    <3>1. act'.req = act.req /\ act'.op = "HANDLE_ERROR"
      BY <2>2 DEF ActionObject
    <3> QED
      BY <2>2, <3>1 DEF StateOps, WaitOps
  <2> QED
    BY <2>1, <2>2
<1>5. AnswerInv => AnswerInv'
  BY <1>1, <1>4 DEF AnswerInv, QueueInv, HandInv, SemInv, queue
<1> QED
  BY <1>3, <1>4, <1>5 DEF CallerInv, CountInv, WaitInv, queue

\* An action that talks to the chip, done or failed, leaves the requests as they are.
LEMMA PerformStep ==
  ASSUME IInv, CallerInv,
         \/ ActionInit \/ ActionClose \/ ActionWake \/ ActionSleep
         \/ ActionSendMngFrame \/ ActionSendData \/ ActionReceiveData
         \/ ActionFails \/ InitFails \/ CloseFails \/ WakeFails
         \/ SendMngFrameFails \/ SendDataFails
  PROVE  CallerInv'
<1>1. act \in ActionObject
  BY DEF IInv, TypeOK, TaskTypeOK
<1>2. CASE \/ ActionInit \/ ActionClose \/ ActionWake \/ ActionSleep
           \/ ActionSendMngFrame \/ ActionSendData \/ ActionReceiveData
  <2>1. /\ UNCHANGED <<queue, req, sem>> /\ pc = "do"
        /\ act.op \notin {"HANDLE_COMPLETE", "HANDLE_ERROR"}
        /\ act' = Nop /\ pc' = "sched"
    BY <1>2 DEF ActionInit, ActionClose, ActionWake, ActionSleep, ActionSendMngFrame,
                ActionSendData, ActionReceiveData, Doing, Succeeded, Done, reqVars, queue
  <2> QED
    BY <1>1, <2>1, ExecutedStep
<1>3. CASE \/ ActionFails \/ InitFails \/ CloseFails \/ WakeFails
           \/ SendMngFrameFails \/ SendDataFails
  <2>1. /\ UNCHANGED <<queue, req, sem>> /\ pc = "do"
        /\ act.op \notin {"HANDLE_COMPLETE", "HANDLE_ERROR"}
        /\ act' = [act EXCEPT !.op = "HANDLE_ERROR", !.arg = ""] /\ pc' = pc
    BY <1>3 DEF ActionFails, InitFails, CloseFails, WakeFails, SendMngFrameFails,
                SendDataFails, Doing, Failed, reqVars, queue
  <2> QED
    BY <1>1, <2>1, ExecutedStep
<1> QED
  BY <1>2, <1>3

\* The two actions that run inside the scheduler: the queue is empty afterwards,
\* whatever it held, and an answer is in hand that releases whoever waits.
LEMMA AnswerNowStep ==
  ASSUME IInv, CallerInv, WaitConnect \/ CancelWaitConnect
  PROVE  CallerInv'
<1>1. /\ pc = "do" /\ act.op \in {"WAIT_CONNECT", "CANCEL_WAIT_CONNECT"}
      /\ \E s : AnswerNow(act.req, s)
  BY DEF WaitConnect, CancelWaitConnect, Doing
<1>2. req \in [Callers -> RequestObject] /\ ctrlQ \in Callers \cup {NoReq} /\ NoReq \notin Callers
  BY OwnActions DEF IInv, TypeOK, ReqTypeOK
<1>3. /\ act'.req = act.req /\ act'.op = "HANDLE_COMPLETE" /\ act'.arg = "COMP_NULL"
      /\ ctrlQ' = NoReq /\ act.req \in Callers
      /\ UNCHANGED <<pc, sem>>
      /\ \A c \in Callers : req'[c].caller = req[c].caller /\ req'[c].state = req[c].state
  BY <1>1, <1>2 DEF AnswerNow, RemoveRequest, Complete, Action, RequestObject, CallerInv, WaitInv,
     WaitOps
<1>4. Waiting' = Waiting
  BY <1>3 DEF Waiting
<1>5. \A c \in Callers : ~Answers(c)
  BY <1>1 DEF Answers
<1>6. ForgetInv'
  BY <1>3, <1>4, <1>5 DEF CallerInv, ForgetInv, OneWaits, AllKnown, Answers, Waiting
<1>7. ASSUME AnswerInv
      PROVE  AnswerInv'
  <2>1. act.req \in Callers /\ ctrlQ \in Callers => ctrlQ = act.req
    BY <1>7 DEF AnswerInv, QueueInv, HandInv, CallerInv, ForgetInv, OneWaits
  <2>2. QueueInv' /\ SemInv'
    BY <1>2, <1>3, <1>4, <1>7 DEF AnswerInv, QueueInv, SemInv
  <2>3. HandInv'
    BY <1>2, <1>3, <1>4, <1>7, <2>1 DEF AnswerInv, HandInv
  <2> QED
    BY <2>2, <2>3 DEF AnswerInv
<1> QED
  BY <1>3, <1>6, <1>7 DEF CallerInv, CountInv, WaitInv

\* An action that answers its request is over: the semaphore is up, for the one
\* who waits.
LEMMA FinishStep ==
  ASSUME IInv, CallerInv, UNCHANGED <<queue, req>>,
         act.op \in StateOps \/ pc = "reset",
         sem' = (IF act.req \in Callers THEN sem + 1 ELSE sem), Done
  PROVE  CallerInv'
<1>1. /\ act' = Nop /\ pc' = "sched" /\ act'.req \notin Callers /\ UNCHANGED queue
      /\ act'.op \notin WaitOps
  BY OwnActions DEF Done, Nop, Action, WaitOps
<1>2. Waiting' = Waiting /\ sem \in Nat /\ Waiting \subseteq Callers
  BY DEF Waiting, IInv, TypeOK, ReqTypeOK
<1>3. ForgetInv'
  <2>1. \A c \in Waiting : ctrlQ' = c \/ sem' > 0
    BY <1>1, <1>2 DEF CallerInv, ForgetInv, AllKnown, Answers, queue
  <2> QED
    BY <1>2, <2>1 DEF CallerInv, ForgetInv, OneWaits, AllKnown
<1>4. ASSUME AnswerInv
      PROVE  AnswerInv'
  <2>1. ctrlQ \in Callers => act.req \notin Callers
    BY <1>4, OwnActions DEF AnswerInv, HandInv
  <2>2. QueueInv' /\ HandInv'
    BY <1>1, <1>2, <1>4, <2>1 DEF AnswerInv, QueueInv, HandInv, queue
  <2>3. SemInv'
    BY <1>2, <1>4 DEF AnswerInv, HandInv, SemInv
  <2> QED
    BY <2>2, <2>3 DEF AnswerInv
<1> QED
  BY <1>1, <1>3, <1>4 DEF CallerInv, CountInv, WaitInv, queue

\* Handling a completion that moves no link state answers the request it carries.
LEMMA FinishedAnswers ==
  ASSUME IInv, CallerInv, HandleFinished
  PROVE  CallerInv'
<1>1. act.op \in StateOps /\ Finish /\ UNCHANGED <<queue, req>>
  BY DEF HandleFinished, Doing, StateOps
<1> QED
  BY <1>1, FinishStep DEF Finish

\* A change of state carries the answer on, and so does one that fails.
LEMMA StateChangeAnswers ==
  ASSUME IInv, CallerInv, HandleStateChange
  PROVE  CallerInv'
<1>1. /\ act.op \in StateOps /\ act.arg # "COMP_NULL" /\ pc = "do"
      /\ UNCHANGED <<queue, req>> /\ act \in ActionObject
  BY DEF HandleStateChange, Doing, Finished, IInv, TypeOK, TaskTypeOK
<1>2. CASE Finish
  BY <1>1, <1>2, FinishStep DEF Finish
<1>3. CASE pc' = "commit" /\ UNCHANGED <<act, sem>>
  BY <1>1, <1>3 DEF CallerInv, ForgetInv, CountInv, WaitInv, AnswerInv, OneWaits, AllKnown,
     QueueInv, HandInv, SemInv, Answers, Waiting, queue
<1>4. CASE Failed /\ UNCHANGED sem
  <2>1. act' = [act EXCEPT !.op = "HANDLE_ERROR", !.arg = ""] /\ pc' = pc
    BY <1>4 DEF Failed
  <2>2. act'.op = "HANDLE_ERROR" /\ act'.req = act.req
    BY <1>1, <2>1 DEF ActionObject
  <2>3. Waiting' = Waiting
    BY <1>1 DEF Waiting
  <2>4. ForgetInv'
    BY <1>1, <1>4, <2>2, <2>3 DEF CallerInv, ForgetInv, OneWaits, AllKnown, Answers, Waiting, queue
  <2>5. AnswerInv => AnswerInv'
    BY <1>1, <1>4, <2>1, <2>2, <2>3 DEF AnswerInv, QueueInv, HandInv, SemInv, StateOps, queue
  <2>6. CountInv' /\ WaitInv'
    BY <1>1, <2>2 DEF CallerInv, CountInv, WaitInv, WaitOps, queue
  <2> QED
    BY <2>4, <2>5, <2>6 DEF CallerInv
<1> QED
  BY <1>2, <1>3, <1>4 DEF HandleStateChange

\* Committing a state answers the request or carries it on to the reset.
LEMMA CommitAnswers ==
  ASSUME IInv, CallerInv, CommitState
  PROVE  CallerInv'
<1>1. act.op \in StateOps /\ pc = "commit" /\ UNCHANGED <<queue, req>>
  BY DEF CommitState, IInv, TaskInv
<1>2. CASE Finish
  BY <1>1, <1>2, FinishStep DEF Finish
<1>3. CASE pc' = "reset" /\ UNCHANGED <<act, sem>>
  BY <1>1, <1>3 DEF CallerInv, ForgetInv, CountInv, WaitInv, AnswerInv, OneWaits, AllKnown,
     QueueInv, HandInv, SemInv, Answers, Waiting, queue
<1> QED
  BY <1>2, <1>3 DEF CommitState

\* The reset of a link answers the action's own request and a queued one that waits
\* for the link.
LEMMA ResetAnswers ==
  ASSUME IInv, CallerInv, ResetClosed \/ ResetReleased
  PROVE  CallerInv'
<1> DEFINE dropped == /\ ctrlQ # NoReq
                      /\ req[ctrlQ].type \in {"RELEASE_REQ", "ACCEPT_REQ", "ACCEPT_RES"}
<1>1. CASE ResetClosed
  <2>1. Finish /\ pc = "reset" /\ UNCHANGED <<queue, req>>
    BY <1>1 DEF ResetClosed
  <2> QED
    BY <2>1, FinishStep DEF Finish
<1>2. CASE ResetReleased /\ ~dropped
  <2>1. /\ pc = "reset" /\ UNCHANGED <<queue, req>> /\ Done
        /\ sem' = sem + (IF act.req \in Callers THEN 1 ELSE 0) + 0
    BY <1>2 DEF ResetReleased
  <2>2. sem \in Nat
    BY DEF IInv, TypeOK, ReqTypeOK
  <2>3. sem' = IF act.req \in Callers THEN sem + 1 ELSE sem
    BY <2>1, <2>2
  <2> QED
    BY <2>1, <2>3, FinishStep
<1>3. CASE ResetReleased /\ dropped
  <2>1. /\ ctrlQ \in Callers /\ sem \in Nat /\ req \in [Callers -> RequestObject]
        /\ NoReq \notin Callers
    BY <1>3, OwnActions DEF IInv, TypeOK, ReqTypeOK
  <2>2. /\ pc = "reset" /\ ctrlQ' = NoReq /\ Done
        /\ req' = [req EXCEPT ![ctrlQ].status = "INVSTAT"]
        /\ sem' = sem + (IF act.req \in Callers THEN 1 ELSE 0) + 1
    BY <1>3 DEF ResetReleased, RemoveRequest
  <2>3. Waiting' = Waiting
    BY <2>1, <2>2 DEF Waiting, RequestObject
  <2>4. sem' > 0
    BY <2>1, <2>2
  <2>5. ForgetInv'
    BY <2>3, <2>4 DEF CallerInv, ForgetInv, OneWaits, AllKnown
  <2>6. ASSUME AnswerInv
        PROVE  AnswerInv'
    <3>1. act.req \notin Callers /\ ctrlQ \in Waiting /\ sem = 0
      BY <2>1, <2>2, <2>6 DEF AnswerInv, HandInv, QueueInv
    <3>2. act'.req \notin Callers
      BY <2>2, OwnActions DEF Done, Nop, Action
    <3> QED
      BY <2>1, <2>2, <2>3, <3>1, <3>2 DEF AnswerInv, HandInv, QueueInv, SemInv
  <2>7. CountInv' /\ WaitInv'
    BY <2>2 DEF CountInv, WaitInv, WaitOps, Done, Nop, Action
  <2> QED
    BY <2>5, <2>6, <2>7 DEF CallerInv
<1> QED
  BY <1>1, <1>2, <1>3

\* The purge after an error answers the queued request, and the action's own one if
\* that had left the queue.
LEMMA ErrorAnswers ==
  ASSUME IInv, CallerInv, HandleError
  PROVE  CallerInv'
<1> DEFINE own  == IF act.req \in Callers
                   THEN IF req[act.req].state = "COMPLETED" THEN {act.req} ELSE {}
                   ELSE {}
           head == IF ctrlQ = NoReq THEN {} ELSE {ctrlQ}
<1>1. /\ req \in [Callers -> RequestObject] /\ ctrlQ \in Callers \cup {NoReq} /\ sem \in Nat
      /\ NoReq \notin Callers
  BY OwnActions DEF IInv, TypeOK, ReqTypeOK
<1>2. /\ act.op = "HANDLE_ERROR" /\ act' = Nop /\ ctrlQ' = NoReq
      /\ sem' = sem + (IF own = {} THEN 0 ELSE 1) + (IF head = {} THEN 0 ELSE 1)
      /\ req' = [c \in Callers |-> IF c \in own \cup head
                                  THEN [req[c] EXCEPT !.status = "ERROR"] ELSE req[c]]
  BY DEF HandleError, Doing, Succeeded, Done
<1>3. \A c \in Callers : req'[c].caller = req[c].caller
  BY <1>1, <1>2 DEF RequestObject
<1>4. Waiting' = Waiting /\ Waiting \subseteq Callers
  BY <1>3 DEF Waiting
<1>5. ForgetInv'
  <2>1. ASSUME NEW c \in Waiting
        PROVE  sem' > 0
    <3>1. CASE ctrlQ = c \/ sem > 0
      BY <1>1, <1>2, <1>4, <3>1
    <3>2. CASE Answers(c)
      <4>1. own # {}
        BY <1>2, <1>4, <3>2 DEF Answers
      <4> QED
        BY <1>1, <1>2, <4>1
    <3> QED
      BY <3>1, <3>2 DEF CallerInv, ForgetInv, AllKnown
  <2> QED
    BY <1>4, <2>1 DEF CallerInv, ForgetInv, OneWaits, AllKnown
<1>6. ASSUME AnswerInv
      PROVE  AnswerInv'
  <2>1. own = {} \/ head = {}
    <3> SUFFICES ASSUME own # {}, head # {}
                 PROVE  FALSE
      OBVIOUS
    <3>1. act.req \in Waiting /\ ctrlQ \in Waiting
      BY <1>1, <1>6 DEF AnswerInv, HandInv, QueueInv
    <3>2. act.req = ctrlQ
      BY <3>1 DEF CallerInv, ForgetInv, OneWaits
    <3> QED
      BY <1>1, <1>6, <3>2 DEF AnswerInv, QueueInv
  <2>2. (own # {} \/ head # {}) => Waiting # {} /\ sem = 0
    BY <1>1, <1>6 DEF AnswerInv, HandInv, QueueInv
  <2> HIDE DEF own, head
  <2>3. SemInv'
    BY <1>1, <1>2, <1>4, <1>6, <2>1, <2>2 DEF AnswerInv, SemInv
  <2>4. QueueInv' /\ HandInv'
    BY <1>1, <1>2, OwnActions DEF QueueInv, HandInv, Nop, Action
  <2> QED
    BY <2>3, <2>4 DEF AnswerInv
<1>7. CountInv' /\ WaitInv'
  BY <1>2 DEF CountInv, WaitInv, WaitOps, Nop, Action
<1> QED
  BY <1>5, <1>6, <1>7 DEF CallerInv

\* No caller waits at the start.
LEMMA CallerInit == Init => CallerInv
<1> SUFFICES ASSUME Init
             PROVE  CallerInv
  OBVIOUS
<1>1. /\ Waiting = {} /\ ctrlQ \notin Callers /\ act.req \notin Callers /\ sem = 0
  BY OwnActions DEF Init, Waiting, Nop, Action
<1>2. CountInv /\ WaitInv
  BY DEF Init, CountInv, WaitInv, WaitOps, Nop, Action
<1> QED
  BY <1>1, <1>2 DEF CallerInv, ForgetInv, OneWaits, AllKnown, AnswerInv, QueueInv, HandInv, SemInv

\* Every step keeps CallerInv.
LEMMA CallerNext ==
  ASSUME IInv, CallerInv, [Next]_vars
  PROVE  CallerInv'
<1>1. CASE \E c \in Callers : Caller(c)
  BY <1>1, CallersStep
<1>2. CASE DataCaller \/ Chip \/ Interrupt \/ UNCHANGED vars
  <2>1. UNCHANGED <<queue, req, sem, pc, act>>
    BY <1>2 DEF DataCaller, CheckSend, AddSend, CheckReceive, AddReceive, Chip, FrameSent, DataAcked, PhyDone,
       Interrupt, IrqAddEvent, IrqMask, vars, reqVars, queue, taskVars
  <2> QED
    BY <2>1, OthersStep
<1>3. CASE Schedule
  BY <1>3, ScheduleStep
<1>4. CASE Execute
  BY <1>4, PerformStep, AnswerNowStep, FinishedAnswers, StateChangeAnswers, CommitAnswers,
     ResetAnswers, ErrorAnswers DEF Execute
<1> QED
  BY <1>1, <1>2, <1>3, <1>4 DEF Next, Task

\* The invariant of the requests holds of every behaviour of the core.
THEOREM RequestsFollowed == Spec => []CallerInv
<1>1. IInv /\ CallerInv /\ [Next]_vars => CallerInv'
  BY CallerNext
<1> QED
  BY <1>1, CallerInit, Inductive, PTL DEF Spec

\* A caller that is blocked in CNL_request is in the queue, or its semaphore is up, or
\* the action in hand will put it up: no purge, reset, expiry or failing operation
\* loses it, nor a request removed a second time (cnl_sm.c, cnl_if.c, cnl_util.c).
THEOREM NobodyForgotten == Spec => []NoCallerForgotten
<1>1. CallerInv => NoCallerForgotten
  BY DEF CallerInv, ForgetInv, AllKnown, NoCallerForgotten
<1> QED
  BY <1>1, RequestsFollowed, PTL

\* Without the command alarm a request is answered once (CNL_releaseRequestBlocking).
THEOREM AnswersOnce ==
  ASSUME MaxTimeout = 0
  PROVE  Spec => []AnsweredOnce
<1>1. IInv /\ CallerInv => AnsweredOnce
  <2> SUFFICES ASSUME IInv, CallerInv
               PROVE  AnsweredOnce
    OBVIOUS
  <2>1. sem \in Nat /\ sem <= 1 /\ (sem > 0 => Waiting # {})
    BY DEF IInv, TypeOK, ReqTypeOK, CallerInv, AnswerInv, SemInv
  <2>2. CASE Waiting = {}
    BY <2>1, <2>2, FS_EmptySet DEF AnsweredOnce
  <2>3. CASE Waiting # {}
    <3>1. PICK c \in Waiting : Waiting = {c}
      BY <2>3 DEF CallerInv, ForgetInv, OneWaits
    <3> QED
      BY <2>1, <3>1, FS_Singleton DEF AnsweredOnce
  <2> QED
    BY <2>2, <2>3
<1> QED
  BY <1>1, Inductive, RequestsFollowed, PTL

\* Without it neither the queue nor the task refers to a request whose caller has
\* returned (the request is on the caller's stack, CNL_request).
THEOREM NothingLeftBehind ==
  ASSUME MaxTimeout = 0
  PROVE  Spec => []NoUseAfterReturn
<1>1. CallerInv => NoUseAfterReturn
  BY DEF CallerInv, AnswerInv, QueueInv, HandInv, NoUseAfterReturn
<1> QED
  BY <1>1, RequestsFollowed, PTL

(****************************************************************************)
(* The task sleeps only when there is nothing to do.                        *)
(*                                                                          *)
(* The scheduler looks at INIT and CLOSE requests first and at the others   *)
(* last, and gives up its lock in between.  What comes to be done meanwhile *)
(* signals the device, which the task finds when it has gone to sleep; and  *)
(* what the scheduler passed over without a signal is still no reason to    *)
(* act when it reaches the requests.                                        *)
(****************************************************************************)
\* INIT and CLOSE requests were passed over because nothing can be done about them.
PassedOver ==
  ~signaled /\ ctrlQ \in Waiting =>
    /\ ~Queued({"INIT_REQ"})
    /\ Queued({"CLOSE_REQ"}) => main # "CLOSE" /\ pwr \in Transitional

IdleInv ==
  /\ pc \in {"event", "read", "request"} => PassedOver
  /\ SleepsOnlyWhenDone

\* What the queued request would become depends on it, the state and the data to send.
LEMMA SameRequest ==
  ASSUME UNCHANGED <<main, sub, pwr, flags, queue>>,
         NoTxRequest' = NoTxRequest, req'[ctrlQ].type = req[ctrlQ].type
  PROVE  \A same : CtrlRequest(ctrlQ, same)' = CtrlRequest(ctrlQ, same)
<1>1. \A a : AwakeFirst(a)' = AwakeFirst(a)
  BY DEF AwakeFirst, queue
<1>2. WakeLink' = WakeLink
  BY <1>1 DEF WakeLink
<1>3. /\ ConnectReq(ctrlQ)' = ConnectReq(ctrlQ) /\ WconnectReq(ctrlQ)' = WconnectReq(ctrlQ)
      /\ AcceptReq(ctrlQ)' = AcceptReq(ctrlQ) /\ AcceptRes(ctrlQ)' = AcceptRes(ctrlQ)
  BY DEF ConnectReq, WconnectReq, AcceptReq, AcceptRes, AwakeFirst, queue
<1>4. ReleaseReq(ctrlQ)' = ReleaseReq(ctrlQ)
  BY <1>2 DEF ReleaseReq, AwakeFirst, queue
<1>5. \A same : PowersaveReq(ctrlQ, same)' = PowersaveReq(ctrlQ, same)
  BY DEF PowersaveReq, queue
<1> QED
  BY <1>3, <1>4, <1>5 DEF CtrlRequest, queue

\* A step that changes nothing the scheduler looks at, and queues nothing, leaves
\* nothing to do if there was nothing.
LEMMA SameWork ==
  ASSUME IdleInv, UNCHANGED <<main, sub, pwr, proc, flags, ev, pc, signaled>>,
         /\ data'.txNew = data.txNew /\ data'.txRun = data.txRun /\ data'.rx = data.rx,
         ctrlQ' \in Waiting' => /\ queue' = queue /\ ctrlQ \in Waiting
                                /\ req'[ctrlQ].type = req[ctrlQ].type
                                /\ req'[ctrlQ].state = req[ctrlQ].state
  PROVE  IdleInv'
<1>1. \A a : AwakeFirst(a)' = AwakeFirst(a)
  BY DEF AwakeFirst
<1>2. NoTxRequest' = NoTxRequest
  BY DEF NoTxRequest
<1>3. /\ RxRequest' = RxRequest /\ TxRequest' = TxRequest /\ SleepReady' = SleepReady
  BY <1>2 DEF RxRequest, RxWanted, TxRequest, TxWanted, WakeLink, SleepReady, AwakeFirst
<1>4. ASSUME ctrlQ' \in Waiting'
      PROVE  /\ \A T : Queued(T)' = Queued(T)
             /\ CtrlOutcomes' = CtrlOutcomes
  <2>1. \A T : Queued(T)' = Queued(T)
    BY <1>4 DEF Queued, queue
  <2>2. \A same : CtrlRequest(ctrlQ, same)' = CtrlRequest(ctrlQ, same)
    BY <1>2, <1>4, SameRequest
  <2>3. CtrlOutcomes' = CtrlOutcomes
    BY <1>4, <2>2 DEF CtrlOutcomes, queue
  <2> QED
    BY <2>1, <2>3
<1>5. (pc \in {"event", "read", "request"} => PassedOver)'
  BY <1>4 DEF IdleInv, PassedOver
<1>6. SleepsOnlyWhenDone'
  BY <1>3, <1>4 DEF IdleInv, SleepsOnlyWhenDone, NothingToDo
<1> QED
  BY <1>5, <1>6 DEF IdleInv

\* If a request can be left alone, it is so with whatever parameters it has.
LEMMA AllOrNone ==
  ASSUME NEW o \in CtrlOutcomes, o.act = Nop
  PROVE  \A p \in CtrlOutcomes : p.act = Nop
<1>1. CASE \/ proc # "NOP" \/ ctrlQ = NoReq \/ req[ctrlQ].state = "PROCESSING"
  BY <1>1 DEF CtrlOutcomes, Perform
<1>2. CASE ~(\/ proc # "NOP" \/ ctrlQ = NoReq \/ req[ctrlQ].state = "PROCESSING")
  <2>1. CtrlOutcomes = {CtrlRequest(ctrlQ, same) : same \in BOOLEAN}
    BY <1>2 DEF CtrlOutcomes
  <2>2. PICK same \in BOOLEAN : o = CtrlRequest(ctrlQ, same)
    BY <2>1
  <2>3. CASE req[ctrlQ].type = "POWERSAVE_REQ"
    <3>1. /\ Send("C_SLEEP", ctrlQ) # Nop /\ Complete(ctrlQ) # Nop
      BY DEF Send, Complete, Nop, Action
    <3>2. PowersaveReq(ctrlQ, same).act # Nop
      BY <3>1 DEF PowersaveReq, Perform, Answer
    <3> QED
      BY <2>2, <2>3, <3>2 DEF CtrlRequest
  <2>4. CASE req[ctrlQ].type # "POWERSAVE_REQ"
    <3>1. \A s : CtrlRequest(ctrlQ, s) = CtrlRequest(ctrlQ, same)
      BY <2>4 DEF CtrlRequest
    <3> QED
      BY <2>1, <2>2, <3>1
  <2> QED
    BY <2>3, <2>4
<1> QED
  BY <1>1, <1>2

\* A signalled device is found.
LEMMA SignaledIsFound ==
  ASSUME signaled' = TRUE
  PROVE  IdleInv'
BY DEF IdleInv, PassedOver, SleepsOnlyWhenDone

\* Callers and senders signal the device when they queue a request.
LEMMA CallersSignal ==
  ASSUME IInv, IdleInv, (\E c \in Callers : Caller(c)) \/ DataCaller
  PROVE  IdleInv'
<1>1. /\ req \in [Callers -> RequestObject] /\ NoReq \notin Callers /\ data \in DataCounters
  BY OwnActions DEF IInv, TypeOK, ReqTypeOK, DataTypeOK
<1>2. CASE \E c \in Callers : AddRequest(c)
  <2>1. PICK c \in Callers : AddRequest(c)
    BY <1>2
  <2>2. CASE ctrlCnt < 1
    BY <2>1, <2>2, SignaledIsFound DEF AddRequest
  <2>3. CASE ~(ctrlCnt < 1)
    <3>1. Waiting' = {}
      BY <1>1, <2>1, <2>3 DEF AddRequest, MutexFree, Waiting, RequestObject
    <3>2. UNCHANGED <<main, sub, pwr, proc, flags, ev, pc, signaled, data>>
      BY <2>1, <2>3 DEF AddRequest, devVars, taskVars
    <3> QED
      BY <3>1, <3>2, SameWork
  <2> QED
    BY <2>2, <2>3
<1>3. ASSUME NEW c \in Callers, \/ \E t \in ReqTypes : CheckRequest(c, t)
                                \/ Return(c) \/ CmdTimeout(c)
      PROVE  IdleInv'
  <2>1. UNCHANGED <<main, sub, pwr, proc, flags, ev, pc, signaled, data>>
    BY <1>3 DEF CheckRequest, Return, CmdTimeout, devVars, taskVars, evVars
  <2>2. CASE CmdTimeout(c)
    <3>1. ctrlQ' \notin Waiting'
      BY <1>1, <2>2 DEF CmdTimeout, RemoveRequest, Waiting
    <3> QED
      BY <2>1, <3>1, SameWork
  <2>3. CASE Return(c) \/ \E t \in ReqTypes : CheckRequest(c, t)
    <3>1. /\ UNCHANGED queue
          /\ req'[c].caller # "waiting"
          /\ \A d \in Callers : d # c => req'[d] = req[d]
      BY <1>1, <2>3 DEF Return, CheckRequest, RequestObject
    <3>2. ctrlQ' \in Waiting' => ctrlQ \in Callers \ {c} /\ ctrlQ \in Waiting
      BY <3>1 DEF Waiting, queue
    <3> QED
      BY <2>1, <3>1, <3>2, SameWork
  <2> QED
    BY <1>3, <2>2, <2>3
<1>4. CASE CheckSend
  <2>1. UNCHANGED <<main, sub, pwr, proc, flags, ev, pc, signaled, queue, req>>
    BY <1>4 DEF CheckSend, devVars, taskVars, evVars, reqVars, queue
  <2>2. data'.txNew = data.txNew /\ data'.txRun = data.txRun /\ data'.rx = data.rx
    <3>1. data' = [data EXCEPT !.checked = TRUE]
      BY <1>4 DEF CheckSend
    <3> QED
      BY <1>1, <3>1, Zenon DEF DataCounters
  <2>3. Waiting' = Waiting
    BY <2>1 DEF Waiting
  <2> QED
    BY <2>1, <2>2, <2>3, SameWork DEF queue
<1>5. CASE CheckReceive
  <2>1. UNCHANGED <<main, sub, pwr, proc, flags, ev, pc, signaled, queue, req>>
    BY <1>5 DEF CheckReceive, devVars, taskVars, evVars, reqVars, queue
  <2>2. data'.txNew = data.txNew /\ data'.txRun = data.txRun /\ data'.rx = data.rx
    <3>1. data' = [data EXCEPT !.rxChecked = TRUE]
      BY <1>5 DEF CheckReceive
    <3> QED
      BY <1>1, <3>1, Zenon DEF DataCounters
  <2>3. Waiting' = Waiting
    BY <2>1 DEF Waiting
  <2> QED
    BY <2>1, <2>2, <2>3, SameWork DEF queue
<1>6. CASE AddSend \/ AddReceive
  BY <1>6, SignaledIsFound DEF AddSend, AddReceive
<1> QED
  BY <1>2, <1>3, <1>4, <1>5, <1>6 DEF Caller, DataCaller

\* The chip does not, and the interrupt handler does when it adds an event.
LEMMA EventsSignal ==
  ASSUME IdleInv, Chip \/ Interrupt \/ UNCHANGED vars
  PROVE  IdleInv'
<1>1. CASE IrqAddEvent
  BY <1>1, SignaledIsFound DEF IrqAddEvent
<1>2. CASE Chip \/ (\E A : IrqMask(A)) \/ UNCHANGED vars
  <2>1. UNCHANGED <<main, sub, pwr, proc, flags, ev, pc, signaled, data, queue, req>>
    BY <1>2 DEF Chip, FrameSent, DataAcked, PhyDone, IrqMask, vars, devVars, taskVars, evVars,
       reqVars, queue
  <2>2. Waiting' = Waiting
    BY <2>1 DEF Waiting
  <2> QED
    BY <2>1, <2>2, SameWork DEF queue
<1> QED
  BY <1>1, <1>2 DEF Interrupt

\* While it looks for an action the task leaves the queue alone; what it passed over
\* first stays so, and it goes to sleep only when it found nothing at last.
LEMMA ScheduleFindsNothing ==
  ASSUME IInv, IdleInv, Schedule
  PROVE  IdleInv'
<1>1. CASE TaskWait
  BY <1>1 DEF TaskWait, IdleInv, SleepsOnlyWhenDone
<1>2. CASE CheckInitClose
  <2>1. UNCHANGED <<main, pwr, signaled>>
    BY <1>2 DEF CheckInitClose, devVars, evVars
  <2>2. CASE pc' = "do"
    BY <2>2 DEF IdleInv, SleepsOnlyWhenDone
  <2>3. CASE pc' # "do"
    <3>1. /\ ~Queued({"INIT_REQ"})
          /\ Queued({"CLOSE_REQ"}) => main # "CLOSE" /\ pwr \in Transitional
          /\ pc' = "event" /\ UNCHANGED <<queue, req>>
      BY <1>2, <2>3 DEF CheckInitClose, Take
    <3>2. Queued({"INIT_REQ"})' = Queued({"INIT_REQ"})
          /\ Queued({"CLOSE_REQ"})' = Queued({"CLOSE_REQ"})
      BY <3>1 DEF Queued, queue
    <3> QED
      BY <2>1, <3>1, <3>2 DEF IdleInv, PassedOver, SleepsOnlyWhenDone
  <2> QED
    BY <2>2, <2>3
<1>3. CASE CheckEvent \/ ReadMngBody
  <2>1. UNCHANGED <<main, pwr, signaled>> /\ pc \in {"event", "read"}
    BY <1>3 DEF CheckEvent, ReadMngBody
  <2>2. pc' \in {"request", "read", "do"}
    <3>1. ASSUME NEW E, NEW F, NoAction(E, F) \/ \E f \in Frames : RecvdMngFrame(f, E, F)
          PROVE  pc' \in {"request", "read", "do"}
      BY <3>1 DEF NoAction, RecvdMngFrame, Settle, Handle, Take
    <3>2. ASSUME NEW a, NEW s, NEW E, NEW F, Handle(a, s, E, F)
          PROVE  pc' \in {"request", "read", "do"}
      BY <3>2 DEF Handle, Take
    <3>3. ASSUME NEW e, CompRequest(e)
          PROVE  pc' \in {"request", "read", "do"}
      BY <3>1, <3>2, <3>3 DEF CompRequest, ProbeCompleted
    <3>4. ASSUME NEW t, Timeout(t)
          PROVE  pc' \in {"request", "read", "do"}
      BY <3>1, <3>2, <3>4 DEF Timeout
    <3>5. ASSUME WakeRequired
          PROVE  pc' \in {"request", "read", "do"}
      BY <3>1, <3>2, <3>5 DEF WakeRequired
    <3>6. CASE CheckEvent
      BY <3>1, <3>2, <3>3, <3>4, <3>5, <3>6 DEF CheckEvent
    <3>7. CASE ReadMngBody
      BY <3>1, <3>2, <3>7 DEF ReadMngBody
    <3> QED
      BY <1>3, <3>6, <3>7
  <2>3. CASE pc' = "do"
    BY <2>3 DEF IdleInv, SleepsOnlyWhenDone
  <2>4. CASE pc' # "do"
    <3>1. UNCHANGED <<queue, req>>
      BY <1>3, <2>4, EventHands, ReadHands DEF Handed
    <3>2. Waiting' = Waiting /\ Queued({"INIT_REQ"})' = Queued({"INIT_REQ"})
          /\ Queued({"CLOSE_REQ"})' = Queued({"CLOSE_REQ"})
      BY <3>1 DEF Waiting, Queued, queue
    <3>3. PassedOver'
      BY <2>1, <3>1, <3>2 DEF IdleInv, PassedOver, queue
    <3> QED
      BY <2>2, <2>4, <3>3 DEF IdleInv, SleepsOnlyWhenDone
  <2> QED
    BY <2>3, <2>4
<1>4. CASE CheckRequests
  <2>1. pc' \in {"do", "sched", "wait"} /\ pc = "request"
    BY <1>4 DEF CheckRequests, Take
  <2>2. CASE pc' # "wait"
    BY <2>1, <2>2 DEF IdleInv, SleepsOnlyWhenDone
  <2>3. CASE pc' = "wait"
    <3>0. PICK o \in CtrlOutcomes :
            LET a == FirstOf(o.act, FirstOf(RxRequest, FirstOf(TxRequest, SleepReady)))
            IN \/ Take(a, o.status)
               \/ Take(Err, "NONE")
               \/ /\ a = Nop
                  /\ pc' = IF ev = {} THEN "wait" ELSE "sched"
                  /\ UNCHANGED <<queue, req, data, en, bounds>>
      BY <1>4, Zenon DEF CheckRequests
    <3>1. /\ FirstOf(o.act, FirstOf(RxRequest, FirstOf(TxRequest, SleepReady))) = Nop
          /\ ev = {} /\ UNCHANGED <<queue, req, data>>
      <4> DEFINE a == FirstOf(o.act, FirstOf(RxRequest, FirstOf(TxRequest, SleepReady)))
      <4>1. ~Take(a, o.status) /\ ~Take(Err, "NONE")
        BY <2>3 DEF Take
      <4>2. /\ a = Nop /\ UNCHANGED <<queue, req, data>>
            /\ pc' = IF ev = {} THEN "wait" ELSE "sched"
        BY <3>0, <4>1
      <4>3. ev = {}
        <5> HIDE DEF a
        <5> QED
          BY <2>3, <4>2
      <4> QED
        BY <4>2, <4>3, Zenon
    <3>2. UNCHANGED <<main, sub, pwr, proc, flags, ev, signaled>>
      BY <1>4 DEF CheckRequests, devVars, evVars
    <3>3. o.act = Nop /\ RxRequest = Nop /\ TxRequest = Nop /\ SleepReady = Nop
      BY <3>1 DEF FirstOf
    <3>4. \A p \in CtrlOutcomes : p.act = Nop
      BY <3>3, AllOrNone
    <3>5. PassedOver
      BY <2>1 DEF IdleInv
    <3>6. ~signaled => NothingToDo
      BY <3>1, <3>3, <3>4, <3>5 DEF NothingToDo, PassedOver
    <3>7. ~signaled => NothingToDo'
      <4>0. /\ main' = main /\ sub' = sub /\ pwr' = pwr /\ proc' = proc
            /\ flags' = flags /\ data' = data
        BY <3>1, <3>2, Zenon
      <4>1. /\ RxRequest' = RxRequest /\ TxRequest' = TxRequest /\ SleepReady' = SleepReady
        BY <4>0 DEF RxRequest, RxWanted, TxRequest, TxWanted, WakeLink, SleepReady, AwakeFirst,
           NoTxRequest
      <4>2. NoTxRequest' = NoTxRequest /\ Waiting' = Waiting /\ \A T : Queued(T)' = Queued(T)
        BY <3>1 DEF NoTxRequest, Waiting, Queued, queue
      <4>3. \A same : CtrlRequest(ctrlQ, same)' = CtrlRequest(ctrlQ, same)
        BY <3>1, <3>2, <4>2, SameRequest
      <4>4. CtrlOutcomes' = CtrlOutcomes
        BY <3>1, <3>2, <4>3 DEF CtrlOutcomes, queue
      <4> QED
        BY <3>1, <3>2, <3>6, <4>1, <4>2, <4>4 DEF NothingToDo, queue
    <3> QED
      BY <2>3, <3>2, <3>7 DEF IdleInv, SleepsOnlyWhenDone
  <2> QED
    BY <2>2, <2>3
<1> QED
  BY <1>1, <1>2, <1>3, <1>4 DEF Schedule

\* After an action the task looks again.
LEMMA ExecuteLooksAgain ==
  ASSUME Execute
  PROVE  IdleInv'
<1>1. pc' \in {"do", "sched", "commit", "reset"}
  BY DEF Execute, ActionInit, ActionClose, ActionWake, ActionSleep, ActionSendMngFrame,
     ActionSendData, ActionReceiveData, ActionFails, InitFails, CloseFails, WakeFails,
     SendMngFrameFails, SendDataFails, WaitConnect, CancelWaitConnect, HandleFinished,
     HandleStateChange, CommitState, ResetClosed, ResetReleased, HandleError,
     Succeeded, Done, Failed, Finish, AnswerNow, Doing
<1> QED
  BY <1>1 DEF IdleInv, SleepsOnlyWhenDone

\* No wake-up is lost, whoever queues or adds something while the task looks for an
\* action: what it does not see has signalled the device (CNL_addRequest, CNL_addEvent).
THEOREM NoWakeUpLost == Spec => []SleepsOnlyWhenDone
<1>1. Init => IdleInv
  <2>1. ASSUME Init
        PROVE  NothingToDo
    <3>1. /\ ev = {} /\ main = "CLOSE" /\ ctrlQ = NoReq /\ sub = "NULL"
      BY <2>1 DEF Init
    <3>2. RxRequest = Nop /\ TxRequest = Nop /\ SleepReady = Nop
      BY <3>1 DEF RxRequest, RxWanted, TxRequest, TxWanted, SleepReady, IsConnected
    <3>3. ctrlQ \notin Waiting
      BY <3>1, OwnActions DEF Waiting
    <3> QED
      BY <3>1, <3>2, <3>3 DEF NothingToDo
  <2> QED
    BY <2>1 DEF Init, IdleInv, SleepsOnlyWhenDone
<1>2. IInv /\ IdleInv /\ [Next]_vars => IdleInv'
  BY CallersSignal, EventsSignal, ScheduleFindsNothing, ExecuteLooksAgain DEF Next, Task
<1>3. IdleInv => SleepsOnlyWhenDone
  BY DEF IdleInv
<1> QED
  BY <1>1, <1>2, <1>3, Inductive, PTL DEF Spec
=============================================================================

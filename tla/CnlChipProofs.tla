---------------------------- MODULE CnlChipProofs ----------------------------
(****************************************************************************)
(* Theorems about the CNL core and its chip: the power state, the interrupt *)
(* sources that are enabled, the transmit banks and what is known of them.  *)
(*                                                                          *)
(* The scheduler only moves things: it takes completions and frames out of  *)
(* the pending events into the action in hand, notes flags, and unmasks a   *)
(* few sources.  The first part says so once; the accounts of the interrupts *)
(* that follow rest on it.                                                  *)
(****************************************************************************)
EXTENDS CnlCoreProofs

Waking == pwr = "HIBERNATE_TO_AWAKE"

(****************************************************************************)
(* What a step of the scheduler moves.                                      *)
(****************************************************************************)
\* The flags that the events note; C-Sleep and C-Wake are never hidden by them, nor
\* is C-Req listened for.
NotedFlags == {"crossover", "missCaccAck", "rxReady", "txReady", "txComp"}

\* The scheduler looked at the events E with the flags F.
Moved(E, F) ==
  /\ ev' \subseteq E \cup {"ACK_FOR_C_ACC"}
  /\ \A e \in CompReqs : e \in E => e \in ev'
  /\ main = "SEARCH" /\ "C_REQ" \in E => "C_REQ" \in ev'
  /\ F \subseteq flags' /\ flags' \subseteq F \cup NotedFlags
  /\ act'.arg \notin CompReqs
  /\ pc' \in {"request", "read", "do"}

\* The actions that the scheduler makes carry the argument they are given.
LEMMA ArgsOf ==
  /\ Err.arg = "" /\ Wake.arg = "" /\ Nop.arg = "" /\ "" \notin CompReqs
  /\ "COMP_NULL" \notin CompReqs
  /\ \A f, r : Send(f, r).arg = f
  /\ \A t : Order(t).arg = t
  /\ \A r : Complete(r).arg = "COMP_NULL"
BY DEF Err, Wake, Nop, Action, Send, Order, Complete, CompReqs

\* Frames and settling: no completion is taken in hand and none is lost
\* (CNL_checkRecvdMngFrame).
LEMMA FrameMoves ==
  ASSUME NEW E, NEW F,
         NoAction(E, F) \/ \E f \in Frames : RecvdMngFrame(f, E, F)
  PROVE  Moved(E, F)
<1>0. /\ CompReqs \cap (Frames \cup DataEvents) = {}
      /\ "C_REQ" \notin DataEvents
  BY DEF CompReqs, Frames, DataEvents
<1>1. ASSUME NEW A, NEW G, Settle(A, G)
      PROVE  Moved(A, G)
  BY <1>0, <1>1, ArgsOf DEF Settle, Moved, NotedFlags
<1>2. ASSUME NEW f \in Frames, NEW A, NEW G, RecvdMngFrame(f, A, G)
      PROVE  Moved(A, G)
  <2>0. /\ G \subseteq FrameFlags(f, G) /\ FrameFlags(f, G) \subseteq G \cup NotedFlags
        /\ f \notin CompReqs
    BY <1>0 DEF FrameFlags, NotedFlags
  <2>1. CASE ~FrameValid(f) /\ Handle(Err, "NONE", A \ {f}, G)
    BY <1>0, <2>0, <2>1, ArgsOf DEF Handle, Take, Moved, FrameValid
  <2>2. CASE Handle(Wake, "NONE", A, FrameFlags(f, G))
    BY <1>0, <2>0, <2>2, ArgsOf DEF Handle, Take, Moved
  <2>3. CASE /\ \E op : act' = Action(op, f, NoReq)
             /\ ev' = A /\ flags' = FrameFlags(f, G) /\ pc' = "read"
    <3>1. act'.arg = f
      BY <2>3 DEF Action
    <3> QED
      BY <1>0, <2>0, <2>3, <3>1 DEF Moved
  <2>4. CASE Settle(A, FrameFlags(f, G))
    BY <1>1, <2>0, <2>4 DEF Moved
  <2> QED
    BY <1>2, <2>1, <2>2, <2>3, <2>4 DEF RecvdMngFrame
<1>3. CASE NoAction(E, F)
  <2> DEFINE A == (E \ DataEvents) \cup {"ACK_FOR_C_ACC"}
             G == F \cup {"missCaccAck", "rxReady"}
                    \cup (IF "TX_READY" \in E THEN {"txReady"} ELSE {})
                    \cup (IF "TX_COMP" \in E THEN {"txComp"} ELSE {})
  <2>1. CASE \E f \in Frames : RecvdMngFrame(f, A, G)
    <3>1. Moved(A, G)
      BY <1>2, <2>1
    <3> QED
      BY <1>0, <3>1 DEF Moved, NotedFlags
  <2>2. CASE Settle(E, F)
    BY <1>1, <2>2
  <2> QED
    BY <1>3, <2>1, <2>2 DEF NoAction
<1> QED
  BY <1>2, <1>3

\* What a step of the scheduler does to events, flags and the action in hand: a
\* completion in hand was pending and is not any more; that of waking is not lost.
EventsMoved ==
  /\ ev' \subseteq ev \cup {"ACK_FOR_C_ACC"}
  /\ flags \subseteq flags' /\ flags' \subseteq flags \cup NotedFlags
  /\ act'.arg \in CompReqs => act'.arg \in ev /\ act'.arg \notin ev'
  /\ Waking /\ "COMP_WAKE" \in ev => "COMP_WAKE" \in ev' \cup {act'.arg}
  /\ main = "SEARCH" /\ "C_REQ" \in ev => "C_REQ" \in ev'
  /\ pc' \in {"request", "read", "do"}

\* No action comes of the events, or a frame does.
LEMMA MovedEvents ==
  ASSUME NEW E \in SUBSET ev, Moved(E, flags), Waking => "COMP_WAKE" \notin ev \ E,
         main = "SEARCH" => "C_REQ" \notin ev \ E
  PROVE  EventsMoved
BY DEF Moved, EventsMoved, CompReqs

\* An action other than a frame comes of them.
LEMMA HandledEvents ==
  ASSUME NEW E \in SUBSET ev, NEW a, NEW s, Handle(a, s, E, flags),
         a.arg \in CompReqs => a.arg \in ev \ E,
         Waking => "COMP_WAKE" \notin ev \ E \/ a.arg = "COMP_WAKE",
         main = "SEARCH" => "C_REQ" \notin ev \ E
  PROVE  EventsMoved
BY DEF Handle, Take, EventsMoved

\* The branch of the events (CNL_checkEvent).
LEMMA EventMoves ==
  ASSUME CheckEvent
  PROVE  EventsMoved
<1>1. CASE WakeRequired
  <2> DEFINE E == ev \ {"WAKE_REQUIRED"}
  <2>1. E \in SUBSET ev /\ "COMP_WAKE" \notin ev \ E /\ "C_REQ" \notin ev \ E
    OBVIOUS
  <2>2. CASE Handle(Wake, "NONE", E, flags) \/ Handle(Err, "NONE", E, flags)
    <3> HIDE DEF E
    <3> QED
      BY <2>1, <2>2, HandledEvents, ArgsOf
  <2>3. CASE NoAction(E, flags)
    <3> HIDE DEF E
    <3> QED
      BY <2>1, <2>3, FrameMoves, MovedEvents
  <2> QED
    BY <1>1, <2>2, <2>3 DEF WakeRequired
<1>2. ASSUME NEW e \in CompReqs, Prior(e, ev), CompRequest(e)
      PROVE  EventsMoved
  <2> DEFINE E == ev \ {e}
  <2>0. /\ ev \in SUBSET ev /\ E \in SUBSET ev /\ e \in ev \ E /\ ev \ E = {e}
        /\ e # "C_REQ"
    BY <1>2 DEF Prior, Unfiltered, CompReqs
  <2> HIDE DEF E
  <2>1. CASE ~CompValid(e) /\ Handle(Err, "NONE", E, flags)
    <3>1. e # "COMP_WAKE"
      BY <2>1 DEF CompValid
    <3> QED
      BY <2>0, <2>1, <3>1, HandledEvents, ArgsOf
  <2>2. CASE e = "COMP_PROBE_REQ" /\ ProbeCompleted
    <3>1. CASE Handle(Send("C_SLEEP", PwrReq), "NONE", E, flags)
      <4>1. Send("C_SLEEP", PwrReq).arg = "C_SLEEP" /\ "C_SLEEP" \notin CompReqs
        BY DEF Send, Action, CompReqs
      <4>2. e # "COMP_WAKE"
        BY <2>2
      <4> QED
        BY <2>0, <3>1, <4>1, <4>2, HandledEvents
    <3>2. CASE NoAction(E, flags)
      BY <2>0, <2>2, <3>2, FrameMoves, MovedEvents
    <3> QED
      BY <2>2, <3>1, <3>2 DEF ProbeCompleted, E
  <2>3. CASE NoAction(ev, flags)
    BY <2>0, <2>3, FrameMoves, MovedEvents
  <2>4. CASE Handle(Wake, "NONE", ev, flags)
    BY <2>0, <2>4, HandledEvents, ArgsOf
  <2>5. CASE \E r, s : Handle(Action("HANDLE_COMPLETE", e, r), s, E, flags)
    <3>1. PICK r, s : Handle(Action("HANDLE_COMPLETE", e, r), s, E, flags)
      BY <2>5
    <3>2. Action("HANDLE_COMPLETE", e, r).arg = e
      BY DEF Action
    <3> QED
      BY <2>0, <3>1, <3>2, HandledEvents
  <2>6. CASE ~Internal(e) /\ NoAction(E, flags)
    <3>1. e # "COMP_WAKE"
      BY <2>6 DEF Internal
    <3> QED
      BY <2>0, <2>6, <3>1, FrameMoves, MovedEvents
  <2> QED
    BY <1>2, <2>1, <2>2, <2>3, <2>4, <2>5, <2>6 DEF CompRequest, E
<1>3. ASSUME NEW t \in Timers, Timeout(t)
      PROVE  EventsMoved
  <2> DEFINE E == ev \ {t}
  <2>0. /\ ev \in SUBSET ev /\ E \in SUBSET ev
        /\ "COMP_WAKE" \notin ev \ E /\ "C_REQ" \notin ev \ E /\ t \notin CompReqs
    BY DEF Timers, CompReqs
  <2> HIDE DEF E
  <2>1. CASE Handle(Err, "NONE", E, flags) \/ Handle(Wake, "NONE", ev, flags)
    BY <2>0, <2>1, HandledEvents, ArgsOf
  <2>2. CASE NoAction(ev, flags)
    BY <2>0, <2>2, FrameMoves, MovedEvents
  <2>3. CASE Handle(Action("HANDLE_TIMEOUT", t, NoReq), "NONE", E, flags)
    <3>1. Action("HANDLE_TIMEOUT", t, NoReq).arg = t
      BY DEF Action
    <3> QED
      BY <2>0, <2>3, <3>1, HandledEvents
  <2> QED
    BY <1>3, <2>1, <2>2, <2>3 DEF Timeout, E
<1>4. CASE Handle(Err, "NONE", ev \ {"ERROR_OCCURRED"}, flags)
  <2>1. /\ ev \ {"ERROR_OCCURRED"} \in SUBSET ev
        /\ "COMP_WAKE" \notin ev \ (ev \ {"ERROR_OCCURRED"})
        /\ "C_REQ" \notin ev \ (ev \ {"ERROR_OCCURRED"})
    OBVIOUS
  <2> QED
    BY <1>4, <2>1, HandledEvents, ArgsOf
<1>5. CASE NoAction(ev, flags) \/ \E f \in Frames : RecvdMngFrame(f, ev, flags)
  BY <1>5, FrameMoves, MovedEvents
<1> QED
  BY <1>1, <1>2, <1>3, <1>4, <1>5 DEF CheckEvent

\* The body of a received frame is read: the frame is taken in hand, or dropped.
LEMMA ReadMoves ==
  ASSUME IInv, ReadMngBody
  PROVE  /\ ev' \subseteq ev \cup {"ACK_FOR_C_ACC"}
         /\ flags \subseteq flags' /\ flags' \subseteq flags \cup NotedFlags
         /\ act'.arg \notin CompReqs
         /\ \A e \in CompReqs : e \in ev => e \in ev'
         /\ MaxFault = 0 /\ main = "SEARCH" /\ "C_REQ" \in ev \cup {act.arg}
              => "C_REQ" \in ev' \cup {act'.arg}
         /\ pc' \notin {"commit", "reset"}
<1> DEFINE f == act.arg
           E == ev \ {f}
<1>0. E \subseteq ev /\ \A e \in ev : e # f => e \in E
  OBVIOUS
<1>1. /\ f \in Frames /\ f \notin CompReqs
      /\ act.op = "SKIP_MNG_FRAME" /\ main = "SEARCH" => f # "C_REQ"
      /\ act.op \in {"HANDLE_MNG_FRAME", "SKIP_MNG_FRAME"}
  BY DEF IInv, TaskInv, ReadMngBody, Fits, FrameFits, Frames, CompReqs
<1>2. \/ /\ main \notin {"SEARCH", "CONNECTION_REQUEST"} \/ DeviceFault
         /\ Handle(Err, "NONE", E, flags)
      \/ act.op = "HANDLE_MNG_FRAME" /\ Handle(act, "NONE", E, flags)
      \/ act.op = "SKIP_MNG_FRAME" /\ NoAction(E, flags)
  BY DEF ReadMngBody
<1>3. MaxFault = 0 => ~DeviceFault
  BY DEF DeviceFault, IInv, TypeOK
<1> HIDE DEF f, E
<1>4. CASE /\ main \notin {"SEARCH", "CONNECTION_REQUEST"} \/ DeviceFault
           /\ Handle(Err, "NONE", E, flags)
  BY <1>0, <1>1, <1>3, <1>4, ArgsOf DEF Handle, Take, f
<1>5. CASE Handle(act, "NONE", E, flags)
  BY <1>0, <1>1, <1>5 DEF Handle, Take, f
<1>6. CASE act.op = "SKIP_MNG_FRAME" /\ NoAction(E, flags)
  <2>1. Moved(E, flags)
    BY <1>6, FrameMoves
  <2>2. f = act.arg /\ (main = "SEARCH" => f # "C_REQ")
    BY <1>1, <1>6 DEF f
  <2> QED
    BY <1>0, <1>1, <2>1, <2>2 DEF Moved
<1> QED
  BY <1>2, <1>4, <1>5, <1>6

\* What the branches of the requests take in hand is no completion of the chip.
LEMMA InitCloseMoves ==
  ASSUME IInv, CheckInitClose
  PROVE  act'.arg \notin CompReqs /\ pc' \in {"event", "do"}
<1>1. /\ \/ act' = act /\ pc = "sched"
         \/ act' \in {Complete(ctrlQ), Wake}
         \/ \E op : act' = Action(op, "", ctrlQ)
      /\ pc' \in {"event", "do"}
  BY DEF CheckInitClose, Take
<1>2. pc = "sched" => act = Nop
  BY DEF IInv, TaskInv
<1>3. \A op : Action(op, "", ctrlQ).arg = ""
  BY DEF Action
<1> QED
  BY <1>1, <1>2, <1>3, ArgsOf

\* What does not come of a request that waits for the core: an answer to the peer or to
\* a timer, and the closing of the device.
NotOfRequests == {"HANDLE_MNG_FRAME", "SKIP_MNG_FRAME", "HANDLE_TIMEOUT", "CLOSE"}

\* Some caller asks for a connection.
Connecting == \E c \in Callers : req[c].type = "CONNECT_REQ"

\* The requests: nothing pending is lost, and no completion is taken in hand.
LEMMA RequestMoves ==
  ASSUME IInv, CheckRequests
  PROVE  /\ act'.arg \notin CompReqs /\ act'.op \notin NotOfRequests
         /\ act'.arg = "CONNECT_REQ" => Connecting
         /\ pc' \in {"wait", "sched", "do"}
<1> DEFINE Other(a) == /\ a.arg \notin CompReqs /\ a.op \notin NotOfRequests
                       /\ a.arg = "CONNECT_REQ" => Connecting
<1>1. ASSUME NEW a, Other(a)
      PROVE  Other(AwakeFirst(a))
  <2>1. pwr \in {"AWAKE", "HIBERNATE"} \cup Transitional
    BY DEF IInv, TypeOK, DevTypeOK
  <2>2. Other(Wake) /\ Other(Nop)
    BY DEF Wake, Nop, Action, CompReqs, NotOfRequests
  <2>3. AwakeFirst(a) \in {a, Wake, Nop}
    BY <2>1 DEF AwakeFirst, Transitional
  <2> QED
    BY <1>1, <2>2, <2>3
<1>2. /\ \A r : /\ Other(Send("C_RLS", r)) /\ Other(Send("C_REQ", r)) /\ Other(Send("C_ACC", r))
                /\ Other(Send("ACK_FOR_C_ACC", r)) /\ Other(Send("C_SLEEP", r))
                /\ Other(Send("C_WAKE", r))
      /\ Connecting => Other(Order("CONNECT_REQ"))
      /\ Other(Order("ACCEPT_REQ"))
      /\ Other(Order("WAKE_REQ")) /\ Other(Order("POWERSAVE_REQ"))
      /\ \A op, r : op \notin NotOfRequests => Other(Action(op, "", r))
      /\ \A r : Other(Complete(r))
      /\ Other(Nop) /\ Other(Err)
  BY DEF Send, Order, Complete, Nop, Err, Action, CompReqs, NotOfRequests
<1>3. (\A a : Perform(a).act = a) /\ (\A r, s : Answer(r, s).act = Complete(r))
  BY DEF Perform, Answer
<1> HIDE DEF Other
<1>4. Other(WakeLink)
  BY <1>1, <1>2 DEF WakeLink
<1>5. ASSUME NEW r
      PROVE  /\ Connecting => Other(ConnectReq(r).act)
             /\ Other(WconnectReq(r).act)
             /\ Other(AcceptReq(r).act) /\ Other(AcceptRes(r).act)
  <2>0. "WAIT_CONNECT" \notin NotOfRequests
    BY DEF NotOfRequests
  <2>1. /\ Connecting => Other(AwakeFirst(Order("CONNECT_REQ")))
        /\ Other(AwakeFirst(Action("WAIT_CONNECT", "", r)))
    BY <1>1, <1>2, <2>0
  <2>2. (Connecting => Other(ConnectReq(r).act)) /\ Other(WconnectReq(r).act)
    BY <1>2, <1>3, <2>1 DEF ConnectReq, WconnectReq
  <2>3. Other(AcceptReq(r).act) /\ Other(AcceptRes(r).act)
    BY <1>2, <1>3 DEF AcceptReq, AcceptRes
  <2> QED
    BY <2>2, <2>3
<1>6. ASSUME NEW r
      PROVE  Other(ReleaseReq(r).act)
  <2>1. \/ ReleaseReq(r) = Perform(Send("C_RLS", r))
        \/ ReleaseReq(r) = Perform(WakeLink)
        \/ ReleaseReq(r) = Answer(r, "INVSTAT")
        \/ ReleaseReq(r) = Perform(AwakeFirst(Action("CANCEL_WAIT_CONNECT", "", r)))
    BY DEF ReleaseReq
  <2>2. \/ ReleaseReq(r).act = Send("C_RLS", r) \/ ReleaseReq(r).act = WakeLink
        \/ ReleaseReq(r).act = Complete(r)
        \/ ReleaseReq(r).act = AwakeFirst(Action("CANCEL_WAIT_CONNECT", "", r))
    BY <1>3, <2>1
  <2>3. Other(AwakeFirst(Action("CANCEL_WAIT_CONNECT", "", r)))
    BY <1>1, <1>2 DEF NotOfRequests
  <2> QED
    BY <1>2, <1>4, <2>2, <2>3
<1>7. ASSUME NEW r, NEW same
      PROVE  Other(PowersaveReq(r, same).act)
  <2>1. PowersaveReq(r, same).act = Send("C_SLEEP", r) \/ PowersaveReq(r, same).act = Complete(r)
    BY <1>3 DEF PowersaveReq
  <2> QED
    BY <1>2, <2>1
<1>8. ASSUME NEW o \in CtrlOutcomes
      PROVE  Other(o.act)
  <2>1. ctrlQ # NoReq => /\ req[ctrlQ].type \in RequestTypes \cup {"NONE"}
                         /\ req[ctrlQ].type = "CONNECT_REQ" => Connecting
    BY DEF IInv, TypeOK, ReqTypeOK, RequestObject, Connecting
  <2>2. ASSUME ctrlQ # NoReq, NEW same \in BOOLEAN
        PROVE  Other(CtrlRequest(ctrlQ, same).act)
    BY <1>2, <1>3, <1>5, <1>6, <1>7, <2>1, <2>2 DEF CtrlRequest, RequestTypes
  <2>3. \/ o = Perform(Nop)
        \/ ctrlQ # NoReq /\ \E same \in BOOLEAN : o = CtrlRequest(ctrlQ, same)
    BY <1>8 DEF CtrlOutcomes
  <2> QED
    BY <1>2, <1>3, <2>2, <2>3
<1>9. Other(RxRequest) /\ Other(TxRequest) /\ Other(SleepReady)
  <2>1. /\ Other(Action("SEND_DATA", "", NoReq)) /\ Other(Action("SLEEP", "", NoReq))
        /\ Other(AwakeFirst(Action("RECEIVE_DATA", "", NoReq)))
    BY <1>1, <1>2 DEF NotOfRequests
  <2> QED
    BY <1>2, <1>4, <2>1 DEF RxRequest, TxRequest, SleepReady
<1>10. PICK o \in CtrlOutcomes :
         \/ act' = FirstOf(o.act, FirstOf(RxRequest, FirstOf(TxRequest, SleepReady)))
         \/ act' = Err \/ act' = Nop
  BY Zenon DEF CheckRequests, Take
<1>11. Other(act')
  BY <1>2, <1>8, <1>9, <1>10 DEF FirstOf
<1>12. pc' \in {"wait", "sched", "do"}
  BY DEF CheckRequests, Take
<1> QED
  BY <1>11, <1>12 DEF Other

\* What a step of the scheduler leaves alone, and how it moves the rest.
Steering ==
  /\ UNCHANGED <<main, sub, pwr, proc, irq, view, gate, pmu, tx, sta, bank, phy>>
  /\ pc \notin {"do", "commit", "reset"} /\ pc' \notin {"commit", "reset"}
  /\ en \subseteq en' /\ en' \subseteq en \cup {"CACCRCV", "CSLEEPRCV", "TXDFRAME"}
  /\ flags \subseteq flags' /\ flags' \subseteq flags \cup NotedFlags
  /\ ev' \subseteq ev \cup {"ACK_FOR_C_ACC"}
  /\ act.arg \notin CompReqs
  /\ act'.arg \in CompReqs => act'.arg \in ev /\ act'.arg \notin ev'
  /\ Waking /\ "COMP_WAKE" \in ev => "COMP_WAKE" \in ev' \cup {act'.arg}
  /\ MaxFault = 0 /\ main = "SEARCH" /\ "C_REQ" \in ev \cup {act.arg}
       => "C_REQ" \in ev' \cup {act'.arg}

\* Every step of the scheduler only moves things.
LEMMA ScheduleMoves ==
  ASSUME IInv, Schedule
  PROVE  Steering
<1>1. /\ UNCHANGED <<main, sub, pwr, proc, irq, view, gate, pmu, tx, sta, bank, phy>>
      /\ pc \notin {"do", "commit", "reset"}
      /\ en \subseteq en' /\ en' \subseteq en \cup {"CACCRCV", "CSLEEPRCV", "TXDFRAME"}
  BY DEF Schedule, TaskWait, CheckInitClose, CheckEvent, ReadMngBody, CheckRequests,
         ReadReadyBuffer, devVars, evVars, chipVars
<1>2. /\ act.arg \notin CompReqs
      /\ pc # "read" => act = Nop
      /\ pc = "read" => act.arg \in Frames
  <2>1. CompReqs \cap Frames = {}
    BY DEF CompReqs, Frames
  <2>2. pc \in {"wait", "sched", "event", "read", "request"}
    BY <1>1 DEF IInv, TypeOK, TaskTypeOK
  <2> QED
    BY <2>1, <2>2, ArgsOf DEF IInv, TaskInv, Fits, FrameFits
<1>3. Nop.arg # "C_REQ"
  BY ArgsOf
<1>4. CASE TaskWait \/ CheckInitClose \/ CheckRequests
  <2>1. UNCHANGED <<ev, flags>>
    BY <1>4 DEF TaskWait, CheckInitClose, CheckRequests, devVars, evVars
  <2>2. act'.arg \notin CompReqs /\ pc' \notin {"commit", "reset"} /\ pc # "read"
    BY <1>2, <1>4, InitCloseMoves, RequestMoves DEF TaskWait, CheckInitClose, CheckRequests
  <2> QED
    BY <1>1, <1>2, <1>3, <2>1, <2>2 DEF Steering
<1>5. CASE CheckEvent
  <2>1. EventsMoved /\ pc # "read"
    BY <1>5, EventMoves DEF CheckEvent
  <2> QED
    BY <1>1, <1>2, <1>3, <2>1 DEF Steering, EventsMoved
<1>6. CASE ReadMngBody
  <2>1. "COMP_WAKE" \in CompReqs
    BY DEF CompReqs
  <2> QED
    BY <1>1, <1>2, <1>6, <2>1, ReadMoves DEF Steering
<1> QED
  BY <1>4, <1>5, <1>6 DEF Schedule

(****************************************************************************)
(* What the other parties change.                                           *)
(****************************************************************************)
\* The sources behind the events that the accounts below follow (IZAN_intToEvent).
LEMMA IntMeans ==
  ASSUME NEW bits \in SUBSET Sources
  PROVE  /\ "COMP_WAKE" \in IntToEvent(bits) <=> bits \cap PhyInts = {"AWAKEPRIOD"}
         /\ "COMP_INIT" \in IntToEvent(bits)
              <=> bits \cap PhyInts = {"SLEEPTOAWAKE", "AWAKEPRIOD"}
         /\ "COMP_CLOSE" \in IntToEvent(bits) <=> bits \cap PhyInts = {"AWAKETOSLEEP"}
         /\ "C_REQ" \in IntToEvent(bits) <=> "CREQRCV" \in bits
<1> DEFINE P == bits \cap PhyInts
<1>1. \A s \in Sources \ PhyInts :
        /\ {"COMP_WAKE", "COMP_INIT", "COMP_CLOSE"} \cap EventsOfInt[s] = {}
        /\ "C_REQ" \in EventsOfInt[s] <=> s = "CREQRCV"
  BY DEF Sources, PhyInts, RcvInts, TimInts, DataInts, MftxInts, EventsOfInt
<1>2. "CREQRCV" \in Sources \ PhyInts
  BY DEF Sources, PhyInts, RcvInts
<1>3. /\ "COMP_WAKE" \in PhyEvent(P) <=> P = {"AWAKEPRIOD"}
      /\ "COMP_INIT" \in PhyEvent(P) <=> P = {"SLEEPTOAWAKE", "AWAKEPRIOD"}
      /\ "COMP_CLOSE" \in PhyEvent(P) <=> P = {"AWAKETOSLEEP"}
      /\ "C_REQ" \notin PhyEvent(P)
  <2> HIDE DEF P
  <2> QED
    BY DEF PhyEvent
<1>4. \A e : e \in IntToEvent(bits)
               <=> (\E s \in bits \ PhyInts : e \in EventsOfInt[s]) \/ e \in PhyEvent(P)
  BY DEF IntToEvent
<1> HIDE DEF P
<1>5. \A s \in bits \ PhyInts :
        /\ {"COMP_WAKE", "COMP_INIT", "COMP_CLOSE"} \cap EventsOfInt[s] = {}
        /\ "C_REQ" \in EventsOfInt[s] <=> s = "CREQRCV"
  BY <1>1
<1>6. "CREQRCV" \in bits => "CREQRCV" \in bits \ PhyInts
  BY <1>2
<1>7. /\ "COMP_WAKE" \in IntToEvent(bits) <=> "COMP_WAKE" \in PhyEvent(P)
      /\ "COMP_INIT" \in IntToEvent(bits) <=> "COMP_INIT" \in PhyEvent(P)
      /\ "COMP_CLOSE" \in IntToEvent(bits) <=> "COMP_CLOSE" \in PhyEvent(P)
  BY <1>4, <1>5
<1>8. "C_REQ" \in IntToEvent(bits) <=> "CREQRCV" \in bits
  BY <1>3, <1>4, <1>5, <1>6
<1> QED
  BY <1>3, <1>7, <1>8 DEF P

\* Callers touch neither the task nor the chip, and of the data requests not those
\* that are being sent.
CallersLeave ==
  /\ UNCHANGED <<main, sub, pwr, proc, flags, pc, act, ev, irq, view, en, gate, pmu, tx, sta,
                 bank, phy>>
  /\ signaled' = signaled \/ signaled' = TRUE
  /\ data'.txRun = data.txRun /\ data'.sending = data.sending /\ data'.ready = data.ready

\* Callers and senders touch neither the task nor the chip.
LEMMA CallersMove ==
  ASSUME IInv, (\E c \in Callers : Caller(c)) \/ DataCaller \/ UNCHANGED vars
  PROVE  CallersLeave
<1>1. UNCHANGED <<main, sub, pwr, proc, flags, pc, act, ev, irq, view, en, gate, pmu, tx, sta,
                  bank, phy>>
  BY DEF Caller, CheckRequest, AddRequest, Return, CmdTimeout, DataCaller, CheckSend, AddSend,
         CheckReceive, AddReceive, devVars, taskVars, evVars, chipVars, vars
<1>3. signaled' = signaled \/ signaled' = TRUE
  BY DEF Caller, CheckRequest, AddRequest, Return, CmdTimeout, DataCaller, CheckSend, AddSend,
         CheckReceive, AddReceive, evVars, vars
<1>2. /\ data'.txRun = data.txRun /\ data'.sending = data.sending
      /\ data'.ready = data.ready
  <2>1. CASE (\E c \in Callers : Caller(c)) \/ UNCHANGED vars
    BY <2>1 DEF Caller, CheckRequest, AddRequest, Return, CmdTimeout, vars
  <2>2. CASE CheckSend
    <3>1. data' = [data EXCEPT !.checked = TRUE]
      BY <2>2 DEF CheckSend
    <3> QED
      BY <3>1, Zenon DEF IInv, TypeOK, DataTypeOK, DataCounters
  <2>3. CASE AddSend
    <3>1. data' = [data EXCEPT !.checked = FALSE, !.txNew = @ + 1]
      BY <2>3 DEF AddSend
    <3> QED
      BY <3>1, Zenon DEF IInv, TypeOK, DataTypeOK, DataCounters
  <2>4. CASE AddReceive
    <3>1. data' = [data EXCEPT !.rxChecked = FALSE, !.rx = @ + 1]
      BY <2>4 DEF AddReceive
    <3> QED
      BY <3>1, Zenon DEF IInv, TypeOK, DataTypeOK, DataCounters
  <2>5. CASE CheckReceive
    <3>1. data' = [data EXCEPT !.rxChecked = TRUE]
      BY <2>5 DEF CheckReceive
    <3> QED
      BY <3>1, Zenon DEF IInv, TypeOK, DataTypeOK, DataCounters
  <2> QED
    BY <2>1, <2>2, <2>3, <2>4, <2>5 DEF DataCaller
<1> QED
  BY <1>1, <1>2, <1>3 DEF CallersLeave

\* The chip latches statuses, among those of power the ones of the transition it ends,
\* and frees banks.
ChipLatches ==
  /\ UNCHANGED <<main, sub, pwr, proc, flags, pc, act, ev, irq, signaled, view, data, en, pmu>>
  /\ sta \subseteq sta' /\ bank' \in Nat /\ bank' <= bank
  /\ \/ UNCHANGED phy /\ sta' \cap PhyInts = sta \cap PhyInts
     \/ phy # "none" /\ phy' = "none" /\ sta' = sta \cup PhyInt[phy]

\* The chip latches statuses, and the power transition it was asked for may end.
LEMMA ChipMoves ==
  ASSUME IInv, Chip
  PROVE  ChipLatches
<1>1. UNCHANGED <<main, sub, pwr, proc, flags, pc, act, ev, irq, signaled, view, data, en, pmu>>
  BY DEF Chip, FrameSent, DataAcked, PhyDone, devVars, taskVars, evVars
<1>2. bank \in Nat
  BY DEF IInv, TypeOK, DataTypeOK
<1>3. CASE FrameSent
  <2>1. TxStatus[tx] \notin PhyInts
    BY <1>3 DEF FrameSent, IInv, TypeOK, ChipTypeOK, TxStatus, PhyInts
  <2> QED
    BY <1>1, <1>2, <1>3, <2>1 DEF FrameSent, ChipLatches
<1>4. CASE DataAcked
  <2>1. {"TXDFRAME", "TXBANKEMPT"} \cap PhyInts = {}
    BY DEF PhyInts
  <2> QED
    BY <1>1, <1>2, <1>4, <2>1 DEF DataAcked, ChipLatches
<1>5. CASE PhyDone
  BY <1>1, <1>2, <1>5 DEF PhyDone, ChipLatches
<1> QED
  BY <1>3, <1>4, <1>5 DEF Chip

\* The handler masks the sources it makes events of, all of those of power that are up
\* at once; in power save it asks for the chip to be woken instead.
HandlerMoves ==
  /\ UNCHANGED <<main, sub, pwr, proc, flags, pc, act, view, data, pmu, phy, bank>>
  /\ \/ /\ ev' = ev \cup irq /\ irq' = {} /\ signaled' = TRUE
        /\ UNCHANGED <<en, sta>>
     \/ /\ irq = {} /\ irq' = {"WAKE_REQUIRED"} /\ pmu = "POWERSAVE"
        /\ UNCHANGED <<ev, signaled, en, sta>>
     \/ /\ irq = {} /\ pmu # "POWERSAVE"
        /\ \E bits \in SUBSET en :
             /\ en' = en \ bits /\ sta' = sta \ bits /\ irq' = IntToEvent(bits)
             /\ bits \cap PhyInts = sta \cap en \cap PhyInts
        /\ UNCHANGED <<ev, signaled>>

\* The handler masks what it fetches, and makes events of it.
LEMMA InterruptMoves ==
  ASSUME IInv, Interrupt
  PROVE  HandlerMoves
<1>1. UNCHANGED <<main, sub, pwr, proc, flags, pc, act, view, data, pmu, phy, bank>>
  BY DEF Interrupt, IrqMask, IrqAddEvent, devVars, taskVars, chipVars
<1>2. CASE IrqAddEvent
  BY <1>1, <1>2 DEF IrqAddEvent, HandlerMoves, chipVars
<1>3. ASSUME NEW A \in SUBSET SpontaneousInts, IrqMask(A)
      PROVE  HandlerMoves
  <2> DEFINE bits == (sta \cup A) \cap en
  <2>1. irq = {} /\ UNCHANGED <<ev, signaled>>
    BY <1>3 DEF IrqMask
  <2>2. CASE pmu = "POWERSAVE"
    BY <1>1, <1>3, <2>1, <2>2 DEF IrqMask, HandlerMoves
  <2>3. CASE pmu # "POWERSAVE"
    <3>1. en' = en \ bits /\ sta' = sta \ bits /\ irq' = IntToEvent(bits)
      BY <1>3, <2>3 DEF IrqMask
    <3>2. A \cap PhyInts = {}
      BY DEF SpontaneousInts, PhyInts, RcvInts, TimInts
    <3>3. bits \in SUBSET en /\ bits \cap PhyInts = sta \cap en \cap PhyInts
      BY <3>2
    <3> HIDE DEF bits
    <3> QED
      BY <1>1, <2>1, <2>3, <3>1, <3>3 DEF HandlerMoves
  <2> QED
    BY <2>2, <2>3
<1> QED
  BY <1>2, <1>3, AirAssumption DEF Interrupt

(****************************************************************************)
(* Waking is reported.  The interrupt it depends on is still to be raised   *)
(* by the chip, or latched and enabled, or its event is on the way.  The    *)
(* three power sources mean something only in certain combinations, so that *)
(* another one latched beside it would turn COMP_WAKE into another event or *)
(* into none (IZAN_intToEvent); actionWake clears them.                     *)
(****************************************************************************)
WakeReported ==
  \/ (phy = "wake" \/ "AWAKEPRIOD" \in sta) /\ "AWAKEPRIOD" \in en
  \/ "COMP_WAKE" \in irq \cup ev \cup {act.arg}

WakeInv == Waking => /\ pmu = "AWAKE"
                     /\ "SLEEPTOAWAKE" \notin sta /\ "AWAKETOSLEEP" \notin sta
                     /\ phy \in {"wake", "none"}
                     /\ WakeReported

\* The other parties keep the way of COMP_WAKE open.
LEMMA OthersWake ==
  ASSUME IInv, WakeInv,
         (\E c \in Callers : Caller(c)) \/ DataCaller \/ UNCHANGED vars \/ Chip \/ Interrupt
  PROVE  WakeInv'
<1>1. CASE (\E c \in Callers : Caller(c)) \/ DataCaller \/ UNCHANGED vars
  BY <1>1, CallersMove DEF CallersLeave, WakeInv, Waking, WakeReported
<1>2. CASE Chip
  <2>1. Waking /\ phy # "none" => PhyInt[phy] = {"AWAKEPRIOD"} /\ phy = "wake"
    BY DEF WakeInv, PhyInt
  <2>2. ChipLatches /\ "SLEEPTOAWAKE" \in PhyInts /\ "AWAKETOSLEEP" \in PhyInts
    BY <1>2, ChipMoves DEF PhyInts
  <2> QED
    BY <2>1, <2>2 DEF ChipLatches, WakeInv, Waking, WakeReported
<1>3. CASE Interrupt
  <2>1. HandlerMoves
    BY <1>3, InterruptMoves
  <2>2. CASE ev' = ev \cup irq /\ UNCHANGED <<en, sta>>
    BY <2>1, <2>2 DEF HandlerMoves, WakeInv, Waking, WakeReported
  <2>3. CASE pmu = "POWERSAVE"
    BY <2>1, <2>3 DEF HandlerMoves, WakeInv, Waking
  <2>4. ASSUME NEW bits \in SUBSET en, Waking,
               irq = {}, en' = en \ bits, sta' = sta \ bits, irq' = IntToEvent(bits),
               bits \cap PhyInts = sta \cap en \cap PhyInts, UNCHANGED ev
        PROVE  WakeInv'
    <3>1. bits \in SUBSET Sources
      BY DEF IInv, TypeOK, ChipTypeOK
    <3>2. "AWAKEPRIOD" \in bits => bits \cap PhyInts = {"AWAKEPRIOD"}
      BY <2>4 DEF WakeInv, PhyInts
    <3> QED
      BY <2>1, <2>4, <3>1, <3>2, IntMeans DEF HandlerMoves, WakeInv, Waking, WakeReported
  <2> QED
    BY <2>1, <2>2, <2>3, <2>4 DEF HandlerMoves, WakeInv, Waking
<1> QED
  BY <1>1, <1>2, <1>3

\* While the power state changes to awake, nothing that needs the chip is in hand.
LEMMA InHandWhileWaking ==
  ASSUME IInv, Waking
  PROVE  /\ pc \notin {"read", "commit", "reset"} /\ main # "CLOSE"
         /\ pc = "do" => \/ act.op = "HANDLE_COMPLETE" /\ act.arg \in {"COMP_NULL", "COMP_WAKE"}
                         \/ act.op \in {"NOP", "HANDLE_ERROR"} /\ act.arg = ""
<1>1. pwr = "HIBERNATE_TO_AWAKE" /\ act \in ActionObject
  BY DEF Waking, IInv, TypeOK, TaskTypeOK
<1>2. main # "CLOSE"
  BY <1>1 DEF IInv, StateInv, PowerInv, IsConnected
<1>3. ASSUME pc \in {"read", "do", "commit"}
      PROVE  /\ pc = "do"
             /\ \/ act.op = "HANDLE_COMPLETE" /\ act.arg \in {"COMP_NULL", "COMP_WAKE"}
                \/ act.op \in {"NOP", "HANDLE_ERROR"} /\ act.arg = ""
  <2>1. Fits(act)
    BY <1>3 DEF IInv, TaskInv
  <2>2. act.op \notin {"HANDLE_MNG_FRAME", "SKIP_MNG_FRAME", "HANDLE_TIMEOUT", "INIT",
                       "HANDLE_UPPER_ORDER", "WAKE", "SLEEP", "CLOSE", "SEND_MNG_FRAME",
                       "SEND_DATA", "RECEIVE_DATA", "WAIT_CONNECT", "CANCEL_WAIT_CONNECT"}
    BY <1>1, <1>2, <2>1 DEF Fits, FrameFits, TimerFits, OrderFits, ChipFits, OpenFits
  <2>3. act.op \in {"NOP", "HANDLE_ERROR", "HANDLE_COMPLETE"}
    BY <1>1, <2>2 DEF ActionObject, ActionTypes
  <2>4. act.op = "HANDLE_COMPLETE" => act.arg \in {"COMP_NULL", "COMP_WAKE"}
    <3>1. act.op = "HANDLE_COMPLETE" /\ act.arg = "COMP_SLEEP" => FALSE
      BY <1>1, <1>3 DEF IInv, TaskInv, PowerInv
    <3> QED
      BY <1>1, <2>1, <3>1 DEF Fits, CompFits
  <2>5. act.op \in {"NOP", "HANDLE_ERROR"} => act.arg = ""
    BY <2>1 DEF Fits, ChipFits, StateOps
  <2>6. pc # "read" /\ pc # "commit"
    BY <2>3, <2>4, <2>5, <1>3 DEF IInv, TaskInv, StateOps, Finished
  <2> QED
    BY <1>3, <2>3, <2>4, <2>5, <2>6
<1>4. pc # "reset"
  BY <1>1 DEF IInv, StateInv
<1> QED
  BY <1>2, <1>3, <1>4

\* So does the task choosing its next action.
LEMMA ScheduleWakes ==
  ASSUME IInv, WakeInv, Schedule
  PROVE  WakeInv'
<1>1. Steering
  BY ScheduleMoves
<1>2. "COMP_WAKE" \in CompReqs
  BY DEF CompReqs
<1> QED
  BY <1>1, <1>2 DEF Steering, WakeInv, Waking, WakeReported

\* The actions of the task where it executes one.
Executing == pc \in {"do", "commit", "reset"}

\* Actions are performed where they are in hand.
LEMMA ExecutesInHand == Execute => Executing
BY DEF Execute, ActionInit, ActionClose, ActionWake, ActionSleep, ActionSendMngFrame,
   ActionSendData, ActionReceiveData, ActionFails, InitFails, CloseFails, WakeFails,
   SendMngFrameFails, SendDataFails, WaitConnect, CancelWaitConnect, HandleFinished,
   HandleStateChange, CommitState, ResetClosed, ResetReleased, HandleError, Doing, Executing

\* And the task executing one: actionWake opens the way, COMP_WAKE closes it.
LEMMA ExecuteWakes ==
  ASSUME IInv, WakeInv, Execute
  PROVE  WakeInv'
<1>1. act \in ActionObject /\ Executing
  BY ExecutesInHand DEF IInv, TypeOK, TaskTypeOK
<1>2. CASE ActionWake
  <2>1. /\ pmu' = "AWAKE" /\ phy' = "wake" /\ "AWAKEPRIOD" \in en'
        /\ sta' = sta \ {"SLEEPTOAWAKE", "AWAKETOSLEEP"}
    BY <1>2 DEF ActionWake
  <2> QED
    BY <2>1 DEF WakeInv, WakeReported
<1>3. CASE Waking /\ ~ActionWake
  <2>1. /\ pc = "do"
        /\ \/ act.op = "HANDLE_COMPLETE" /\ act.arg \in {"COMP_NULL", "COMP_WAKE"}
           \/ act.op \in {"NOP", "HANDLE_ERROR"} /\ act.arg = ""
    BY <1>1, <1>3, InHandWhileWaking DEF Executing
  <2>2. HandleFinished \/ HandleError
    <3>1. ~(\/ ActionInit \/ ActionClose \/ ActionSleep \/ ActionSendMngFrame
            \/ ActionSendData \/ ActionReceiveData \/ WaitConnect \/ CancelWaitConnect)
      BY <2>1 DEF ActionInit, ActionClose, ActionSleep, ActionSendMngFrame, ActionSendData,
         ActionReceiveData, WaitConnect, CancelWaitConnect, Doing
    <3>2. ~(\/ ActionFails \/ InitFails \/ CloseFails \/ WakeFails \/ SendMngFrameFails
            \/ SendDataFails)
      BY <2>1 DEF ActionFails, InitFails, CloseFails, WakeFails, SendMngFrameFails, SendDataFails,
         Doing
    <3>3. ~HandleStateChange
      <4>1. HandleStateChange => act.op \in StateOps /\ act.arg \notin Finished
        BY DEF HandleStateChange, Doing
      <4> QED
        BY <2>1, <4>1 DEF StateOps, Finished
    <3>4. ~CommitState /\ ~ResetClosed /\ ~ResetReleased
      BY <2>1 DEF CommitState, ResetClosed, ResetReleased
    <3> QED
      BY <1>3, <3>1, <3>2, <3>3, <3>4 DEF Execute
  <2>3. UNCHANGED <<en, pmu, sta, phy, ev, irq>>
    BY <2>2 DEF HandleFinished, HandleError, chipVars, evVars
  <2>4. Waking' => act.arg # "COMP_WAKE"
    BY <2>1, <2>2 DEF HandleFinished, HandleError, Waking, Doing
  <2> QED
    BY <1>3, <2>3, <2>4 DEF WakeInv, WakeReported
<1>4. CASE ~Waking /\ ~ActionWake
  <2>1. ~Waking'
    BY <1>4 DEF Waking, Execute, ActionInit, ActionClose, ActionSleep, ActionSendMngFrame,
       ActionSendData, ActionReceiveData, ActionFails, InitFails, CloseFails, WakeFails,
       SendMngFrameFails, SendDataFails, WaitConnect, CancelWaitConnect, HandleFinished, Finished,
       HandleStateChange, CommitState, ResetClosed, ResetReleased, HandleError, devVars
  <2> QED
    BY <2>1 DEF WakeInv
<1> QED
  BY <1>2, <1>3, <1>4

\* Waking is always going to be reported.
THEOREM WakingReported == Spec => []WakeInv
<1>1. Init => WakeInv
  BY DEF Init, WakeInv, Waking
<1>2. IInv /\ WakeInv /\ [Next]_vars => WakeInv'
  BY OthersWake, ScheduleWakes, ExecuteWakes DEF Next, Task
<1> QED
  BY <1>1, <1>2, Inductive, PTL DEF Spec

\* While the power state changes, the completion that ends the change is still to
\* come, whatever fails and whatever else the chip, its timers and its peer raise
\* (cnl_task.c, actionWake and actionSleep).
THEOREM TransitionsAwaited == Spec => []TransitionIsAwaited
<1>1. IInv /\ WakeInv => TransitionIsAwaited
  BY DEF IInv, PowerInv, WakeInv, Waking, WakeReported, TransitionIsAwaited
<1> QED
  BY <1>1, Inductive, WakingReported, PTL

(****************************************************************************)
(* Where a change of state leads, as far as the accounts below need it.     *)
(****************************************************************************)
LinkAwake == sub \in {"CONNECTED", "TARGET_SLEEP"}

Leads(n, ns) ==
  /\ n = "CLOSE" <=> act.arg = "COMP_CLOSE"
  /\ n = "CLOSE" => main # "CLOSE"
  /\ main = "CLOSE" <=> act.arg = "COMP_INIT"
  /\ main = "CLOSE" => n = "SEARCH"
  /\ n = "SEARCH" => main # "SEARCH"
  /\ ~IsConnected(n) /\ n \notin {"SEARCH", "CLOSE"} => ~IsConnected(main)
  /\ main = "SEARCH" /\ act.arg = "C_REQ" => n = "ACCEPT_WAITING"
  /\ LinkAwake =>
       \/ n \in {"SEARCH", "CLOSE"}
       \/ IsConnected(n) /\ ns \in {"CONNECTED", "TARGET_SLEEP"}
            /\ (act.op = "HANDLE_COMPLETE" => act.arg = "COMP_WAKE_REQ")
       \/ IsConnected(n) /\ act.arg = "COMP_SLEEP_REQ" /\ act.op = "HANDLE_COMPLETE"
       \/ IsConnected(n) /\ act.arg = "POWERSAVE_REQ" /\ act.op = "HANDLE_UPPER_ORDER"

\* The handlers in hand lead where Leads says (HandleComplete, HandleMngFrame,
\* HandleTimeout, HandleUpperOrder).
LEMMA TargetLeads ==
  ASSUME IInv, pc \in {"do", "commit"}, act.op \in StateOps, act.arg \notin Finished
  PROVE  /\ Leads(Target(act)[1], Target(act)[2])
         /\ pwr = "AWAKE" /\ act.arg \in ChangeArgs
<1>1. StateAct(act) /\ sub \in SubStates /\ (sub = "NULL" <=> ~IsConnected(main))
  BY TargetInHand DEF IInv, TypeOK, DevTypeOK, StateInv
<1>2. LinkAwake => IsConnected(main)
  BY <1>1 DEF LinkAwake
<1>3. /\ act.op = "HANDLE_COMPLETE" => act.arg \in CompReqs
      /\ act.op = "HANDLE_MNG_FRAME" => act.arg \in Frames
      /\ act.op = "HANDLE_TIMEOUT" => act.arg \in Timers
      /\ act.op = "HANDLE_UPPER_ORDER" =>
           act.arg \in {"CONNECT_REQ", "ACCEPT_REQ", "WAKE_REQ", "POWERSAVE_REQ"}
      /\ act.op \in {"HANDLE_COMPLETE", "HANDLE_MNG_FRAME", "HANDLE_TIMEOUT",
                     "HANDLE_UPPER_ORDER"}
  BY <1>1 DEF StateAct, Fits, CompFits, FrameFits, TimerFits, OrderFits, StateOps, Finished
<1>4. pwr = "AWAKE" /\ act.arg \in ChangeArgs
  BY <1>1, StateActFacts
<1>5. CASE act.arg \in {"COMP_INIT", "COMP_RELEASE_REQ", "C_RLS", "T_CONNECT", "T_ACCEPT",
                        "T_RETRY"}
  BY <1>1, <1>2, <1>5, StateActFacts DEF Leads, Target, IsConnected, CompValid, FrameValid,
     TimerValid, CompReqs, Frames, Timers
<1>6. CASE act.arg = "COMP_CLOSE"
  BY <1>1, <1>2, <1>6, StateActFacts DEF Leads, Target, IsConnected, CompValid, CompReqs
<1>7. CASE act.arg \in {"COMP_CONNECT_REQ", "CONNECT_REQ", "COMP_ACCEPT_REQ", "ACCEPT_REQ",
                        "COMP_ACCEPT_RES"}
  BY <1>1, <1>2, <1>7, StateActFacts DEF Leads, Target, IsConnected, CompValid, CompReqs
<1>8. CASE act.arg \in {"ACK_FOR_C_ACC", "C_ACC", "C_REQ"}
  BY <1>1, <1>2, <1>8, StateActFacts DEF Leads, Target, IsConnected, FrameValid, Frames
<1>9. CASE act.arg \in {"COMP_SLEEP_REQ", "POWERSAVE_REQ", "COMP_WAKE_REQ", "WAKE_REQ"}
  <2>1. IsConnected(main)
    BY <1>1, <1>9, StateActFacts DEF CompValid, CompReqs
  <2>2. /\ act.arg \in {"COMP_SLEEP_REQ", "COMP_WAKE_REQ"} <=> act.op = "HANDLE_COMPLETE"
        /\ act.arg \in {"POWERSAVE_REQ", "WAKE_REQ"} <=> act.op = "HANDLE_UPPER_ORDER"
    BY <1>3, <1>9 DEF CompReqs, Frames, Timers
  <2> QED
    BY <1>4, <1>9, <2>1, <2>2 DEF Leads, Target, IsConnected
<1>10. CASE act.arg = "T_RESEND"
  <2>1. act.op = "HANDLE_TIMEOUT" /\ IsConnected(main)
    <3>1. act.arg \notin CompReqs /\ act.arg \notin Frames
      BY <1>10 DEF CompReqs, Frames
    <3>2. act.op = "HANDLE_TIMEOUT"
      BY <1>3, <1>10, <3>1
    <3>3. TimerValid(act.arg)
      BY <1>1, <1>10, StateActFacts DEF Timers
    <3> QED
      BY <1>10, <3>2, <3>3 DEF TimerValid
  <2> QED
    BY <1>4, <1>10, <2>1 DEF Leads, Target, IsConnected
<1>11. CASE act.arg \in {"C_SLEEP", "C_WAKE"}
  <2>1. /\ act.op = "HANDLE_MNG_FRAME"
        /\ main = "RESPONDER_RESPONSE" \/ IsConnected(main)
    BY <1>1, <1>3, <1>11, StateActFacts DEF FrameValid, Timers, CompReqs, Frames
  <2>2. CASE main = "RESPONDER_RESPONSE"
    BY <1>4, <1>11, <2>1, <2>2 DEF Leads, Target, IsConnected
  <2>3. CASE IsConnected(main)
    <3>1. /\ Target(act)[1] = main
          /\ LinkAwake => Target(act)[2] \in {"CONNECTED", "TARGET_SLEEP"}
      BY <1>11, <2>3 DEF Target, LinkAwake, IsConnected
    <3> QED
      BY <1>4, <1>11, <2>1, <2>3, <3>1 DEF Leads, IsConnected
  <2> QED
    BY <2>1, <2>2, <2>3
<1> QED
  BY <1>4, <1>5, <1>6, <1>7, <1>8, <1>9, <1>10, <1>11 DEF ChangeArgs, CompReqs, Frames, Timers

\* The mask of a state holds none of the sources of power, and listens for C-Req only
\* while the core asks for a connection itself (IZAN_INTEN_xxx).
LEMMA MasksOfStates ==
  ASSUME NEW m, NEW n \in MainStates, NEW ns, NEW e
  PROVE  /\ NewInten(m, n, ns, e) \cap PhyInts = {}
         /\ n = "SEARCH" => "CREQRCV" \notin NewInten(m, n, ns, e)
<1>1. IntenOfMain[n] \cap PhyInts = {} /\ (n = "SEARCH" => IntenOfMain[n] = {})
  BY DEF IntenOfMain, MainStates, PhyInts
<1> QED
  BY <1>1 DEF NewInten, StateToIntEnable, TakenOver, IsConnected, PhyInts, DataInts, MftxInts

(****************************************************************************)
(* The chip is awake when it is used.  The driver's own account of the      *)
(* chip, pmuState, is not the scheduler's: it is AWAKE from the beginning   *)
(* of INIT on, although cnlState is still CLOSE, and in deep sleep from the *)
(* change to CLOSE on, although cnlState is not yet.  COMP_INIT and         *)
(* COMP_CLOSE never meet.                                                   *)
(****************************************************************************)
Pending == irq \cup ev \cup {act.arg}

OpenAwake ==
  main # "CLOSE" /\ pwr = "AWAKE" /\ ~(pc = "commit" /\ act.arg = "COMP_CLOSE") => pmu = "AWAKE"

Opening ==
  /\ "SLEEPTOAWAKE" \in en => main = "CLOSE" /\ pmu = "AWAKE" /\ pc \notin {"commit", "reset"}
  /\ main = "CLOSE" /\ pc # "reset" /\ "COMP_INIT" \in Pending => pmu = "AWAKE"
  /\ main = "CLOSE" /\ pc = "reset" => "COMP_INIT" \notin irq
  /\ main # "CLOSE" /\ pc # "reset" /\ "COMP_INIT" \in irq => "COMP_CLOSE" \notin Pending
  /\ "COMP_INIT" \in irq => "COMP_CLOSE" \notin irq

UseInv == OpenAwake /\ Opening

\* The other parties: COMP_INIT comes of a source that only opening enables.
LEMMA OthersUse ==
  ASSUME IInv, UseInv,
         (\E c \in Callers : Caller(c)) \/ DataCaller \/ UNCHANGED vars \/ Chip \/ Interrupt
  PROVE  UseInv'
<1>1. CASE (\E c \in Callers : Caller(c)) \/ DataCaller \/ UNCHANGED vars
  BY <1>1, CallersMove DEF CallersLeave, UseInv, OpenAwake, Opening, Pending
<1>2. CASE Chip
  BY <1>2, ChipMoves DEF ChipLatches, UseInv, OpenAwake, Opening, Pending
<1>3. CASE Interrupt
  <2>1. HandlerMoves
    BY <1>3, InterruptMoves
  <2>2. OpenAwake'
    BY <2>1 DEF HandlerMoves, UseInv, OpenAwake
  <2>3. CASE ev' = ev \cup irq /\ irq' = {} /\ UNCHANGED <<en, sta>>
    BY <2>1, <2>2, <2>3 DEF HandlerMoves, UseInv, Opening, Pending
  <2>4. CASE irq = {} /\ irq' = {"WAKE_REQUIRED"} /\ UNCHANGED <<ev, en, sta>>
    BY <2>1, <2>2, <2>4 DEF HandlerMoves, UseInv, Opening, Pending
  <2>5. ASSUME NEW bits \in SUBSET en, irq = {}, en' = en \ bits, irq' = IntToEvent(bits),
               UNCHANGED ev
        PROVE  UseInv'
    <3>1. bits \in SUBSET Sources
      BY DEF IInv, TypeOK, ChipTypeOK
    <3>2. /\ "COMP_INIT" \in irq' => "SLEEPTOAWAKE" \in en
          /\ "COMP_INIT" \in irq' => "COMP_CLOSE" \notin irq'
      BY <2>5, <3>1, IntMeans
    <3> QED
      BY <2>1, <2>2, <2>5, <3>2 DEF HandlerMoves, UseInv, Opening, Pending
  <2> QED
    BY <2>1, <2>3, <2>4, <2>5 DEF HandlerMoves
<1> QED
  BY <1>1, <1>2, <1>3

\* The task choosing its next action moves completions, and adds none.
LEMMA ScheduleUses ==
  ASSUME IInv, UseInv, Schedule
  PROVE  UseInv'
<1>1. Steering
  BY ScheduleMoves
<1>2. {"COMP_INIT", "COMP_CLOSE"} \subseteq CompReqs
  BY DEF CompReqs
<1> QED
  BY <1>1, <1>2 DEF Steering, UseInv, OpenAwake, Opening, Pending

(****************************************************************************)
(* What the actions of the task move.                                       *)
(****************************************************************************)
\* No action adds a completion that the chip reports, or a C-Req: it keeps the argument
\* in hand or drops it.
Performing ==
  /\ UNCHANGED irq
  /\ \A e \in {"COMP_INIT", "COMP_CLOSE", "COMP_WAKE", "C_REQ"} : e \in ev' => e \in ev
  /\ act' = act \/ act'.arg \in {"", "COMP_NULL"}

\* Every action that is performed leaves events to the handler, and its own completion
\* to none.
LEMMA ExecutePerforms ==
  ASSUME IInv, Execute
  PROVE  Performing
<1>0. act \in ActionObject
  BY DEF IInv, TypeOK, TaskTypeOK
<1>1. UNCHANGED irq
  BY DEF Execute, ActionInit, ActionClose, ActionWake, ActionSleep, ActionSendMngFrame,
     ActionSendData, ActionReceiveData, ActionFails, InitFails, CloseFails, WakeFails,
     SendMngFrameFails, SendDataFails, WaitConnect, CancelWaitConnect, HandleFinished,
     HandleStateChange, CommitState, ResetClosed, ResetReleased, HandleError, ChangeChip,
     ChangeFails, evVars
<1>2. act' = act \/ act'.arg \in {"", "COMP_NULL"}
  <2>1. /\ Nop.arg = "" /\ Complete(act.req).arg = "COMP_NULL"
        /\ [act EXCEPT !.op = "HANDLE_ERROR", !.arg = ""].arg = ""
    BY <1>0 DEF Nop, Complete, Action, ActionObject
  <2>2. \/ act' = act \/ act' = Nop \/ act' = Complete(act.req)
        \/ act' = [act EXCEPT !.op = "HANDLE_ERROR", !.arg = ""]
    BY DEF Execute, ActionInit, ActionClose, ActionWake, ActionSleep, ActionSendMngFrame,
       ActionSendData, ActionReceiveData, ActionFails, InitFails, CloseFails, WakeFails,
       SendMngFrameFails, SendDataFails, WaitConnect, CancelWaitConnect, HandleFinished,
       HandleStateChange, CommitState, ResetClosed, ResetReleased, HandleError, Failed,
       Succeeded, Done, Finish, AnswerNow
  <2> QED
    BY <2>1, <2>2
<1>3. ASSUME NEW e \in {"COMP_INIT", "COMP_CLOSE", "COMP_WAKE", "C_REQ"}, e \in ev'
      PROVE  e \in ev
  <2>1. CASE ActionSendMngFrame
    <3>1. act.arg \in Frames
      BY <2>1, InHand DEF ActionSendMngFrame, Doing, Fits, ChipFits
    <3>2. e \notin FrameCompletion[act.arg]
      BY <3>1 DEF FrameCompletion, Frames
    <3> QED
      BY <1>3, <2>1, <3>2 DEF ActionSendMngFrame
  <2>2. CASE ActionReceiveData
    BY <1>3, <2>2 DEF ActionReceiveData, ReceiveDataIntUnmask
  <2>3. CASE ActionClose \/ CloseFails \/ HandleStateChange
    <3>1. ASSUME NEW n, NEW ns, ChangeEvents(n, ns)
          PROVE  e \in ev
      BY <1>3, <3>1 DEF ChangeEvents
    <3>2. ASSUME NEW n, NEW ns, ChangeFails(n, ns)
          PROVE  e \in ev
      BY <1>3, <3>2 DEF ChangeFails
    <3> QED
      BY <1>3, <2>3, <3>1, <3>2 DEF ActionClose, CloseFails, HandleStateChange, ChangeChip, evVars
  <2>4. CASE ActionSleep \/ ResetClosed \/ ResetReleased
    BY <1>3, <2>4 DEF ActionSleep, ResetClosed, ResetReleased
  <2>5. CASE /\ ~ActionSendMngFrame /\ ~ActionReceiveData /\ ~ActionClose /\ ~CloseFails
             /\ ~HandleStateChange /\ ~ActionSleep /\ ~ResetClosed /\ ~ResetReleased
    <3>1. UNCHANGED ev
      BY <2>5 DEF Execute, ActionInit, ActionWake, ActionSendData, ActionFails, InitFails,
         WakeFails, SendMngFrameFails, SendDataFails, WaitConnect, CancelWaitConnect,
         HandleFinished, CommitState, HandleError, evVars
    <3> QED
      BY <1>3, <3>1
  <2> QED
    BY <2>1, <2>2, <2>3, <2>4, <2>5
<1> QED
  BY <1>1, <1>2, <1>3 DEF Performing

\* Who unmasks the sources of power: opening, closing and waking.
LEMMA ExecuteMasks ==
  ASSUME IInv, Execute
  PROVE  /\ "SLEEPTOAWAKE" \in en' => "SLEEPTOAWAKE" \in en \/ ActionInit
         /\ "AWAKETOSLEEP" \in en' => "AWAKETOSLEEP" \in en \/ ActionClose
         /\ "AWAKEPRIOD" \in en'
              => "AWAKEPRIOD" \in en \/ ActionInit \/ ActionWake \/ WakeFails
         /\ pc \in {"do", "commit"} /\ pc' \in {"commit", "reset"}
              => en' \cap PhyInts = {} \/ en' = en
<1>0. PhyInts = {"AWAKEPRIOD", "SLEEPTOAWAKE", "AWAKETOSLEEP"}
  BY DEF PhyInts
<1>1. CASE ActionInit \/ ActionClose \/ ActionWake \/ WakeFails
  <2>1. NewInten(main, "SEARCH", "NULL", en) \cap PhyInts = {}
    BY MasksOfStates DEF MainStates
  <2>2. pc' \in {"do", "sched"}
    BY <1>1 DEF ActionInit, ActionClose, ActionWake, WakeFails, Succeeded, Done, Failed, Doing
  <2>3. CASE ActionClose
    BY <1>0, <2>1, <2>2, <2>3 DEF ActionClose
  <2>4. CASE ActionInit \/ ActionWake \/ WakeFails
    <3>1. en' \subseteq en \cup {"SLEEPTOAWAKE", "AWAKEPRIOD"}
          /\ (~ActionInit => en' \subseteq en \cup {"AWAKEPRIOD"})
      BY <2>4 DEF ActionInit, ActionWake, WakeFails
    <3> QED
      BY <2>2, <2>4, <3>1
  <2> QED
    BY <1>1, <2>3, <2>4
<1>2. CASE HandleStateChange
  <2>0. \/ UNCHANGED chipVars /\ pc' = "sched"
        \/ ChangeChip(Target(act)[1], Target(act)[2])
        \/ ChangeFails(Target(act)[1], Target(act)[2]) /\ pc' = "do"
    BY <1>2 DEF HandleStateChange, Finish, Done, Failed, Doing
  <2>1. Target(act)[1] \in MainStates
    BY <1>2, TargetInHand DEF HandleStateChange, Doing
  <2>2. NewInten(main, Target(act)[1], Target(act)[2], en) \cap PhyInts = {}
    BY <2>1, MasksOfStates
  <2>3. \/ en' = en
        \/ en' = NewInten(main, Target(act)[1], Target(act)[2], en)
        \/ en' = {}
    BY <2>0 DEF ChangeChip, ChangeFails, chipVars
  <2> QED
    BY <1>0, <2>2, <2>3
<1>3. CASE CloseFails
  <2>1. NewInten(main, "SEARCH", "NULL", en) \cap PhyInts = {}
    BY MasksOfStates DEF MainStates
  <2>2. en' = en \/ en' = NewInten(main, "SEARCH", "NULL", en) \/ en' = {}
    BY <1>3 DEF CloseFails, ChangeFails
  <2>3. pc' = "do"
    BY <1>3 DEF CloseFails, Failed, Doing
  <2> QED
    BY <1>0, <2>1, <2>2, <2>3
<1>4. CASE /\ ~ActionInit /\ ~ActionClose /\ ~ActionWake /\ ~WakeFails
           /\ ~HandleStateChange /\ ~CloseFails
  <2>1. CASE ActionSendMngFrame
    <3>1. act.arg \in Frames
      BY <2>1, InHand DEF ActionSendMngFrame, Doing, Fits, ChipFits
    <3>2. FrameUnmask[act.arg] \cap PhyInts = {}
      BY <1>0, <3>1 DEF FrameUnmask, Frames
    <3>3. pc' = "sched" /\ en' = en \cup FrameUnmask[act.arg]
      BY <2>1 DEF ActionSendMngFrame, Succeeded, Done
    <3> QED
      BY <1>0, <3>2, <3>3
  <2>2. CASE ActionSendData \/ ActionReceiveData \/ WaitConnect \/ CancelWaitConnect
    <3>1. en' \subseteq en \cup {"TXDFRAME", "TXBANKEMPT", "RXBANKNOTEMPT", "CREQRCV"}
      BY <2>2 DEF ActionSendData, ActionReceiveData, ReceiveDataIntUnmask, WaitConnect,
         CancelWaitConnect
    <3>2. pc' \in {"do", "sched"}
      BY <2>2 DEF ActionSendData, ActionReceiveData, WaitConnect, CancelWaitConnect, AnswerNow,
         Succeeded, Done, Doing
    <3> QED
      BY <3>1, <3>2
  <2>3. CASE /\ ~ActionSendMngFrame /\ ~ActionSendData /\ ~ActionReceiveData
             /\ ~WaitConnect /\ ~CancelWaitConnect
    <3>1. en' = en
      BY <1>4, <2>3 DEF Execute, ActionSleep, ActionFails, InitFails, SendMngFrameFails,
         SendDataFails, HandleFinished, CommitState, ResetClosed, ResetReleased, HandleError,
         chipVars
    <3> QED
      BY <3>1
  <2> QED
    BY <2>1, <2>2, <2>3
<1> QED
  BY <1>1, <1>2, <1>3, <1>4

\* And who changes pmuState, cnlState and the power state to awake.
LEMMA ExecuteDrives ==
  ASSUME IInv, Execute
  PROVE  /\ \/ pmu' = pmu \/ pmu' = "AWAKE"
            \/ ActionSleep
            \/ HandleStateChange /\ pc' = "commit" /\ Target(act)[1] = "CLOSE"
         /\ UNCHANGED main \/ CommitState
         /\ pwr' = "AWAKE" => \/ pwr = "AWAKE"
                              \/ HandleFinished /\ act.arg = "COMP_WAKE"
         /\ pc' = "commit" => HandleStateChange /\ act' = act
         /\ pc' = "reset" => CommitState /\ act' = act
<1>1. \/ pmu' = pmu \/ pmu' = "AWAKE" \/ ActionSleep
      \/ HandleStateChange /\ pc' = "commit" /\ Target(act)[1] = "CLOSE"
  <2>1. CASE HandleStateChange
    BY <2>1 DEF HandleStateChange, ChangeChip, ChangeFails, chipVars
  <2>2. CASE CloseFails
    BY <2>2 DEF CloseFails, ChangeFails
  <2>3. CASE ~HandleStateChange /\ ~CloseFails /\ ~ActionSleep
    BY <2>3 DEF Execute, ActionInit, ActionClose, ActionWake, ActionSendMngFrame,
       ActionSendData, ActionReceiveData, ActionFails, InitFails, WakeFails,
       SendMngFrameFails, SendDataFails, WaitConnect, CancelWaitConnect, HandleFinished,
       CommitState, ResetClosed, ResetReleased, HandleError, chipVars
  <2> QED
    BY <2>1, <2>2, <2>3
<1>2. UNCHANGED main \/ CommitState
  BY DEF Execute, ActionInit, ActionClose, ActionWake, ActionSleep, ActionSendMngFrame,
     ActionSendData, ActionReceiveData, ActionFails, InitFails, CloseFails, WakeFails,
     SendMngFrameFails, SendDataFails, WaitConnect, CancelWaitConnect, HandleFinished,
     HandleStateChange, ResetClosed, ResetReleased, HandleError, devVars
<1>3. pwr' = "AWAKE" => \/ pwr = "AWAKE"
                        \/ HandleFinished /\ act.arg = "COMP_WAKE"
  <2>1. CASE ResetClosed \/ ResetReleased
    BY <2>1 DEF ResetClosed, ResetReleased, IInv, StateInv
  <2>2. CASE HandleFinished
    BY <2>2 DEF HandleFinished, Finished
  <2>3. CASE ActionWake \/ ActionSleep
    BY <2>3 DEF ActionWake, ActionSleep
  <2>4. CASE /\ ~ResetClosed /\ ~ResetReleased /\ ~HandleFinished /\ ~ActionWake
             /\ ~ActionSleep
    BY <2>4 DEF Execute, ActionInit, ActionClose, ActionSendMngFrame,
       ActionSendData, ActionReceiveData, ActionFails, InitFails, CloseFails, WakeFails,
       SendMngFrameFails, SendDataFails, WaitConnect, CancelWaitConnect,
       HandleStateChange, CommitState, HandleError, devVars
  <2> QED
    BY <2>1, <2>2, <2>3, <2>4
<1>4. /\ pc' = "commit" => HandleStateChange /\ act' = act
      /\ pc' = "reset" => CommitState /\ act' = act
  <2>1. CASE HandleStateChange
    BY <2>1 DEF HandleStateChange, Finish, Done, Failed, Doing
  <2>2. CASE CommitState
    BY <2>2 DEF CommitState, Finish, Done
  <2>3. CASE ~HandleStateChange /\ ~CommitState
    BY <2>3 DEF Execute, ActionInit, ActionClose, ActionWake, ActionSleep, ActionSendMngFrame,
       ActionSendData, ActionReceiveData, ActionFails, InitFails, CloseFails, WakeFails,
       SendMngFrameFails, SendDataFails, WaitConnect, CancelWaitConnect, HandleFinished,
       ResetClosed, ResetReleased, HandleError, Finish, Failed, Succeeded, Done, AnswerNow, Doing
  <2> QED
    BY <2>1, <2>2, <2>3
<1> QED
  BY <1>1, <1>2, <1>3, <1>4

\* Where a state is left behind: a commit takes it to its target, the device is
\* closed or released in two steps, and afterwards nothing is in hand.
LEMMA CommitsTarget ==
  ASSUME IInv, CommitState
  PROVE  /\ main' = Target(act)[1] /\ sub' = Target(act)[2] /\ pc = "commit"
         /\ Leads(main', sub') /\ pwr = "AWAKE" /\ act.arg \in ChangeArgs
         /\ pc' = IF main' \in {"SEARCH", "CLOSE"} THEN "reset" ELSE "sched"
         /\ act' = IF main' \in {"SEARCH", "CLOSE"} THEN act ELSE Nop
         /\ UNCHANGED <<pwr, proc, flags, ev, irq, en, pmu, sta, phy, bank>>
BY TargetLeads DEF CommitState, Finish, Done, evVars, chipVars, IInv, TaskInv

\* An action that is performed: the chip goes to sleep, wakes, opens and closes in
\* step.
LEMMA ExecuteUses ==
  ASSUME IInv, WakeInv, UseInv, Execute
  PROVE  UseInv'
<1>0. Performing /\ Executing /\ pc \in {"do", "commit", "reset"}
  BY ExecutePerforms, ExecutesInHand DEF Executing
<1>1. Pending' \cap {"COMP_INIT", "COMP_CLOSE"} \subseteq Pending
  BY <1>0 DEF Performing, Pending
<1>2. CASE CommitState
  <2>1. /\ pc = "commit"
        /\ Leads(main', sub')
        /\ main' \in {"SEARCH", "CLOSE"} => act' = act
        /\ pc' = IF main' \in {"SEARCH", "CLOSE"} THEN "reset" ELSE "sched"
        /\ UNCHANGED <<pwr, en, pmu, ev, irq>>
    BY <1>2, CommitsTarget
  <2>2. main' # "CLOSE" => act.arg # "COMP_CLOSE"
    BY <2>1 DEF Leads
  <2>3. OpenAwake'
    <3>1. main' # "CLOSE" /\ main # "CLOSE" /\ pwr = "AWAKE" => pmu = "AWAKE"
      BY <2>2 DEF UseInv, OpenAwake
    <3>2. main' # "CLOSE" /\ main = "CLOSE" => pmu = "AWAKE"
      BY <2>1 DEF Leads, UseInv, Opening, Pending
    <3> QED
      BY <2>1, <3>1, <3>2 DEF OpenAwake
  <2>4. main' = "CLOSE" => main # "CLOSE" /\ "COMP_CLOSE" \in Pending /\ pc' = "reset"
    BY <2>1 DEF Leads, Pending
  <2>5. main' # "CLOSE" /\ pc' # "reset" => main # "CLOSE"
    BY <2>1 DEF Leads
  <2> QED
    BY <1>1, <2>1, <2>3, <2>4, <2>5 DEF UseInv, Opening
<1>3. CASE ~CommitState
  <2>1. main' = main
    BY <1>3, ExecuteDrives
  <2>2. OpenAwake'
    <3>1. CASE HandleStateChange /\ pc' = "commit" /\ Target(act)[1] = "CLOSE"
      <4>1. Leads(Target(act)[1], Target(act)[2])
        BY <3>1, TargetLeads DEF HandleStateChange, Doing
      <4>2. act' = act
        BY <3>1, ExecuteDrives
      <4> QED
        BY <3>1, <4>1, <4>2 DEF Leads, OpenAwake
    <3>2. CASE ActionSleep
      BY <3>2 DEF ActionSleep, OpenAwake
    <3>3. CASE pmu' = pmu \/ pmu' = "AWAKE"
      <4>1. SUFFICES ASSUME main # "CLOSE", pwr' = "AWAKE",
                            ~(pc' = "commit" /\ act'.arg = "COMP_CLOSE")
                     PROVE  pmu = "AWAKE"
        BY <2>1, <3>3 DEF OpenAwake
      <4>2. CASE pwr # "AWAKE"
        <5>1. HandleFinished /\ act.arg = "COMP_WAKE"
          BY <4>1, <4>2, ExecuteDrives
        <5>2. pwr = "HIBERNATE_TO_AWAKE"
          <6>1. Fits(act) /\ act.op = "HANDLE_COMPLETE"
            BY <5>1, InHand DEF HandleFinished, Doing
          <6>2. pwr \notin {"HIBERNATE", "AWAKE_TO_HIBERNATE"}
            BY <5>1, <6>1 DEF Fits, CompFits
          <6> QED
            BY <4>2, <6>2 DEF IInv, TypeOK, DevTypeOK, Transitional
        <5> QED
          BY <5>2 DEF WakeInv, Waking
      <4>3. CASE pwr = "AWAKE" /\ pc = "commit"
        BY <1>0, <1>3, <4>3 DEF Execute, ActionInit, ActionClose, ActionWake, ActionSleep,
           ActionSendMngFrame, ActionSendData, ActionReceiveData, ActionFails, InitFails,
           CloseFails, WakeFails, SendMngFrameFails, SendDataFails, WaitConnect,
           CancelWaitConnect, HandleFinished, HandleStateChange, ResetClosed, ResetReleased,
           HandleError, Doing
      <4>4. CASE pwr = "AWAKE" /\ pc # "commit"
        BY <4>1, <4>4 DEF UseInv, OpenAwake
      <4> QED
        BY <4>2, <4>3, <4>4
    <3> QED
      BY <3>1, <3>2, <3>3, ExecuteDrives
  <2>3. Opening'
    <3>1. "SLEEPTOAWAKE" \in en' => main = "CLOSE" /\ pmu' = "AWAKE" /\ pc' \notin {"commit", "reset"}
      <4>1. CASE ActionInit
        <5>1. main = "CLOSE"
          BY <4>1, InHand DEF ActionInit, Doing, Fits, ChipFits, OpenFits
        <5> QED
          BY <4>1, <5>1 DEF ActionInit, Succeeded, Done
      <4>2. CASE ~ActionInit /\ "SLEEPTOAWAKE" \in en'
        <5>1. "SLEEPTOAWAKE" \in en /\ main = "CLOSE" /\ pmu = "AWAKE" /\ pc = "do"
          BY <1>0, <4>2, ExecuteMasks DEF UseInv, Opening
        <5>2. ~ActionSleep
          BY <5>1, InHand DEF ActionSleep, Doing, Fits, ChipFits, IInv, StateInv, IsConnected
        <5>3. en' \cap PhyInts # {}
          BY <4>2 DEF PhyInts
        <5>4. pc' \notin {"commit", "reset"}
          <6>1. CASE pc' = "reset"
            BY <1>3, <6>1, ExecuteDrives
          <6>2. CASE pc' = "commit"
            <7>1. HandleStateChange /\ pc = "do"
              BY <5>1, <6>2, ExecuteDrives
            <7>2. Target(act)[1] \in MainStates
              BY <7>1, TargetInHand DEF HandleStateChange, Doing
            <7>3. en' = NewInten(main, Target(act)[1], Target(act)[2], en)
              BY <6>2, <7>1 DEF HandleStateChange, Finish, Done, Failed, ChangeChip
            <7> QED
              BY <5>3, <7>2, <7>3, MasksOfStates
          <6> QED
            BY <6>1, <6>2
        <5> QED
          BY <5>1, <5>2, <5>4, ExecuteDrives
      <4> QED
        BY <4>1, <4>2
    <3>2. main = "CLOSE" /\ pc' # "reset" /\ "COMP_INIT" \in Pending' => pmu' = "AWAKE"
      <4>1. SUFFICES ASSUME main = "CLOSE", pc' # "reset", "COMP_INIT" \in Pending'
                     PROVE  pmu' = "AWAKE"
        OBVIOUS
      <4>2. CASE pc = "reset"
        <5>1. ResetClosed
          BY <1>3, <4>1, <4>2 DEF Execute, ActionInit, ActionClose, ActionWake, ActionSleep,
             ActionSendMngFrame, ActionSendData, ActionReceiveData, ActionFails, InitFails,
             CloseFails, WakeFails, SendMngFrameFails, SendDataFails, WaitConnect,
             CancelWaitConnect, HandleFinished, HandleStateChange, ResetReleased,
             HandleError, Doing
        <5>2. ev' = {} /\ act'.arg = "" /\ irq' = irq
          BY <5>1, ArgsOf DEF ResetClosed, Finish, Done
        <5> QED
          BY <4>1, <4>2, <5>2 DEF UseInv, Opening, Pending
      <4>3. CASE pc # "reset"
        <5>1. pmu = "AWAKE"
          BY <1>1, <4>1, <4>3 DEF UseInv, Opening
        <5>2. ~ActionSleep
          BY <4>1, InHand DEF ActionSleep, Doing, Fits, ChipFits, IInv, StateInv, IsConnected
        <5>3. HandleStateChange => Target(act)[1] # "CLOSE"
          BY <4>1, TargetLeads DEF HandleStateChange, Doing, Leads
        <5> QED
          BY <5>1, <5>2, <5>3, ExecuteDrives
      <4> QED
        BY <4>2, <4>3
    <3>3. main = "CLOSE" /\ pc' = "reset" => "COMP_INIT" \notin irq'
      BY <1>3, ExecuteDrives
    <3>4. main # "CLOSE" /\ pc' # "reset" /\ "COMP_INIT" \in irq' => "COMP_CLOSE" \notin Pending'
      <4>1. CASE pc = "reset" /\ main # "CLOSE"
        <5>1. ResetReleased
          BY <1>3, <4>1 DEF Execute, ActionInit, ActionClose, ActionWake, ActionSleep,
             ActionSendMngFrame, ActionSendData, ActionReceiveData, ActionFails, InitFails,
             CloseFails, WakeFails, SendMngFrameFails, SendDataFails, WaitConnect,
             CancelWaitConnect, HandleFinished, HandleStateChange, ResetClosed,
             HandleError, Doing
        <5>2. "COMP_CLOSE" \notin ev' /\ act'.arg = "" /\ irq' = irq
          BY <1>0, <5>1, ArgsOf DEF ResetReleased, Done, Performing
        <5> QED
          BY <5>2 DEF UseInv, Opening, Pending
      <4>2. CASE pc # "reset"
        BY <1>0, <1>1, <4>2 DEF UseInv, Opening, Performing
      <4> QED
        BY <4>1, <4>2
    <3>5. "COMP_INIT" \in irq' => "COMP_CLOSE" \notin irq'
      BY <1>0 DEF UseInv, Opening, Performing
    <3> QED
      BY <2>1, <3>1, <3>2, <3>3, <3>4, <3>5 DEF Opening
  <2> QED
    BY <2>2, <2>3 DEF UseInv
<1> QED
  BY <1>2, <1>3

\* The chip is awake in the driver's eyes from the beginning of INIT to the end of CLOSE.
THEOREM AwakeWhileOpen == Spec => []UseInv
<1>1. Init => UseInv
  BY ArgsOf DEF Init, UseInv, OpenAwake, Opening, Pending
<1>2. IInv /\ WakeInv /\ UseInv /\ [Next]_vars => UseInv'
  BY OthersUse, ScheduleUses, ExecuteUses DEF Next, Task
<1> QED
  BY <1>1, <1>2, Inductive, WakingReported, PTL DEF Spec

\* Frames and data move, and the chip changes state, only while scheduler and driver
\* agree that the chip is awake, whatever fails on the way (cnl_task.c, cnl_izan.c).
THEOREM AwakeWhenUsed == Spec => []ChipAwakeWhenUsed
<1>1. ASSUME IInv, UseInv
      PROVE  ChipAwakeWhenUsed
  <2>1. SUFFICES ASSUME \/ pc = "read"
                        \/ pc = "do" /\ act.op \in ChipOps /\ act.arg \notin Finished
                 PROVE  pmu = "AWAKE" /\ pwr = "AWAKE"
    BY DEF ChipAwakeWhenUsed
  <2>2. CASE pc = "read"
    <3>1. act.arg \in Frames /\ FrameValid(act.arg) /\ pwr = "AWAKE"
      BY <1>1, <2>2 DEF IInv, TaskInv, Fits, FrameFits
    <3>2. main # "CLOSE"
      BY <3>1 DEF Frames, FrameValid, IsConnected
    <3> QED
      BY <1>1, <2>2, <3>1, <3>2 DEF UseInv, OpenAwake
  <2>3. CASE pc = "do" /\ act.op \in StateOps /\ act.arg \notin Finished
    <3>1. Leads(Target(act)[1], Target(act)[2]) /\ pwr = "AWAKE"
      BY <1>1, <2>3, TargetLeads
    <3> QED
      BY <1>1, <2>3, <3>1 DEF Leads, UseInv, OpenAwake, Opening, Pending
  <2>4. CASE pc = "do" /\ act.op \in ChipOps \ StateOps
    <3>1. main # "CLOSE" /\ pwr = "AWAKE"
      BY <1>1, <2>4, InHand DEF ChipOps, Fits, ChipFits, OpenFits, IInv, StateInv, IsConnected
    <3> QED
      BY <1>1, <2>4, <3>1 DEF UseInv, OpenAwake
  <2> QED
    BY <2>1, <2>2, <2>3, <2>4
<1> QED
  BY <1>1, Inductive, AwakeWhileOpen, PTL

(****************************************************************************)
(* The transmit banks.  They are emptied when the link is given up, by the  *)
(* change of state to SEARCH or, when the device is closed, already by      *)
(* CLOSE, which takes the chip there before cnlState changes.  What is sent *)
(* after that stays in them: the change from SEARCH to CLOSE clears none.   *)
(****************************************************************************)
\* CLOSE is under way in the chip.
Closing == "AWAKETOSLEEP" \in en \/ "COMP_CLOSE" \in Pending

\* Nothing is sent then.  procAction sees to it, unless the completion of another
\* exchange resets it in between.
SendsNotWhileClosing == pc = "do" /\ act.op = "SEND_DATA" => ~Closing

Sends == ActionSendData \/ SendDataFails

EmptyInv ==
  /\ Closing => bank = 0
  /\ ~IsConnected(main) /\ pc # "reset" => data.txRun = 0 /\ bank = 0
  /\ pc = "commit" /\ Target(act)[1] \in {"SEARCH", "CLOSE"} => bank = 0
  /\ pc = "reset" => bank = 0

\* What the scheduler does to the counters: to send is to count the free banks first.
LEMMA ScheduleCounts ==
  ASSUME IInv, Schedule
  PROVE  /\ data'.txRun = data.txRun /\ data'.sending = data.sending /\ UNCHANGED bank
         /\ pc' = "do" /\ act'.op = "SEND_DATA" => /\ data'.ready = TxCsduNum - bank
                                                   /\ bank > 0 => "TXDFRAME" \in en'
<1>0. data \in DataCounters
  BY DEF IInv, TypeOK, DataTypeOK
<1>1. ReadReadyBuffer => /\ data'.txRun = data.txRun /\ data'.sending = data.sending
                         /\ data'.ready = TxCsduNum - bank
                         /\ bank > 0 => "TXDFRAME" \in en'
  <2> SUFFICES ASSUME ReadReadyBuffer
               PROVE  /\ data'.txRun = data.txRun /\ data'.sending = data.sending
                      /\ data'.ready = TxCsduNum - bank
                      /\ bank > 0 => "TXDFRAME" \in en'
    OBVIOUS
  <2>1. data' = [data EXCEPT !.ready = TxCsduNum - bank]
    BY DEF ReadReadyBuffer
  <2>2. bank > 0 => "TXDFRAME" \in en'
    BY DEF ReadReadyBuffer
  <2> QED
    BY <1>0, <2>1, <2>2, Zenon DEF DataCounters
<1>2. CASE CheckRequests
  <2>1. PICK o \in CtrlOutcomes :
          LET a == FirstOf(o.act, FirstOf(RxRequest, FirstOf(TxRequest, SleepReady)))
          IN \/ /\ a # Nop /\ Take(a, o.status)
                /\ IF a.op = "SEND_DATA" THEN ReadReadyBuffer ELSE UNCHANGED <<data, en>>
                /\ UNCHANGED bounds
             \/ /\ \/ a.op = "SEND_DATA"
                   \/ o.act = Nop /\ IsConnected(main) /\ "rxReady" \in flags
                /\ Take(Err, "NONE")
                /\ DeviceFault
                /\ UNCHANGED <<data, en>>
             \/ /\ a = Nop
                /\ act' = Nop
                /\ pc' = IF ev = {} THEN "wait" ELSE "sched"
                /\ UNCHANGED <<queue, req, data, en, bounds>>
    BY <1>2, Zenon DEF CheckRequests
  <2> DEFINE a == FirstOf(o.act, FirstOf(RxRequest, FirstOf(TxRequest, SleepReady)))
  <2>4. \/ act' = a /\ IF a.op = "SEND_DATA" THEN ReadReadyBuffer ELSE UNCHANGED <<data, en>>
        \/ act' \in {Err, Nop} /\ UNCHANGED <<data, en>>
    <3> HIDE DEF a
    <3>1. ASSUME NEW b, NEW s, Take(b, s)
          PROVE  act' = b
      BY <3>1 DEF Take
    <3>2. \/ /\ a # Nop /\ Take(a, o.status)
             /\ IF a.op = "SEND_DATA" THEN ReadReadyBuffer ELSE UNCHANGED <<data, en>>
          \/ Take(Err, "NONE") /\ UNCHANGED <<data, en>>
          \/ act' = Nop /\ UNCHANGED <<data, en>>
      BY <2>1, Zenon DEF a
    <3> QED
      BY <3>1, <3>2
  <2>2. Err.op # "SEND_DATA" /\ Nop.op # "SEND_DATA"
    BY DEF Err, Nop, Action
  <2>3. UNCHANGED bank
    BY <1>2 DEF CheckRequests
  <2> HIDE DEF a
  <2> QED
    BY <1>1, <2>2, <2>3, <2>4
<1>3. CASE ~CheckRequests
  <2>1. UNCHANGED <<data, bank>>
    BY <1>3 DEF Schedule, TaskWait, CheckInitClose, CheckEvent, ReadMngBody, chipVars
  <2>2. ~(pc' = "do" /\ act'.op = "SEND_DATA")
    <3>1. CASE TaskWait
      BY <3>1 DEF TaskWait
    <3>2. CASE CheckInitClose
      <4>1. \/ pc' = "event" \/ act' = Complete(ctrlQ) \/ act' = Wake
            \/ act' = Action("INIT", "", ctrlQ) \/ act' = Action("CLOSE", "", ctrlQ)
        BY <3>2 DEF CheckInitClose, Take
      <4>2. \A op : Action(op, "", ctrlQ).op = op
        BY DEF Action
      <4>3. Complete(ctrlQ).op = "HANDLE_COMPLETE" /\ Wake.op = "WAKE"
        BY DEF Complete, Wake, Action
      <4> QED
        BY <4>1, <4>2, <4>3
    <3>3. CASE CheckEvent
      BY <3>3, EventOp DEF RequestOps, DataOps
    <3>4. CASE ReadMngBody
      <4>1. act.op \in {"HANDLE_MNG_FRAME", "SKIP_MNG_FRAME"} /\ Err.op # "SEND_DATA"
        BY <3>4 DEF ReadMngBody, IInv, TaskInv, Err, Action
      <4>2. NoAction(ev \ {act.arg}, flags) => act'.op # "SEND_DATA"
        BY NoActionOp DEF RequestOps, DataOps
      <4> QED
        BY <3>4, <4>1, <4>2 DEF ReadMngBody, Handle, Take
    <3> QED
      BY <1>3, <3>1, <3>2, <3>3, <3>4 DEF Schedule
  <2> QED
    BY <2>1, <2>2
<1> QED
  BY <1>2, <1>3

\* Nothing but the sending of data fills a bank or adds to what is being sent.
LEMMA ExecuteEmpties ==
  ASSUME IInv, Execute, ~Sends
  PROVE  /\ bank' \in {0, bank} /\ data'.txRun \in {0, data.txRun}
         /\ \/ data'.sending = data.sending
            \/ pc = "reset" /\ data'.sending = 0 /\ bank' = bank
<1>0. data \in DataCounters
  BY DEF IInv, TypeOK, DataTypeOK
<1>1. bank' \in {0, bank}
  <2>1. CASE ActionClose \/ CloseFails \/ HandleStateChange
    BY <2>1 DEF ActionClose, CloseFails, HandleStateChange, ChangeChip, ChangeFails,
       ChangeTransmission, chipVars
  <2>2. CASE ~ActionClose /\ ~CloseFails /\ ~HandleStateChange
    BY <2>2 DEF Sends, Execute, ActionInit, ActionWake, ActionSleep, ActionSendMngFrame,
       ActionReceiveData, ActionFails, InitFails, WakeFails, SendMngFrameFails, WaitConnect,
       CancelWaitConnect, HandleFinished, CommitState, ResetClosed, ResetReleased, HandleError,
       chipVars
  <2> QED
    BY <2>1, <2>2
<1>2. CASE ResetClosed \/ ResetReleased
  <2>1. data' = NoData /\ pc = "reset" /\ bank' = bank
    BY <1>2 DEF ResetClosed, ResetReleased, chipVars
  <2>2. data'.txRun = 0 /\ data'.sending = 0
    BY <1>0, <2>1 DEF NoData, DataCounters
  <2> QED
    BY <1>1, <2>1, <2>2
<1>3. CASE HandleError
  <2>1. data' = [data EXCEPT !.txNew = 0, !.txRun = 0, !.rx = 0]
    BY <1>3 DEF HandleError
  <2>2. data'.txRun = 0 /\ data'.sending = data.sending
    BY <1>0, <2>1 DEF DataCounters
  <2> QED
    BY <1>1, <2>2
<1>4. CASE ActionReceiveData
  <2>1. data' = [data EXCEPT !.rx = @ - 1]
    BY <1>4 DEF ActionReceiveData
  <2>2. data'.txRun = data.txRun /\ data'.sending = data.sending
    BY <1>0, <2>1 DEF DataCounters
  <2> QED
    BY <1>1, <2>2
<1>5. CASE ~ResetClosed /\ ~ResetReleased /\ ~HandleError /\ ~ActionReceiveData
  <2>1. UNCHANGED data
    BY <1>5 DEF Sends, Execute, ActionInit, ActionClose, ActionWake, ActionSleep,
       ActionSendMngFrame, ActionFails, InitFails, CloseFails, WakeFails, SendMngFrameFails,
       WaitConnect, CancelWaitConnect, HandleFinished, HandleStateChange, CommitState
  <2> QED
    BY <1>1, <2>1
<1> QED
  BY <1>2, <1>3, <1>4, <1>5

\* Sending leaves the rest alone.
LEMMA SendsMove ==
  ASSUME IInv, Sends
  PROVE  /\ pc = "do" /\ act.op = "SEND_DATA" /\ IsConnected(main)
         /\ UNCHANGED <<main, sub, pwr, proc, ev, irq, pmu, sta, phy>>
         /\ en' \subseteq en \cup {"TXDFRAME", "TXBANKEMPT"}
         /\ pc' \in {"do", "sched"} /\ act'.arg = "" /\ act'.op \in {"NOP", "HANDLE_ERROR"}
<1>1. act \in ActionObject /\ Nop.op = "NOP" /\ Nop.arg = ""
  BY DEF IInv, TypeOK, TaskTypeOK, Nop, Action
<1>2. pc = "do" /\ act.op = "SEND_DATA"
  BY DEF Sends, ActionSendData, SendDataFails, Doing
<1>3. IsConnected(main)
  BY <1>2, InHand DEF Fits, ChipFits
<1>4. /\ UNCHANGED <<main, sub, pwr, proc, ev, irq, pmu, sta, phy>>
      /\ en' \subseteq en \cup {"TXDFRAME", "TXBANKEMPT"}
  BY DEF Sends, ActionSendData, SendDataFails, evVars
<1>5. /\ pc' \in {"do", "sched"}
      /\ act' = Nop \/ act' = [act EXCEPT !.op = "HANDLE_ERROR", !.arg = ""]
  BY <1>2 DEF Sends, ActionSendData, SendDataFails, Succeeded, Done, Failed
<1>6. [act EXCEPT !.op = "HANDLE_ERROR", !.arg = ""].arg = ""
      /\ [act EXCEPT !.op = "HANDLE_ERROR", !.arg = ""].op = "HANDLE_ERROR"
  BY <1>1 DEF ActionObject
<1> QED
  BY <1>1, <1>2, <1>3, <1>4, <1>5, <1>6

\* Target depends on nothing but the action and the state.
LEMMA TargetStays ==
  ASSUME UNCHANGED <<main, sub, act>>
  PROVE  Target(act)' = Target(act)
BY DEF Target

\* The other parties only empty banks, and report the end of CLOSE if it was begun.
LEMMA OthersEmpty ==
  ASSUME IInv, EmptyInv,
         (\E c \in Callers : Caller(c)) \/ DataCaller \/ UNCHANGED vars \/ Chip \/ Interrupt
  PROVE  EmptyInv'
<1>1. /\ UNCHANGED <<main, sub, pc, act>> /\ data'.txRun = data.txRun
      /\ bank = 0 => bank' = 0
      /\ Closing' => Closing
  <2>1. CASE (\E c \in Callers : Caller(c)) \/ DataCaller \/ UNCHANGED vars
    BY <2>1, CallersMove DEF CallersLeave, Closing, Pending
  <2>2. CASE Chip
    BY <2>2, ChipMoves DEF ChipLatches, Closing, Pending
  <2>3. CASE Interrupt
    <3>1. HandlerMoves
      BY <2>3, InterruptMoves
    <3>2. CASE ev' = ev \cup irq /\ irq' = {} /\ UNCHANGED <<en, sta>>
      BY <3>1, <3>2 DEF HandlerMoves, Closing, Pending
    <3>3. CASE irq = {} /\ irq' = {"WAKE_REQUIRED"} /\ UNCHANGED <<ev, en, sta>>
      BY <3>1, <3>3 DEF HandlerMoves, Closing, Pending
    <3>4. ASSUME NEW bits \in SUBSET en, irq = {}, en' = en \ bits, irq' = IntToEvent(bits),
                 UNCHANGED ev
          PROVE  Closing' => Closing
      <4>1. bits \in SUBSET Sources
        BY DEF IInv, TypeOK, ChipTypeOK
      <4>2. "COMP_CLOSE" \in irq' => "AWAKETOSLEEP" \in en
        BY <3>4, <4>1, IntMeans
      <4> QED
        BY <3>1, <3>4, <4>2 DEF HandlerMoves, Closing, Pending
    <3> QED
      BY <3>1, <3>2, <3>3, <3>4 DEF HandlerMoves
  <2> QED
    BY <2>1, <2>2, <2>3
<1> QED
  BY <1>1, TargetStays DEF EmptyInv

\* The task choosing its next action leaves the banks alone.
LEMMA ScheduleEmpties ==
  ASSUME IInv, EmptyInv, Schedule
  PROVE  EmptyInv'
<1>1. Steering
  BY ScheduleMoves
<1>2. data'.txRun = data.txRun /\ UNCHANGED bank
  BY ScheduleCounts
<1>3. "COMP_CLOSE" \in CompReqs
  BY DEF CompReqs
<1>4. Closing' => Closing
  BY <1>1, <1>3 DEF Steering, Closing, Pending
<1> QED
  BY <1>1, <1>2, <1>4 DEF Steering, EmptyInv

\* No action but CLOSE begins to close the chip.
LEMMA ExecuteCloses ==
  ASSUME IInv, Execute, ~ActionClose
  PROVE  Closing' => Closing
<1>1. "AWAKETOSLEEP" \in en' => "AWAKETOSLEEP" \in en
  BY ExecuteMasks
<1>2. "COMP_CLOSE" \in Pending' => "COMP_CLOSE" \in Pending
  BY ExecutePerforms DEF Performing, Pending
<1> QED
  BY <1>1, <1>2 DEF Closing

\* The task executing one: who closes or gives up the link empties the banks.
LEMMA ExecuteKeepsEmpty ==
  ASSUME IInv, EmptyInv, SendsNotWhileClosing, Execute
  PROVE  EmptyInv'
<1>0. pc \in {"do", "commit", "reset"} /\ bank \in Nat
  BY ExecutesInHand DEF Executing, IInv, TypeOK, DataTypeOK
<1>1. CASE Sends
  <2>1. ~Closing'
    BY <1>1, SendsMove, ExecuteCloses DEF SendsNotWhileClosing, Sends, ActionClose, Doing
  <2> QED
    BY <1>1, <2>1, SendsMove DEF EmptyInv
<1>2. CASE ActionClose
  <2>1. pc = "do" /\ main # "CLOSE"
    BY <1>2, InHand DEF ActionClose, Doing, Fits, ChipFits, OpenFits
  <2>2. bank' = 0
    BY <1>2, <2>1 DEF ActionClose, ChangeTransmission, Released, EmptyInv, IsConnected
  <2>3. UNCHANGED <<main, data>> /\ pc' = "sched"
    BY <1>2 DEF ActionClose, Succeeded, Done
  <2> QED
    BY <2>1, <2>2, <2>3 DEF EmptyInv
<1>3. CASE CommitState
  <2>1. /\ pc = "commit" /\ UNCHANGED <<bank, data>>
        /\ Leads(main', sub') /\ main' = Target(act)[1]
        /\ pc' = IF main' \in {"SEARCH", "CLOSE"} THEN "reset" ELSE "sched"
    BY <1>3, CommitsTarget DEF CommitState
  <2>2. Closing' => Closing
    BY <1>3, ExecuteCloses DEF CommitState, ActionClose, Doing
  <2>3. ~IsConnected(main') /\ pc' # "reset" => ~IsConnected(main)
    BY <2>1 DEF Leads
  <2> QED
    BY <2>1, <2>2, <2>3 DEF EmptyInv
<1>4. CASE ResetClosed \/ ResetReleased
  <2>1. pc = "reset" /\ pc' = "sched" /\ UNCHANGED bank /\ bank = 0 /\ data' = NoData
    BY <1>4 DEF ResetClosed, ResetReleased, Finish, Done, chipVars, EmptyInv
  <2>2. data'.txRun = 0
    BY <2>1 DEF NoData, IInv, TypeOK, DataTypeOK, DataCounters
  <2> QED
    BY <2>1, <2>2 DEF EmptyInv
<1>5. CASE ~Sends /\ ~ActionClose /\ ~CommitState /\ ~ResetClosed /\ ~ResetReleased
  <2>1. /\ Closing' => Closing
        /\ bank' \in {0, bank} /\ data'.txRun \in {0, data.txRun}
        /\ UNCHANGED main /\ pc' # "reset"
    BY <1>5, ExecuteCloses, ExecuteEmpties, ExecuteDrives
  <2>2. pc = "do"
    BY <1>5 DEF Execute, Sends, ActionInit, ActionWake, ActionSleep,
       ActionSendMngFrame, ActionReceiveData, ActionFails, InitFails, CloseFails,
       WakeFails, SendMngFrameFails, WaitConnect, CancelWaitConnect, HandleFinished,
       HandleStateChange, HandleError, Doing
  <2>3. ASSUME pc' = "commit", Target(act)'[1] \in {"SEARCH", "CLOSE"}
        PROVE  bank' = 0
    <3>1. HandleStateChange /\ act' = act
      BY <2>3, ExecuteDrives
    <3>2. Target(act)' = Target(act)
      BY <3>1, TargetStays DEF HandleStateChange
    <3>3. /\ act.op \in StateOps /\ act.arg \notin Finished
          /\ ChangeChip(Target(act)[1], Target(act)[2])
      BY <2>3, <3>1 DEF HandleStateChange, Finish, Failed, Done, Doing
    <3>4. Leads(Target(act)[1], Target(act)[2])
      BY <2>2, <3>3, TargetLeads
    <3>5. CASE Target(act)[1] = "CLOSE"
      BY <2>1, <3>4, <3>5 DEF Leads, EmptyInv, Closing, Pending
    <3>6. CASE Target(act)[1] = "SEARCH" /\ main = "CLOSE"
      BY <2>1, <2>2, <3>6 DEF EmptyInv, IsConnected
    <3>7. CASE Target(act)[1] = "SEARCH" /\ main # "CLOSE"
      BY <3>3, <3>7 DEF ChangeChip, ChangeTransmission, Released
    <3> QED
      BY <2>3, <3>2, <3>5, <3>6, <3>7
  <2> QED
    BY <2>1, <2>2, <2>3 DEF EmptyInv
<1> QED
  BY <1>1, <1>2, <1>3, <1>4, <1>5

\* The banks are empty whenever the link is gone and when CLOSE is under way.
THEOREM Emptied == Spec /\ []SendsNotWhileClosing => []EmptyInv
<1>1. Init => EmptyInv
  <2>1. Init => bank = 0 /\ data.txRun = 0
    BY DEF Init
  <2> QED
    BY <2>1 DEF EmptyInv
<1>2. IInv /\ SendsNotWhileClosing /\ EmptyInv /\ [Next]_vars => EmptyInv'
  BY OthersEmpty, ScheduleEmpties, ExecuteKeepsEmpty DEF Next, Task
<1> QED
  BY <1>1, <1>2, Inductive, PTL DEF Spec

\* When a link is gone, nothing of what was being sent over it is left, neither in the
\* banks of the chip nor in the transmit queue, whatever fails on the way
\* (IZAN_changeState, CNL_releaseReset), if nothing is sent after CLOSE.
THEOREM BanksLeftEmpty == Spec /\ []SendsNotWhileClosing => []NothingLeftInBanks
<1>1. EmptyInv => NothingLeftInBanks
  BY DEF EmptyInv, NothingLeftInBanks
<1> QED
  BY <1>1, Emptied, PTL

(****************************************************************************)
(* The count of the CSDUs in the banks.                                     *)
(****************************************************************************)
\* The byte that counts them does not overflow before the chip's reports are noted.
NoByteOverflow ==
  pc = "do" /\ act.op = "SEND_DATA" /\ "txComp" \notin flags => data.sending + ToSend < 256

\* An action is not followed by the sending of data at once.
LEMMA ExecuteEnds ==
  ASSUME IInv, Execute
  PROVE  ~(pc' = "do" /\ act'.op = "SEND_DATA")
<1>0. act \in ActionObject
  BY DEF IInv, TypeOK, TaskTypeOK
<1>1. /\ Nop.op = "NOP" /\ Complete(act.req).op = "HANDLE_COMPLETE"
      /\ [act EXCEPT !.op = "HANDLE_ERROR", !.arg = ""].op = "HANDLE_ERROR"
  BY <1>0 DEF Nop, Complete, Action, ActionObject
<1>2. \/ pc' \in {"commit", "reset"} \/ act' = Nop \/ act' = Complete(act.req)
      \/ act' = [act EXCEPT !.op = "HANDLE_ERROR", !.arg = ""]
  BY DEF Execute, ActionInit, ActionClose, ActionWake, ActionSleep, ActionSendMngFrame,
     ActionSendData, ActionReceiveData, ActionFails, InitFails, CloseFails, WakeFails,
     SendMngFrameFails, SendDataFails, WaitConnect, CancelWaitConnect, HandleFinished,
     HandleStateChange, CommitState, ResetClosed, ResetReleased, HandleError, Failed,
     Succeeded, Done, Finish, AnswerNow
<1> QED
  BY <1>1, <1>2

\* What CNL_compSendReq and CNL_execSendReq leave in the count.
LEMMA SendsAccounted ==
  ASSUME IInv, BanksAccounted, NoByteOverflow, TxCsduNum < 256, ActionSendData
  PROVE  bank' <= data'.sending
<1>1. /\ data \in DataCounters /\ data.txNew \in Nat /\ data.txRun \in Nat
      /\ data.sending \in Nat /\ data.sending < 256 /\ data.ready \in Nat /\ TxCsduNum \in Nat
      /\ bank \in Nat
  BY TypesOf, BoundsAssumption DEF DataCounters, Byte, IInv, TypeOK, DataTypeOK
<1>2. /\ pc = "do" /\ act.op = "SEND_DATA" /\ data' = ExecSendReq(ToSend)
      /\ bank' = bank + ToSend
  BY DEF ActionSendData, Doing
<1>3. /\ data.ready + bank <= TxCsduNum /\ bank <= data.sending
      /\ TxCsduNum - data.ready <= data.sending
  BY <1>1, <1>2 DEF IInv, BankInv, BanksAccounted
<1>4. ToSend \in Nat /\ ToSend <= data.ready
  BY CountersStay
<1> DEFINE C == CompSendReq
           s == (data.sending - Acked) % 256
<1>5. C.sending = s /\ data'.sending = (s + ToSend) % 256
  <2>1. C.sending = s
    BY <1>1 DEF CompSendReq, DataCounters
  <2>2. DOMAIN C = DOMAIN data
    BY DEF CompSendReq
  <2>3. data'.sending = (C.sending + ToSend) % 256
    <3>1. ExecSendReq(ToSend) = [C EXCEPT !.txNew = C.txNew - ToSend, !.txRun = C.txRun + ToSend,
                                          !.sending = (C.sending + ToSend) % 256]
      BY DEF ExecSendReq
    <3>2. "sending" \in DOMAIN C
      BY <1>1, <2>2 DEF DataCounters
    <3> HIDE DEF C
    <3> QED
      BY <1>2, <3>1, <3>2
  <2> QED
    BY <2>1, <2>3
<1>6. \A x \in 0 .. 255 : x % 256 = x
  OBVIOUS
<1>9. \A a, r, t, n \in Nat :
        a < 256 /\ t < 256 /\ r <= t /\ t - r <= a /\ n <= r
          => a - (t - r) \in 0 .. 255 /\ t - r \in 0 .. 255 /\ t - r + n \in 0 .. 255
  OBVIOUS
<1>10. \A a, n \in Nat : a + n < 256 => a + n \in 0 .. 255
  OBVIOUS
<1>11. data.ready <= TxCsduNum
  BY <1>1, <1>3
<1> HIDE DEF C, s
<1>7. CASE "txComp" \in flags
  <2> DEFINE q == data.sending - (TxCsduNum - data.ready)
  <2>1. q \in 0 .. 255
    BY <1>1, <1>3, <1>4, <1>9, <1>11
  <2>2. Acked = q
    <3>1. Acked = q % 256
      BY <1>7 DEF Acked
    <3> HIDE DEF q
    <3> QED
      BY <1>6, <2>1, <3>1
  <2>3. data.sending - Acked = TxCsduNum - data.ready
    BY <1>1, <2>2
  <2>4. TxCsduNum - data.ready \in 0 .. 255 /\ TxCsduNum - data.ready + ToSend \in 0 .. 255
    BY <1>1, <1>3, <1>4, <1>9, <1>11
  <2>5. data'.sending = TxCsduNum - data.ready + ToSend
    BY <1>5, <1>6, <2>3, <2>4 DEF s
  <2> QED
    BY <1>1, <1>2, <1>3, <1>4, <2>5
<1>8. CASE "txComp" \notin flags
  <2>1. Acked = 0
    BY <1>8 DEF Acked
  <2>2. data.sending - Acked = data.sending /\ data.sending \in 0 .. 255
    BY <1>1, <2>1
  <2>3. data.sending + ToSend \in 0 .. 255
    BY <1>1, <1>2, <1>4, <1>8, <1>10 DEF NoByteOverflow
  <2>4. data'.sending = data.sending + ToSend
    BY <1>5, <1>6, <2>2, <2>3 DEF s
  <2> QED
    BY <1>1, <1>2, <1>3, <1>4, <2>4
<1> QED
  BY <1>7, <1>8

\* Every step keeps the account.
LEMMA NextAccounts ==
  ASSUME IInv, EmptyInv, BanksAccounted, NoByteOverflow, TxCsduNum < 256, MaxFault = 0,
         [Next]_vars
  PROVE  BanksAccounted'
<1>0. /\ data.sending \in Nat /\ bank \in Nat /\ TxCsduNum \in Nat /\ nFault \in Nat
  BY BoundsAssumption DEF IInv, TypeOK, DataTypeOK, DataCounters, Byte
<1>1. CASE (\E c \in Callers : Caller(c)) \/ DataCaller \/ UNCHANGED vars
  BY <1>1, CallersMove DEF CallersLeave, BanksAccounted
<1>2. CASE Chip
  BY <1>0, <1>2, ChipMoves DEF ChipLatches, BanksAccounted
<1>3. CASE Interrupt
  BY <1>3, InterruptMoves DEF HandlerMoves, BanksAccounted
<1>4. CASE Schedule
  BY <1>0, <1>4, ScheduleCounts DEF BanksAccounted
<1>5. CASE Execute /\ Sends
  <2>1. ActionSendData
    BY <1>0, <1>5 DEF Sends, SendDataFails, Failed, DeviceFault
  <2>2. bank' <= data'.sending
    BY <2>1, SendsAccounted
  <2>3. BanksAccounted' <=> /\ data'.sending >= bank'
                            /\ pc' = "do" /\ act'.op = "SEND_DATA"
                                 => data'.sending >= TxCsduNum - data'.ready
    BY DEF BanksAccounted
  <2>4. data'.sending \in Int /\ bank' \in Int
    BY <1>5, NextInv DEF IInv, TypeOK, DataTypeOK, DataCounters, Byte
  <2> QED
    BY <1>5, <2>2, <2>3, <2>4, ExecuteEnds
<1>6. CASE Execute /\ ~Sends
  BY <1>0, <1>6, ExecuteEmpties, ExecuteEnds DEF BanksAccounted, EmptyInv
<1> QED
  BY <1>1, <1>2, <1>3, <1>4, <1>5, <1>6 DEF Next, Task

\* While no device operation fails, nothing is sent after CLOSE and the byte does not
\* overflow, the CSDUs the core believes to be in the banks include those that are, and
\* the count of acknowledged ones never wraps below zero (CNL_compSendReq).
THEOREM BanksCounted ==
  ASSUME TxCsduNum < 256, MaxFault = 0
  PROVE  Spec /\ []SendsNotWhileClosing /\ []NoByteOverflow => []BanksAccounted
<1>1. Init => BanksAccounted
  <2>1. Init => bank = 0 /\ data.sending = 0 /\ pc = "wait"
    BY DEF Init
  <2> QED
    BY <2>1 DEF BanksAccounted
<1>2. IInv /\ EmptyInv /\ NoByteOverflow /\ BanksAccounted /\ [Next]_vars => BanksAccounted'
  BY NextAccounts
<1> QED
  BY <1>1, <1>2, Inductive, Emptied, PTL DEF Spec

(****************************************************************************)
(* A core that is never asked to close.                                     *)
(****************************************************************************)
NeverCloses ==
  /\ \A c \in Callers : req[c].type # "CLOSE_REQ"
  /\ act.op # "CLOSE"
  /\ ~Closing

\* The type of a request is set by its caller, and nobody else changes it.
LEMMA TypesStay ==
  ASSUME IInv, [Next]_vars, NEW c \in Callers
  PROVE  req'[c].type \in {req[c].type, "NONE"} \cup ReqTypes
<1>1. req \in [Callers -> RequestObject]
  BY TypesOf
<1>2. CASE UNCHANGED req
  BY <1>2
<1>3. ASSUME NEW d \in Callers, Caller(d)
      PROVE  req'[c].type \in {req[c].type, "NONE"} \cup ReqTypes
  <2>1. CASE \E t \in ReqTypes : CheckRequest(d, t)
    BY <1>1, <2>1 DEF CheckRequest, RequestObject
  <2>2. CASE AddRequest(d) \/ CmdTimeout(d)
    BY <1>1, <2>2 DEF AddRequest, CmdTimeout, RequestObject
  <2>3. CASE Return(d)
    BY <1>1, <2>3 DEF Return, RequestObject
  <2> QED
    BY <1>3, <2>1, <2>2, <2>3 DEF Caller
<1>4. ASSUME NEW a, NEW s, Take(a, s)
      PROVE  req'[c].type = req[c].type
  <2>1. CASE a.req \in Callers
    BY <1>1, <1>4, <2>1 DEF Take, RequestObject
  <2> QED
    BY <1>4, <2>1 DEF Take
<1>5. ASSUME NEW E, NEW F, NoAction(E, F) \/ \E f \in Frames : RecvdMngFrame(f, E, F)
      PROVE  req'[c].type = req[c].type
  <2>1. ASSUME NEW f, NEW A, NEW G, RecvdMngFrame(f, A, G)
        PROVE  req'[c].type = req[c].type
    BY <1>4, <2>1 DEF RecvdMngFrame, Handle, Settle
  <2> QED
    BY <1>5, <2>1 DEF NoAction, Settle
<1>6. ASSUME NEW a, NEW s, NEW E, NEW F, Handle(a, s, E, F)
      PROVE  req'[c].type = req[c].type
  BY <1>4, <1>6 DEF Handle
<1>7. CASE Schedule
  <2>1. CASE TaskWait \/ CheckInitClose
    BY <1>4, <2>1 DEF TaskWait, CheckInitClose, reqVars, queue
  <2>2. CASE CheckEvent
    <3>1. ASSUME NEW e, CompRequest(e)
          PROVE  req'[c].type = req[c].type
      <4>1. CASE ProbeCompleted
        BY <1>5, <1>6, <4>1 DEF ProbeCompleted
      <4> QED
        BY <1>5, <1>6, <3>1, <4>1 DEF CompRequest
    <3>2. ASSUME NEW t, Timeout(t)
          PROVE  req'[c].type = req[c].type
      BY <1>5, <1>6, <3>2 DEF Timeout
    <3>3. CASE WakeRequired
      BY <1>5, <1>6, <3>3 DEF WakeRequired
    <3> QED
      BY <1>5, <1>6, <2>2, <3>1, <3>2, <3>3 DEF CheckEvent
  <2>3. CASE ReadMngBody
    BY <1>5, <1>6, <2>3 DEF ReadMngBody
  <2>4. CASE CheckRequests
    <3>1. (\E a, s : Take(a, s)) \/ UNCHANGED req
      BY <2>4, Zenon DEF CheckRequests
    <3> QED
      BY <1>4, <3>1
  <2> QED
    BY <1>7, <2>1, <2>2, <2>3, <2>4 DEF Schedule
<1>8. CASE Execute
  <2>1. CASE WaitConnect \/ CancelWaitConnect
    <3>1. \E r, s : req' = [req EXCEPT ![r].status = s]
      BY <2>1 DEF WaitConnect, CancelWaitConnect, AnswerNow
    <3> QED
      BY <1>1, <3>1 DEF RequestObject
  <2>2. CASE ResetReleased
    <3>1. UNCHANGED req \/ req' = [req EXCEPT ![ctrlQ].status = "INVSTAT"]
      BY <2>2 DEF ResetReleased
    <3> QED
      BY <1>1, <3>1 DEF RequestObject
  <2>3. CASE HandleError
    <3>1. \E S : req' = [d \in Callers |-> IF d \in S THEN [req[d] EXCEPT !.status = "ERROR"]
                                                     ELSE req[d]]
      BY <2>3 DEF HandleError
    <3> QED
      BY <1>1, <3>1 DEF RequestObject
  <2>4. CASE ~WaitConnect /\ ~CancelWaitConnect /\ ~ResetReleased /\ ~HandleError
    BY <1>8, <2>4 DEF Execute, ActionInit, ActionClose, ActionWake, ActionSleep,
       ActionSendMngFrame, ActionSendData, ActionReceiveData, ActionFails, InitFails, CloseFails,
       WakeFails, SendMngFrameFails, SendDataFails, HandleFinished, HandleStateChange,
       CommitState, ResetClosed, reqVars, queue
  <2> QED
    BY <2>1, <2>2, <2>3, <2>4
<1>9. CASE DataCaller \/ Chip \/ Interrupt \/ UNCHANGED vars
  BY <1>9 DEF DataCaller, CheckSend, AddSend, CheckReceive, AddReceive, Chip, FrameSent,
     DataAcked, PhyDone, Interrupt, IrqMask, IrqAddEvent, reqVars, queue, vars
<1> QED
  BY <1>3, <1>7, <1>8, <1>9 DEF Next, Task

\* CLOSE comes of a CLOSE request alone (CNL_checkInitClose).
LEMMA NextNeverCloses ==
  ASSUME IInv, NeverCloses, [Next]_vars, "CLOSE_REQ" \notin ReqTypes
  PROVE  NeverCloses'
<1>1. \A c \in Callers : req'[c].type # "CLOSE_REQ"
  BY TypesStay DEF NeverCloses
<1>2. CASE (\E c \in Callers : Caller(c)) \/ DataCaller \/ UNCHANGED vars
  BY <1>1, <1>2, CallersMove DEF CallersLeave, NeverCloses, Closing, Pending
<1>3. CASE Chip
  BY <1>1, <1>3, ChipMoves DEF ChipLatches, NeverCloses, Closing, Pending
<1>4. CASE Interrupt
  <2>1. HandlerMoves
    BY <1>4, InterruptMoves
  <2>2. CASE ev' = ev \cup irq /\ irq' = {} /\ UNCHANGED <<en, sta>>
    BY <1>1, <2>1, <2>2 DEF HandlerMoves, NeverCloses, Closing, Pending
  <2>3. CASE irq = {} /\ irq' = {"WAKE_REQUIRED"} /\ UNCHANGED <<ev, en, sta>>
    BY <1>1, <2>1, <2>3 DEF HandlerMoves, NeverCloses, Closing, Pending
  <2>4. ASSUME NEW bits \in SUBSET en, irq = {}, en' = en \ bits, irq' = IntToEvent(bits),
               UNCHANGED ev
        PROVE  NeverCloses'
    <3>1. bits \in SUBSET Sources
      BY DEF IInv, TypeOK, ChipTypeOK
    <3>2. "COMP_CLOSE" \in irq' => "AWAKETOSLEEP" \in en
      BY <2>4, <3>1, IntMeans
    <3> QED
      BY <1>1, <2>1, <2>4, <3>2 DEF HandlerMoves, NeverCloses, Closing, Pending
  <2> QED
    BY <2>1, <2>2, <2>3, <2>4 DEF HandlerMoves
<1>5. CASE Schedule
  <2>1. Steering /\ "COMP_CLOSE" \in CompReqs
    BY <1>5, ScheduleMoves DEF CompReqs
  <2>2. ~Closing'
    BY <2>1 DEF Steering, NeverCloses, Closing, Pending
  <2>3. act'.op # "CLOSE"
    <3>1. CASE TaskWait
      BY <3>1 DEF TaskWait, NeverCloses
    <3>2. CASE CheckInitClose
      <4>1. ~Queued({"CLOSE_REQ"})
        BY TypesOf DEF Queued, NeverCloses
      <4>2. act' = act \/ act' = Complete(ctrlQ) \/ act' = Action("INIT", "", ctrlQ)
        BY <3>2, <4>1 DEF CheckInitClose, Take
      <4>3. Complete(ctrlQ).op # "CLOSE" /\ Action("INIT", "", ctrlQ).op # "CLOSE"
        BY DEF Complete, Action
      <4> QED
        BY <4>2, <4>3 DEF NeverCloses
    <3>3. CASE CheckEvent
      BY <3>3, EventOp DEF RequestOps
    <3>4. CASE ReadMngBody
      <4>1. act.op # "CLOSE" /\ Err.op # "CLOSE"
        BY DEF NeverCloses, Err, Action
      <4>2. NoAction(ev \ {act.arg}, flags) => act'.op # "CLOSE"
        BY NoActionOp DEF RequestOps
      <4> QED
        BY <3>4, <4>1, <4>2 DEF ReadMngBody, Handle, Take
    <3>5. CASE CheckRequests
      BY <3>5, RequestMoves DEF NotOfRequests
    <3> QED
      BY <1>5, <3>1, <3>2, <3>3, <3>4, <3>5 DEF Schedule
  <2> QED
    BY <1>1, <2>2, <2>3 DEF NeverCloses
<1>6. CASE Execute
  <2>1. ~Closing'
    BY <1>6, ExecuteCloses DEF NeverCloses, ActionClose, Doing
  <2>2. act'.op # "CLOSE"
    <3>1. act \in ActionObject
      BY DEF IInv, TypeOK, TaskTypeOK
    <3>2. /\ Nop.op = "NOP" /\ Complete(act.req).op = "HANDLE_COMPLETE"
          /\ [act EXCEPT !.op = "HANDLE_ERROR", !.arg = ""].op = "HANDLE_ERROR"
      BY <3>1 DEF Nop, Complete, Action, ActionObject
    <3>3. \/ act' = act \/ act' = Nop \/ act' = Complete(act.req)
          \/ act' = [act EXCEPT !.op = "HANDLE_ERROR", !.arg = ""]
      BY <1>6 DEF Execute, ActionInit, ActionClose, ActionWake, ActionSleep, ActionSendMngFrame,
         ActionSendData, ActionReceiveData, ActionFails, InitFails, CloseFails, WakeFails,
         SendMngFrameFails, SendDataFails, WaitConnect, CancelWaitConnect, HandleFinished,
         HandleStateChange, CommitState, ResetClosed, ResetReleased, HandleError, Failed,
         Succeeded, Done, Finish, AnswerNow
    <3> QED
      BY <3>2, <3>3 DEF NeverCloses
  <2> QED
    BY <1>1, <2>1, <2>2 DEF NeverCloses
<1> QED
  BY <1>2, <1>3, <1>4, <1>5, <1>6 DEF Next, Task

\* A core that nobody asks to close never is about to: for BanksLeftEmptyUnclosed.
LEMMA NeverClosed == ASSUME "CLOSE_REQ" \notin ReqTypes PROVE Spec => []NeverCloses
<1>1. Init => NeverCloses
  <2>1. Init => en = {} /\ irq = {} /\ ev = {} /\ act = Nop
    BY DEF Init
  <2>2. Init => \A c \in Callers : req[c].type # "CLOSE_REQ"
    BY DEF Init
  <2>3. Nop.op # "CLOSE" /\ Nop.arg = ""
    BY DEF Nop, Action
  <2> QED
    BY <2>1, <2>2, <2>3 DEF NeverCloses, Closing, Pending
<1>2. IInv /\ NeverCloses /\ [Next]_vars => NeverCloses'
  BY NextNeverCloses
<1> QED
  BY <1>1, <1>2, Inductive, PTL DEF Spec

\* A core that nobody asks to close, however often its link is released, lost and set up
\* again, leaves no data in the banks, whatever fails.
THEOREM BanksLeftEmptyUnclosed ==
  ASSUME "CLOSE_REQ" \notin ReqTypes
  PROVE  Spec => []NothingLeftInBanks
<1>1. NeverCloses => SendsNotWhileClosing
  BY DEF NeverCloses, SendsNotWhileClosing
<1> QED
  BY <1>1, NeverClosed, BanksLeftEmpty, PTL

(****************************************************************************)
(* The wake-up is reported once.  While nothing fails, COMP_WAKE comes only *)
(* when waking was begun and only once, so that it does not end another     *)
(* action of the task: HandleFinished resets procAction.                    *)
(****************************************************************************)
Paired(S) == "SLEEPTOAWAKE" \in S <=> "AWAKEPRIOD" \in S

OnceInv ==
  /\ "COMP_WAKE" \in Pending => Waking /\ "AWAKEPRIOD" \notin en
  /\ "COMP_WAKE" \in irq => "COMP_WAKE" \notin ev \cup {act.arg}
  /\ "COMP_WAKE" \in ev => act.arg # "COMP_WAKE"
  /\ "AWAKEPRIOD" \in en => Waking \/ main = "CLOSE"
  /\ main = "CLOSE" => phy \in {"none", "init"} /\ Paired(sta) /\ Paired(en)
  /\ pc = "commit" /\ act.arg = "COMP_CLOSE" => phy = "none" /\ PhyInts \cap (sta \cup en) = {}
  /\ pc \in {"commit", "reset"} => "AWAKEPRIOD" \notin en

\* While no device operation may fail, none does.
LEMMA NoFaults ==
  ASSUME IInv, MaxFault = 0
  PROVE  ~DeviceFault /\ ~Failed
BY DEF DeviceFault, Failed, IInv, TypeOK

\* Every change of state clears what the sources of power have left behind.
LEMMA ClearsPower ==
  ASSUME NEW m, NEW ms, NEW n \in MainStates, NEW ns, NEW e
  PROVE  PhyInts \subseteq ClearInt(m, ms, n, ns, e)
<1>1. IntenOfMain[n] \cap PhyInts = {} /\ PhyInts \subseteq Sources
  BY DEF IntenOfMain, MainStates, PhyInts, Sources
<1> QED
  BY <1>1 DEF ClearInt, StateToIntEnable, TakenOver, IsConnected, PhyInts, DataInts, MftxInts

\* The other parties: COMP_WAKE comes of a source that only waking and opening enable.
LEMMA OthersOnce ==
  ASSUME IInv, OnceInv,
         (\E c \in Callers : Caller(c)) \/ DataCaller \/ UNCHANGED vars \/ Chip \/ Interrupt
  PROVE  OnceInv'
<1>1. CASE (\E c \in Callers : Caller(c)) \/ DataCaller \/ UNCHANGED vars
  BY <1>1, CallersMove DEF CallersLeave, OnceInv, Pending, Waking, Paired
<1>2. CASE Chip
  <2>1. ChipLatches
    BY <1>2, ChipMoves
  <2>2. CASE UNCHANGED phy /\ sta' \cap PhyInts = sta \cap PhyInts
    BY <2>1, <2>2 DEF ChipLatches, OnceInv, Pending, Waking, Paired, PhyInts
  <2>3. CASE phy # "none" /\ phy' = "none" /\ sta' = sta \cup PhyInt[phy]
    <3>1. phy = "init" => PhyInt[phy] = {"SLEEPTOAWAKE", "AWAKEPRIOD"}
      BY DEF PhyInt
    <3> QED
      BY <2>1, <2>3, <3>1 DEF ChipLatches, OnceInv, Pending, Waking, Paired
  <2> QED
    BY <2>1, <2>2, <2>3 DEF ChipLatches
<1>3. CASE Interrupt
  <2>1. HandlerMoves
    BY <1>3, InterruptMoves
  <2>2. CASE ev' = ev \cup irq /\ irq' = {} /\ UNCHANGED <<en, sta>>
    BY <2>1, <2>2 DEF HandlerMoves, OnceInv, Pending, Waking, Paired
  <2>3. CASE irq = {} /\ irq' = {"WAKE_REQUIRED"} /\ UNCHANGED <<ev, en, sta>>
    BY <2>1, <2>3 DEF HandlerMoves, OnceInv, Pending, Waking, Paired
  <2>4. ASSUME NEW bits \in SUBSET en, irq = {}, en' = en \ bits, sta' = sta \ bits,
               irq' = IntToEvent(bits), bits \cap PhyInts = sta \cap en \cap PhyInts,
               UNCHANGED ev
        PROVE  OnceInv'
    <3>1. bits \in SUBSET Sources
      BY DEF IInv, TypeOK, ChipTypeOK
    <3>2. "COMP_WAKE" \in irq' <=> bits \cap PhyInts = {"AWAKEPRIOD"}
      BY <2>4, <3>1, IntMeans
    <3>3. main = "CLOSE" => Paired(bits) /\ Paired(sta') /\ Paired(en')
      BY <2>4 DEF OnceInv, Paired, PhyInts
    <3>4. "COMP_WAKE" \in irq' => "AWAKEPRIOD" \in en /\ "AWAKEPRIOD" \notin en' /\ main # "CLOSE"
      BY <2>4, <3>2, <3>3 DEF Paired, PhyInts
    <3> QED
      BY <2>1, <2>4, <3>3, <3>4 DEF HandlerMoves, OnceInv, Pending, Waking, Paired
  <2> QED
    BY <2>1, <2>2, <2>3, <2>4 DEF HandlerMoves
<1> QED
  BY <1>1, <1>2, <1>3

\* The scheduler only moves it.
LEMMA ScheduleOnce ==
  ASSUME IInv, OnceInv, Schedule
  PROVE  OnceInv'
<1>1. Steering
  BY ScheduleMoves
<1>2. {"COMP_WAKE", "COMP_CLOSE"} \subseteq CompReqs
  BY DEF CompReqs
<1>3. {"CACCRCV", "CSLEEPRCV", "TXDFRAME"} \cap PhyInts = {}
  BY DEF PhyInts
<1>4. en' \cap PhyInts = en \cap PhyInts
  BY <1>1, <1>3 DEF Steering
<1>5. "COMP_WAKE" \in Pending' => "COMP_WAKE" \in Pending
  BY <1>1, <1>2 DEF Steering, Pending
<1> QED
  BY <1>1, <1>2, <1>4, <1>5 DEF Steering, OnceInv, Pending, Waking, Paired, PhyInts

\* An action that is performed: waking takes the source up anew, opening pairs it.
LEMMA ExecuteOnce ==
  ASSUME IInv, OnceInv, MaxFault = 0, Execute
  PROVE  OnceInv'
<1>0. Performing /\ Executing /\ ~DeviceFault /\ ~Failed
  BY ExecutePerforms, ExecutesInHand, NoFaults
<1>1. /\ "COMP_WAKE" \in Pending' => "COMP_WAKE" \in Pending
      /\ "COMP_WAKE" \in irq' => "COMP_WAKE" \notin ev' \cup {act'.arg}
      /\ "COMP_WAKE" \in ev' => act'.arg # "COMP_WAKE"
  BY <1>0 DEF Performing, OnceInv, Pending
<1>2. main = "CLOSE" => pwr = "AWAKE"
  BY DEF IInv, PowerInv, StateInv, IsConnected
<1>3. CASE ActionInit
  <2>1. /\ main = "CLOSE" /\ UNCHANGED <<main, pwr, sta>> /\ phy' = "init"
        /\ en' = en \cup {"SLEEPTOAWAKE", "AWAKEPRIOD"} /\ pc' = "sched"
    BY <1>3, InHand DEF ActionInit, Succeeded, Done, Doing, Fits, ChipFits, OpenFits
  <2>2. "COMP_WAKE" \notin Pending
    BY <1>2, <2>1 DEF OnceInv, Waking
  <2> QED
    BY <1>1, <2>1, <2>2 DEF OnceInv, Paired
<1>4. CASE ActionWake
  <2>1. /\ pwr = "HIBERNATE" /\ pwr' = "HIBERNATE_TO_AWAKE" /\ UNCHANGED main /\ pc' = "sched"
    BY <1>4, InHand DEF ActionWake, Succeeded, Done, Doing, Fits, ChipFits
  <2>2. "COMP_WAKE" \notin Pending
    BY <2>1 DEF OnceInv, Waking
  <2> QED
    BY <1>1, <1>2, <2>1, <2>2 DEF OnceInv, Waking
<1>5. CASE ActionClose
  <2>1. /\ main # "CLOSE" /\ UNCHANGED <<main, pwr>> /\ pc' = "sched"
    BY <1>5, InHand DEF ActionClose, Succeeded, Done, Doing, Fits, ChipFits, OpenFits
  <2>2. "AWAKEPRIOD" \in en' => "AWAKEPRIOD" \in en
    BY <1>5, ExecuteMasks DEF ActionClose, ActionInit, ActionWake, WakeFails, Doing
  <2> QED
    BY <1>1, <2>1, <2>2 DEF OnceInv, Waking
<1>6. CASE HandleFinished
  <2>1. /\ UNCHANGED <<main, en, sta, phy, ev, irq>> /\ pc' = "sched" /\ act' = Nop
        /\ act.arg = "COMP_NULL" => pwr' = pwr
        /\ act.arg = "COMP_SLEEP" => pwr' = "HIBERNATE"
        /\ act.arg = "COMP_WAKE" => pwr' = "AWAKE"
        /\ act.arg \in {"COMP_NULL", "COMP_SLEEP", "COMP_WAKE"}
    BY <1>6 DEF HandleFinished, Finished, Finish, Done, chipVars, evVars
  <2>2. CASE act.arg = "COMP_NULL"
    BY <1>1, <2>1, <2>2 DEF OnceInv, Waking
  <2>3. CASE act.arg = "COMP_WAKE"
    <3>1. "COMP_WAKE" \notin Pending' /\ "AWAKEPRIOD" \notin en
      BY <2>1, <2>3, ArgsOf DEF OnceInv, Pending
    <3> QED
      BY <2>1, <3>1 DEF OnceInv, Pending
  <2>4. CASE act.arg = "COMP_SLEEP"
    <3>1. pwr = "AWAKE_TO_HIBERNATE"
      BY <2>4 DEF IInv, PowerInv
    <3> QED
      BY <1>1, <1>2, <2>1, <3>1 DEF OnceInv, Waking
  <2> QED
    BY <2>1, <2>2, <2>3, <2>4
<1>7. CASE HandleStateChange
  <2>1. pc = "do" /\ act.op \in StateOps /\ act.arg \notin Finished /\ UNCHANGED <<main, pwr>>
    BY <1>7 DEF HandleStateChange, Doing
  <2>2. pwr = "AWAKE" /\ Target(act)[1] \in MainStates
    BY <2>1, TargetInHand, TargetLeads
  <2>3. CASE UNCHANGED chipVars /\ pc' = "sched"
    BY <1>1, <2>1, <2>3 DEF OnceInv, Waking, chipVars
  <2>4. CASE ChangeChip(Target(act)[1], Target(act)[2]) /\ UNCHANGED act
    <3>1. /\ en' \cap PhyInts = {} /\ sta' \cap PhyInts = {}
          /\ phy' = IF Target(act)[1] = "CLOSE" THEN "none" ELSE phy
      BY <2>2, <2>4, MasksOfStates, ClearsPower DEF ChangeChip, ChangeTransmission, Cleared
    <3>2. act.arg = "COMP_CLOSE" => Target(act)[1] = "CLOSE"
      BY <2>1, TargetLeads DEF Leads
    <3>3. {"AWAKEPRIOD", "SLEEPTOAWAKE"} \subseteq PhyInts
      BY DEF PhyInts
    <3> QED
      BY <1>1, <2>1, <2>4, <3>1, <3>2, <3>3 DEF OnceInv, Waking, Paired
  <2> QED
    BY <1>0, <1>7, <2>3, <2>4 DEF HandleStateChange, Finish, Done
<1>8. CASE CommitState
  <2>1. /\ pc = "commit" /\ UNCHANGED <<pwr, en, sta, phy>> /\ pc' \in {"reset", "sched"}
        /\ Leads(main', sub') /\ pwr = "AWAKE"
    BY <1>8, CommitsTarget
  <2>2. main' = "CLOSE" => phy = "none" /\ Paired(sta) /\ Paired(en)
    BY <2>1 DEF Leads, OnceInv, Paired, PhyInts
  <2> QED
    BY <1>1, <2>1, <2>2 DEF OnceInv, Waking, Paired
<1>9. CASE ResetClosed \/ ResetReleased
  <2>1. /\ pc = "reset" /\ pc' = "sched" /\ pwr' = "AWAKE" /\ UNCHANGED <<main, en, sta, phy>>
        /\ pwr = "AWAKE"
    BY <1>9 DEF ResetClosed, ResetReleased, Finish, Done, chipVars, IInv, StateInv
  <2> QED
    BY <1>1, <2>1 DEF OnceInv, Waking, Paired
<1>10. CASE /\ ~ActionInit /\ ~ActionWake /\ ~ActionClose /\ ~HandleFinished
            /\ ~HandleStateChange /\ ~CommitState /\ ~ResetClosed /\ ~ResetReleased
  <2>1. /\ UNCHANGED <<main, phy>>
        /\ UNCHANGED sta \/ main # "CLOSE"
        /\ Waking => Waking'
        /\ pc' \notin {"commit", "reset"}
    <3>1. WaitConnect => main # "CLOSE"
      BY InHand DEF WaitConnect, Doing, Fits, ChipFits, OpenFits
    <3>2. ActionSleep => ~Waking
      BY InHand DEF ActionSleep, Waking, Doing, Fits, ChipFits
    <3>3. pc' \notin {"commit", "reset"}
      BY <1>10, ExecuteDrives
    <3>4. CASE ActionSleep
      BY <3>2, <3>3, <3>4 DEF ActionSleep
    <3>5. CASE WaitConnect
      BY <3>1, <3>3, <3>5 DEF WaitConnect, Waking
    <3>6. CASE ActionSendMngFrame \/ ActionSendData \/ ActionReceiveData \/ CancelWaitConnect
               \/ HandleError
      BY <3>3, <3>6 DEF ActionSendMngFrame, ActionSendData, ActionReceiveData,
         CancelWaitConnect, HandleError, devVars, chipVars, Waking
    <3>7. ~(ActionFails \/ InitFails \/ CloseFails \/ WakeFails \/ SendMngFrameFails
            \/ SendDataFails)
      BY <1>0 DEF ActionFails, InitFails, CloseFails, WakeFails, SendMngFrameFails,
         SendDataFails
    <3> QED
      BY <1>0, <1>10, <3>4, <3>5, <3>6, <3>7 DEF Execute, Performing
  <2>2. en' \cap PhyInts = en \cap PhyInts
    <3>1. CASE ActionSendMngFrame
      <4>1. act.arg \in Frames
        BY <3>1, InHand DEF ActionSendMngFrame, Doing, Fits, ChipFits
      <4>2. FrameUnmask[act.arg] \cap PhyInts = {}
        BY <4>1 DEF FrameUnmask, Frames, PhyInts
      <4> QED
        BY <3>1, <4>2 DEF ActionSendMngFrame
    <3>2. CASE ~ActionSendMngFrame
      BY <1>0, <1>10, <3>2 DEF Execute, ActionSleep, ActionSendData, ActionReceiveData,
         ActionFails, InitFails, CloseFails, WakeFails, SendMngFrameFails, SendDataFails,
         WaitConnect, CancelWaitConnect, HandleError, chipVars, ReceiveDataIntUnmask, PhyInts
    <3> QED
      BY <3>1, <3>2
  <2> QED
    BY <1>1, <2>1, <2>2 DEF OnceInv, Paired, PhyInts
<1> QED
  BY <1>3, <1>4, <1>5, <1>6, <1>7, <1>8, <1>9, <1>10

\* While no device operation fails, the end of waking is reported only while the chip is
\* being woken, and only once.
THEOREM WakesOnce == ASSUME MaxFault = 0 PROVE Spec => []OnceInv
<1>1. Init => OnceInv
  <2>1. Init => /\ irq = {} /\ ev = {} /\ act = Nop /\ en = {} /\ sta = {} /\ phy = "none"
                /\ pc = "wait"
    BY DEF Init
  <2> QED
    BY <2>1, ArgsOf DEF OnceInv, Pending, Paired
<1>2. IInv /\ OnceInv /\ [Next]_vars => OnceInv'
  BY OthersOnce, ScheduleOnce, ExecuteOnce DEF Next, Task
<1> QED
  BY <1>1, <1>2, Inductive, PTL DEF Spec

(****************************************************************************)
(* The filter.  It hides received C-Sleep and C-Wake from the moment one of *)
(* those frames is sent until the exchange is completed, when procAction    *)
(* becomes NOP; both are on only over a link that is not asleep here, and   *)
(* there no power transition can end.                                       *)
(****************************************************************************)
Filtered == "filter" \in flags

Exchanging == proc \in {"SEND_MNG_FRAME", "CLOSE"}

FilterInv ==
  /\ Filtered /\ pc # "reset" => LinkAwake
  /\ Filtered /\ pc \notin {"commit", "reset"} => Exchanging
  /\ Filtered /\ pc = "commit" => Exchanging \/ Target(act)[1] \in {"SEARCH", "CLOSE"}
  /\ pc = "commit" /\ act.op = "HANDLE_COMPLETE" => proc = "NOP"

\* While C-Sleep and C-Wake are hidden the chip is awake, and the power state is not
\* changing.
LEMMA FilteredAwake ==
  ASSUME IInv, OnceInv, FilterInv, Filtered, pc # "reset"
  PROVE  /\ LinkAwake /\ IsConnected(main) /\ pwr = "AWAKE"
         /\ act.arg \notin {"COMP_SLEEP", "COMP_WAKE"}
<1>1. LinkAwake /\ IsConnected(main)
  BY DEF FilterInv, LinkAwake, IInv, StateInv
<1>2. pwr = "AWAKE"
  BY <1>1 DEF IInv, PowerInv, LinkAwake, IsConnected
<1> QED
  BY <1>1, <1>2 DEF OnceInv, Waking, Pending, IInv, PowerInv

\* A step of another party, or of the scheduler, leaves the filter and procAction alone.
LEMMA SteersFilter ==
  ASSUME IInv, FilterInv,
         \/ (\E c \in Callers : Caller(c)) \/ DataCaller \/ UNCHANGED vars
         \/ Chip \/ Interrupt \/ Schedule
  PROVE  FilterInv'
<1>1. \/ UNCHANGED <<main, sub, proc, flags, pc, act>>
      \/ /\ UNCHANGED <<sub, proc>> /\ pc \notin {"commit", "reset"}
         /\ pc' \notin {"commit", "reset"} /\ flags' \subseteq flags \cup NotedFlags
  BY CallersMove, ChipMoves, InterruptMoves, ScheduleMoves
     DEF CallersLeave, ChipLatches, HandlerMoves, Steering
<1>2. CASE UNCHANGED <<main, sub, proc, flags, pc, act>>
  BY <1>2, TargetStays DEF FilterInv, Filtered, Exchanging, LinkAwake
<1>3. CASE /\ UNCHANGED <<sub, proc>> /\ pc \notin {"commit", "reset"}
           /\ pc' \notin {"commit", "reset"} /\ flags' \subseteq flags \cup NotedFlags
  BY <1>3 DEF FilterInv, Filtered, Exchanging, LinkAwake, NotedFlags
<1> QED
  BY <1>1, <1>2, <1>3

\* A step of an action.
LEMMA ExecuteFilters ==
  ASSUME IInv, OnceInv, FilterInv, MaxFault = 0, Execute
  PROVE  FilterInv'
<1>0. Executing /\ ~DeviceFault /\ ~Failed
  BY ExecutesInHand, NoFaults
<1>1. CASE ActionInit \/ ActionWake \/ ActionSleep
  <2>1. pc = "do" /\ flags' = flags /\ pc' = "sched"
    BY <1>1 DEF ActionInit, ActionWake, ActionSleep, Doing, Succeeded, Done
  <2>2. main = "CLOSE" \/ pwr = "HIBERNATE" \/ sub = "LOCAL_HIBERNATE" \/ main = "SEARCH"
    BY <1>1, InHand DEF ActionInit, ActionWake, ActionSleep, Doing, Fits, ChipFits, OpenFits
  <2>3. ~Filtered
    BY <2>1, <2>2, FilteredAwake DEF LinkAwake, IsConnected
  <2> QED
    BY <2>1, <2>3 DEF FilterInv, Filtered
<1>2. CASE ActionClose
  BY <1>2 DEF ActionClose, Doing, Succeeded, Done, FilterInv, Filtered, Exchanging, LinkAwake
<1>3. CASE ActionSendMngFrame
  <2>1. /\ pc = "do" /\ pc' = "sched" /\ UNCHANGED sub /\ proc' = "SEND_MNG_FRAME"
        /\ Filtered' => Filtered \/ act.arg \in {"C_SLEEP", "C_WAKE"}
    BY <1>3 DEF ActionSendMngFrame, Doing, Succeeded, Done, Filtered
  <2>2. act.arg \in {"C_SLEEP", "C_WAKE"} => LinkAwake
    BY <1>3, InHand DEF ActionSendMngFrame, Doing, Fits, ChipFits, OpenFits, LinkAwake
  <2> QED
    BY <2>1, <2>2 DEF FilterInv, Exchanging, LinkAwake
<1>4. CASE HandleFinished
  <2>1. /\ pc = "do" /\ pc' = "sched" /\ UNCHANGED <<sub, flags>>
        /\ act.arg = "COMP_NULL" => proc' = proc
        /\ act.arg \in {"COMP_NULL", "COMP_SLEEP", "COMP_WAKE"}
    BY <1>4 DEF HandleFinished, Finished, Finish, Done, Doing
  <2>2. Filtered => act.arg = "COMP_NULL"
    BY <2>1, FilteredAwake
  <2> QED
    BY <2>1, <2>2 DEF FilterInv, Filtered, Exchanging, LinkAwake
<1>5. CASE HandleStateChange
  <2>1. /\ pc = "do" /\ act.op \in StateOps /\ act.arg \notin Finished
        /\ UNCHANGED <<main, sub>>
        /\ proc' = IF act.op = "HANDLE_COMPLETE" THEN "NOP" ELSE proc
        /\ Filtered' => Filtered /\ act.arg \notin Unfilters
    BY <1>5 DEF HandleStateChange, Doing, Filtered
  <2>2. Leads(Target(act)[1], Target(act)[2])
    BY <2>1, TargetLeads
  <2>3. Filtered' /\ act.op = "HANDLE_COMPLETE" => Target(act)[1] \in {"SEARCH", "CLOSE"}
    BY <2>1, <2>2 DEF Leads, FilterInv, Unfilters
  <2>4. CASE Target(act) = <<main, sub>> /\ pc' = "sched"
    <3>1. Filtered' => IsConnected(main) /\ LinkAwake
      BY <2>1, FilteredAwake
    <3>2. Filtered' => act.op # "HANDLE_COMPLETE"
      BY <2>3, <2>4, <3>1 DEF IsConnected
    <3> QED
      BY <2>1, <2>4, <3>1, <3>2 DEF FilterInv, Exchanging, LinkAwake
  <2>5. CASE pc' = "commit" /\ UNCHANGED act
    <3>1. Target(act)' = Target(act)
      BY <2>1, <2>5, TargetStays
    <3> QED
      BY <2>1, <2>3, <2>5, <3>1 DEF FilterInv, Exchanging, LinkAwake
  <2> QED
    BY <1>0, <1>5, <2>4, <2>5 DEF HandleStateChange, Finish, Done
<1>6. CASE CommitState
  <2>1. /\ pc = "commit" /\ Target(act)[1] = main' /\ sub' = Target(act)[2]
        /\ Leads(main', sub') /\ UNCHANGED <<proc, flags>>
        /\ pc' = IF main' \in {"SEARCH", "CLOSE"} THEN "reset" ELSE "sched"
    BY <1>6, CommitsTarget
  <2>2. Filtered /\ main' \notin {"SEARCH", "CLOSE"} => Exchanging /\ LinkAwake
    BY <2>1 DEF FilterInv
  <2>3. act.op = "HANDLE_UPPER_ORDER" /\ act.arg = "POWERSAVE_REQ" => proc = "NOP"
    BY <2>1, InHand DEF IInv, TaskInv, Fits, OrderFits
  <2>4. Filtered /\ main' \notin {"SEARCH", "CLOSE"} => sub' \in {"CONNECTED", "TARGET_SLEEP"}
    BY <2>1, <2>2, <2>3 DEF Leads, FilterInv, Exchanging
  <2> QED
    BY <2>1, <2>2, <2>4 DEF FilterInv, Filtered, Exchanging, LinkAwake
<1>7. CASE ResetClosed \/ ResetReleased
  BY <1>7 DEF ResetClosed, ResetReleased, Finish, Done, FilterInv, Filtered
<1>8. CASE ActionSendData \/ ActionReceiveData
  BY <1>8 DEF ActionSendData, ActionReceiveData, Doing, Succeeded, Done, FilterInv, Filtered,
     Exchanging, LinkAwake
<1>9. CASE WaitConnect \/ CancelWaitConnect \/ HandleError
  BY <1>0, <1>9 DEF WaitConnect, CancelWaitConnect, HandleError, AnswerNow, Doing, Succeeded,
     Done, devVars, Complete, Action, FilterInv, Filtered, Exchanging, LinkAwake
<1>10. ~(ActionFails \/ InitFails \/ CloseFails \/ WakeFails \/ SendMngFrameFails
         \/ SendDataFails)
  BY <1>0 DEF ActionFails, InitFails, CloseFails, WakeFails, SendMngFrameFails, SendDataFails
<1> QED
  BY <1>1, <1>2, <1>3, <1>4, <1>5, <1>6, <1>7, <1>8, <1>9, <1>10 DEF Execute

\* While no device operation fails, received C-Sleep and C-Wake are hidden only during an
\* exchange that will end and show them again.
THEOREM FilterEnds == ASSUME MaxFault = 0 PROVE Spec => []FilterOnlyInExchange
<1>1. Init => FilterInv
  BY DEF Init, FilterInv, Filtered
<1>2. IInv /\ OnceInv /\ FilterInv /\ [Next]_vars => FilterInv'
  BY SteersFilter, ExecuteFilters DEF Next, Task
<1>3. FilterInv => FilterOnlyInExchange
  BY DEF FilterInv, FilterOnlyInExchange, Filtered, Exchanging
<1> QED
  BY <1>1, <1>2, <1>3, Inductive, WakesOnce, PTL DEF Spec

(****************************************************************************)
(* Listening.  C-Req is unmasked when the upper layer begins to wait and    *)
(* masked when it fires; from then on it is an event, or in the hands of    *)
(* the task, until it takes the device out of SEARCH.                       *)
(****************************************************************************)
ListenInv ==
  /\ main = "SEARCH" /\ pc \notin {"commit", "reset"} /\ "waitConnect" \in flags
       => "CREQRCV" \in en \/ "C_REQ" \in Pending
  /\ main = "SEARCH" /\ pc # "commit" /\ ("waitConnect" \notin flags \/ pc = "reset")
       => "CREQRCV" \notin en
  /\ pc = "commit" /\ Target(act)[1] = "SEARCH" => "CREQRCV" \notin en
  /\ pc = "wait" /\ ~signaled => ev = {}

\* A step of another party: C-Req is masked only by what makes an event of it.
LEMMA OthersListen ==
  ASSUME IInv, ListenInv,
         (\E c \in Callers : Caller(c)) \/ DataCaller \/ UNCHANGED vars \/ Chip \/ Interrupt
  PROVE  ListenInv'
<1>0. signaled \in BOOLEAN
  BY DEF IInv, TypeOK, EventTypeOK
<1>1. CASE (\E c \in Callers : Caller(c)) \/ DataCaller \/ UNCHANGED vars
  <2>1. CallersLeave
    BY <1>1, CallersMove
  <2> QED
    BY <1>0, <2>1, TargetStays DEF CallersLeave, ListenInv, Pending
<1>2. CASE Chip
  <2>1. ChipLatches
    BY <1>2, ChipMoves
  <2>2. en' = en
    BY <2>1 DEF ChipLatches
  <2> QED
    BY <2>1, <2>2, TargetStays DEF ChipLatches, ListenInv, Pending
<1>3. CASE Interrupt
  <2>1. HandlerMoves
    BY <1>3, InterruptMoves
  <2>2. UNCHANGED <<main, sub, flags, pc, act>> /\ Target(act)' = Target(act)
    BY <2>1, TargetStays DEF HandlerMoves
  <2>3. CASE ev' = ev \cup irq /\ irq' = {} /\ signaled' = TRUE /\ UNCHANGED en
    BY <2>2, <2>3 DEF ListenInv, Pending
  <2>4. CASE irq = {} /\ irq' = {"WAKE_REQUIRED"} /\ UNCHANGED <<ev, signaled, en>>
    BY <2>2, <2>4 DEF ListenInv, Pending
  <2>5. ASSUME NEW bits \in SUBSET en, irq = {}, en' = en \ bits, irq' = IntToEvent(bits),
               UNCHANGED <<ev, signaled>>
        PROVE  ListenInv'
    <3>1. "C_REQ" \in irq' <=> "CREQRCV" \in bits
      BY <2>5, IntMeans DEF IInv, TypeOK, ChipTypeOK
    <3> QED
      BY <2>2, <2>5, <3>1 DEF ListenInv, Pending
  <2> QED
    BY <2>1, <2>3, <2>4, <2>5 DEF HandlerMoves
<1> QED
  BY <1>1, <1>2, <1>3

\* A step of the scheduler: it waits only when it has found no event.
LEMMA ScheduleListens ==
  ASSUME IInv, ListenInv, MaxFault = 0, Schedule
  PROVE  ListenInv'
<1>1. Steering
  BY ScheduleMoves
<1>2. pc' = "wait" => ev' = {}
  BY DEF Schedule, TaskWait, CheckInitClose, CheckEvent, ReadMngBody, CheckRequests, Take,
     WakeRequired, ProbeCompleted, CompRequest, Timeout, RecvdMngFrame, NoAction, Settle,
     Handle, evVars
<1>3. "waitConnect" \in flags' <=> "waitConnect" \in flags
  BY <1>1 DEF Steering, NotedFlags
<1>4. "CREQRCV" \in en' <=> "CREQRCV" \in en
  BY <1>1 DEF Steering
<1> QED
  BY <1>1, <1>2, <1>3, <1>4 DEF Steering, ListenInv, Pending

\* A step of an action.
LEMMA ExecuteListens ==
  ASSUME IInv, ListenInv, MaxFault = 0, Execute
  PROVE  ListenInv'
<1>0. Executing /\ ~DeviceFault /\ ~Failed /\ UNCHANGED irq
  BY ExecutesInHand, NoFaults, ExecutePerforms DEF Performing
<1>1. CASE HandleStateChange
  <2>1. /\ pc = "do" /\ act.op \in StateOps /\ act.arg \notin Finished
        /\ UNCHANGED main /\ ("waitConnect" \in flags' <=> "waitConnect" \in flags)
    BY <1>1 DEF HandleStateChange, Doing
  <2>2. Target(act)[1] \in MainStates /\ Leads(Target(act)[1], Target(act)[2])
    BY <2>1, TargetInHand, TargetLeads
  <2>3. CASE Target(act) = <<main, sub>> /\ pc' = "sched" /\ UNCHANGED chipVars
    <3>1. main # "SEARCH"
      BY <2>2, <2>3 DEF Leads
    <3> QED
      BY <2>1, <2>3, <3>1 DEF ListenInv
  <2>4. CASE ChangeChip(Target(act)[1], Target(act)[2]) /\ pc' = "commit" /\ UNCHANGED act
    <3>1. Target(act)[1] = "SEARCH" => "CREQRCV" \notin en'
      BY <2>2, <2>4, MasksOfStates DEF ChangeChip
    <3>2. Target(act)' = Target(act)
      BY <1>1, <2>4, TargetStays DEF HandleStateChange
    <3> QED
      BY <2>4, <3>1, <3>2 DEF ListenInv
  <2> QED
    BY <1>0, <1>1, <2>3, <2>4 DEF HandleStateChange, Finish, Done
<1>2. CASE CommitState
  <2>1. /\ main' = Target(act)[1] /\ pc = "commit" /\ UNCHANGED en
        /\ pc' = IF main' \in {"SEARCH", "CLOSE"} THEN "reset" ELSE "sched"
    BY <1>2, CommitsTarget
  <2> QED
    BY <2>1 DEF ListenInv
<1>3. CASE ResetClosed \/ ResetReleased
  BY <1>3 DEF ResetClosed, ResetReleased, Finish, Done, chipVars, ListenInv
<1>4. CASE WaitConnect
  BY <1>0, <1>4 DEF WaitConnect, Doing, AnswerNow, ListenInv
<1>5. CASE CancelWaitConnect
  BY <1>0, <1>5 DEF CancelWaitConnect, Doing, AnswerNow, ListenInv
<1>6. CASE HandleFinished \/ HandleError \/ ActionInit \/ ActionClose \/ ActionWake
           \/ ActionSleep \/ ActionSendMngFrame \/ ActionSendData \/ ActionReceiveData
  <2>1. /\ pc = "do" /\ pc' = "sched" /\ UNCHANGED <<main, sub>>
        /\ act.op \notin {"HANDLE_MNG_FRAME", "SKIP_MNG_FRAME", "HANDLE_TIMEOUT"}
    BY <1>6 DEF HandleFinished, HandleError, ActionInit, ActionClose, ActionWake, ActionSleep,
       ActionSendMngFrame, ActionSendData, ActionReceiveData, Doing, Finish, Succeeded, Done,
       devVars
  <2>2. "waitConnect" \in flags' <=> "waitConnect" \in flags
    BY <1>6 DEF HandleFinished, HandleError, ActionInit, ActionClose, ActionWake, ActionSleep,
       ActionSendMngFrame, ActionSendData, ActionReceiveData, devVars
  <2>3. main = "SEARCH" => ~ActionSendMngFrame /\ act.arg # "C_REQ"
    <3>1. main = "SEARCH" => ~ActionSendMngFrame
      BY InHand DEF ActionSendMngFrame, Doing, Fits, ChipFits, OpenFits
    <3>2. ~ActionSendMngFrame => act.arg # "C_REQ"
      BY <1>6, InHand DEF HandleFinished, Finished, HandleError, ActionInit, ActionClose,
         ActionWake, ActionSleep, ActionSendData, ActionReceiveData, Doing, Fits, ChipFits,
         StateOps
    <3> QED
      BY <3>1, <3>2
  <2>4. main = "SEARCH" => /\ "CREQRCV" \in en' <=> "CREQRCV" \in en
                           /\ "C_REQ" \in ev => "C_REQ" \in ev'
    BY <1>6, <2>3 DEF HandleFinished, HandleError, ActionInit, ActionClose, ActionWake,
       ActionSleep, ActionSendData, ActionReceiveData, ReceiveDataIntUnmask, chipVars, evVars
  <2> QED
    BY <1>0, <2>1, <2>2, <2>3, <2>4 DEF ListenInv, Pending
<1>7. ~(ActionFails \/ InitFails \/ CloseFails \/ WakeFails \/ SendMngFrameFails
        \/ SendDataFails)
  BY <1>0 DEF ActionFails, InitFails, CloseFails, WakeFails, SendMngFrameFails, SendDataFails
<1> QED
  BY <1>1, <1>2, <1>3, <1>4, <1>5, <1>6, <1>7 DEF Execute

\* While no device operation fails, no C-Req is lost while the upper layer waits.
THEOREM CallsKept == ASSUME MaxFault = 0 PROVE Spec => []ListenInv
<1>1. Init => ListenInv
  BY DEF Init, ListenInv
<1>2. IInv /\ ListenInv /\ [Next]_vars => ListenInv'
  BY OthersListen, ScheduleListens, ExecuteListens DEF Next, Task
<1> QED
  BY <1>1, <1>2, Inductive, PTL DEF Spec

\* While no device operation fails, the chip listens for C-Req in SEARCH if and only if
\* the upper layer waits for a connection.
THEOREM Listens == ASSUME MaxFault = 0 PROVE Spec => []ListensWhileWaiting
<1>1. IInv /\ ListenInv => ListensWhileWaiting
  BY ArgsOf DEF IInv, TaskInv, ListenInv, Pending, ListensWhileWaiting
<1> QED
  BY <1>1, Inductive, CallsKept, PTL

(****************************************************************************)
(* Free banks.  TX_READY, the event that notes them (txReady), comes with   *)
(* the change of state to SEARCH and from then on of two sources of the     *)
(* chip.  A connected device that has not noted it has it pending, or a     *)
(* source of it enabled that is up or that a bank in use will raise.  On    *)
(* the way from SEARCH to a connected state nothing waits for it: it is     *)
(* noted before the device leaves SEARCH, unless a C-Req that the last      *)
(* set-up left behind comes before it.                                      *)
(****************************************************************************)
TxSources == {"TXDFRAME", "TXBANKEMPT"}

SetUp == {"CONNECTION_REQUEST", "ACCEPT_WAITING", "RESPONSE_WAITING", "RESPONDER_RESPONSE"}

Answering == {"HANDLE_MNG_FRAME", "HANDLE_UPPER_ORDER", "WAIT_CONNECT"}

Noted == "txReady" \in flags

Awaited ==
  \/ "TX_READY" \in ev \cup irq
  \/ \E s \in TxSources : s \in en /\ (bank > 0 \/ s \in sta)

\* The device is on its way to CLOSE.
Closes == pc = "commit" /\ act.arg = "COMP_CLOSE"

ReadyInv ==
  /\ IsConnected(main) /\ ~Closes => Noted \/ Awaited
  /\ main \in SetUp => Noted
  /\ main = "SEARCH" /\ ~Closes => Noted \/ "TX_READY" \in ev
  /\ pc = "commit" /\ Target(act)[1] = "SEARCH" => "TX_READY" \in ev
  /\ pc = "reset" /\ main = "SEARCH" => "TX_READY" \in ev
  /\ main = "SEARCH" /\ pc = "request" => Noted
  /\ main = "SEARCH" /\ pc \in {"read", "do", "commit"} /\ act.op \in Answering => Noted
  /\ pc = "do" /\ act.op = "SEND_DATA" /\ data.ready = 0 => Awaited

\* In SEARCH the scheduler finds C-Req only after it has noted the free banks.
NoStaleCall == pc = "event" /\ main = "SEARCH" /\ "C_REQ" \in ev => Noted

\* The sources behind TX_READY (IZAN_intToEvent).
LEMMA IntMeansReady ==
  ASSUME NEW bits \in SUBSET Sources
  PROVE  "TX_READY" \in IntToEvent(bits) <=> bits \cap TxSources # {}
<1>1. \A s \in Sources \ PhyInts : "TX_READY" \in EventsOfInt[s] <=> s \in TxSources
  BY DEF Sources, PhyInts, RcvInts, TimInts, DataInts, MftxInts, EventsOfInt, TxSources
<1>2. TxSources \cap PhyInts = {}
  BY DEF TxSources, PhyInts
<1>3. "TX_READY" \notin PhyEvent(bits \cap PhyInts)
  BY DEF PhyEvent
<1>4. "TX_READY" \in IntToEvent(bits) <=> \E s \in bits \ PhyInts : "TX_READY" \in EventsOfInt[s]
  BY <1>3 DEF IntToEvent
<1>5. \A s \in bits \ PhyInts : "TX_READY" \in EventsOfInt[s] <=> s \in TxSources
  BY <1>1
<1>6. (\E s \in bits \ PhyInts : "TX_READY" \in EventsOfInt[s])
        <=> (\E s \in bits \ PhyInts : s \in TxSources)
  BY <1>5
<1> QED
  BY <1>2, <1>4, <1>6

\* The scheduler looked at the events E with the flags F, and did not lose TX_READY.
KeepsReady(E, F) ==
  "TX_READY" \in E \/ "txReady" \in F
    => Noted' \/ ("TX_READY" \in ev' /\ pc' # "request")

\* Frames and settling.
LEMMA FrameKeepsReady ==
  ASSUME NEW E, NEW F,
         NoAction(E, F) \/ \E f \in Frames : RecvdMngFrame(f, E, F)
  PROVE  /\ KeepsReady(E, F)
         /\ pc' = "do" => act'.op \notin Answering
         /\ main = "SEARCH" /\ NoAction(E, F) => pc' = "request"
<1>0. "TX_READY" \notin Frames /\ "TX_READY" # "ACK_FOR_C_ACC" /\ "TX_READY" \in DataEvents
  BY DEF Frames, DataEvents
<1>1. ASSUME NEW A, NEW G, Settle(A, G)
      PROVE  KeepsReady(A, G) /\ pc' = "request"
  BY <1>1 DEF Settle, KeepsReady, Noted
<1>2. ASSUME NEW f \in Frames, NEW A, NEW G, RecvdMngFrame(f, A, G)
      PROVE  KeepsReady(A, G) /\ (pc' = "do" => act'.op \notin Answering)
  <2>0. G \subseteq FrameFlags(f, G) /\ f # "TX_READY"
    BY <1>0 DEF FrameFlags
  <2>1. Err.op \notin Answering /\ Wake.op \notin Answering
    BY DEF Err, Wake, Action, Answering
  <2>2. CASE Handle(Err, "NONE", A \ {f}, G) \/ Handle(Wake, "NONE", A, FrameFlags(f, G))
    <3>1. "TX_READY" \in A => "TX_READY" \in ev'
      BY <2>0, <2>2 DEF Handle
    <3>2. G \subseteq flags' /\ pc' = "do" /\ act' \in {Err, Wake}
      BY <2>0, <2>2 DEF Handle, Take
    <3> QED
      BY <2>1, <3>1, <3>2 DEF KeepsReady, Noted
  <2>3. CASE ev' = A /\ flags' = FrameFlags(f, G) /\ pc' = "read"
    BY <2>0, <2>3 DEF KeepsReady, Noted
  <2>4. CASE Settle(A, FrameFlags(f, G))
    BY <1>1, <2>0, <2>4 DEF KeepsReady
  <2> QED
    BY <1>2, <2>2, <2>3, <2>4 DEF RecvdMngFrame
<1>3. CASE NoAction(E, F)
  <2> DEFINE A == (E \ DataEvents) \cup {"ACK_FOR_C_ACC"}
             G == F \cup {"missCaccAck", "rxReady"}
                    \cup (IF "TX_READY" \in E THEN {"txReady"} ELSE {})
                    \cup (IF "TX_COMP" \in E THEN {"txComp"} ELSE {})
  <2>1. CASE main = "RESPONDER_RESPONSE" /\ \E f \in Frames : RecvdMngFrame(f, A, G)
    <3>1. KeepsReady(A, G) /\ (pc' = "do" => act'.op \notin Answering)
      BY <1>2, <2>1
    <3>2. "TX_READY" \in E \/ "txReady" \in F => "txReady" \in G
      OBVIOUS
    <3> QED
      BY <2>1, <3>1, <3>2 DEF KeepsReady
  <2>2. CASE Settle(E, F)
    BY <1>1, <2>2
  <2> QED
    BY <1>3, <2>1, <2>2 DEF NoAction
<1>4. main = "SEARCH" /\ NoAction(E, F) => pc' = "request"
  BY <1>1 DEF NoAction
<1> QED
  BY <1>2, <1>3, <1>4

\* In SEARCH no other frame than C-Req is read.
LEMMA ReadsInSearch ==
  ASSUME main = "SEARCH", pc' = "read", NEW f \in Frames, NEW E, NEW F, RecvdMngFrame(f, E, F)
  PROVE  f = "C_REQ"
<1>1. FrameValid(f)
  BY DEF RecvdMngFrame, Handle, Take
<1>2. \A x \in Frames \ {"C_REQ"} : ~FrameValid(x)
  BY DEF FrameValid, Frames, IsConnected
<1> QED
  BY <1>1, <1>2

\* What the branch of the events does with TX_READY: it is not lost, and in SEARCH it is
\* noted before anything else than a C-Req is handled.
ReadyKept ==
  /\ KeepsReady(ev, flags)
  /\ pc' = "do" => act'.op \notin Answering
  /\ main = "SEARCH" /\ pc' = "read" => "C_REQ" \in ev

\* The branch of the events (CNL_checkEvent).
LEMMA EventKeepsReady ==
  ASSUME CheckEvent
  PROVE  ReadyKept
<1>0. "TX_READY" \notin CompReqs \cup Timers \cup {"WAKE_REQUIRED", "ERROR_OCCURRED"}
  BY DEF CompReqs, Timers
<1>1. /\ Err.op \notin Answering /\ Wake.op \notin Answering
      /\ \A f, r : Send(f, r).op \notin Answering
      /\ \A x, r : Action("HANDLE_COMPLETE", x, r).op \notin Answering
      /\ \A x, r : Action("HANDLE_TIMEOUT", x, r).op \notin Answering
  BY DEF Err, Wake, Send, Action, Answering
<1>2. ASSUME NEW a, NEW s, NEW E, "TX_READY" \in ev => "TX_READY" \in E,
             Handle(a, s, E, flags), a.op \notin Answering
      PROVE  ReadyKept
  BY <1>2 DEF Handle, Take, KeepsReady, Noted, ReadyKept
<1>3. ASSUME NEW E, "TX_READY" \in ev => "TX_READY" \in E, NoAction(E, flags)
      PROVE  ReadyKept
  <2>1. /\ KeepsReady(E, flags)
        /\ pc' = "do" => act'.op \notin Answering
        /\ main = "SEARCH" => pc' = "request"
    BY <1>3, FrameKeepsReady
  <2> QED
    BY <1>3, <2>1 DEF KeepsReady, ReadyKept
<1>4. CASE \E f \in Frames : Prior(f, ev) /\ RecvdMngFrame(f, ev, flags)
  <2>1. PICK f \in Frames : Prior(f, ev) /\ RecvdMngFrame(f, ev, flags)
    BY <1>4
  <2>2. f \in ev
    BY <2>1 DEF Prior, Unfiltered
  <2>3. main = "SEARCH" /\ pc' = "read" => f = "C_REQ"
    BY <2>1, ReadsInSearch
  <2>4. KeepsReady(ev, flags) /\ (pc' = "do" => act'.op \notin Answering)
    BY <2>1, FrameKeepsReady
  <2> QED
    BY <2>2, <2>3, <2>4 DEF ReadyKept
<1>5. CASE WakeRequired
  <2>1. "TX_READY" \in ev => "TX_READY" \in ev \ {"WAKE_REQUIRED"}
    BY <1>0
  <2> QED
    BY <1>1, <1>2, <1>3, <1>5, <2>1 DEF WakeRequired
<1>6. ASSUME NEW e \in CompReqs, CompRequest(e)
      PROVE  ReadyKept
  <2>1. "TX_READY" \in ev => "TX_READY" \in ev \ {e}
    BY <1>0
  <2>2. CASE e = "COMP_PROBE_REQ" /\ ProbeCompleted
    BY <1>1, <1>2, <1>3, <2>1, <2>2 DEF ProbeCompleted
  <2> QED
    BY <1>1, <1>2, <1>3, <1>6, <2>1, <2>2 DEF CompRequest
<1>7. ASSUME NEW t \in Timers, Timeout(t)
      PROVE  ReadyKept
  <2>1. "TX_READY" \in ev => "TX_READY" \in ev \ {t}
    BY <1>0
  <2> QED
    BY <1>1, <1>2, <1>3, <1>7, <2>1 DEF Timeout
<1>8. CASE Handle(Err, "NONE", ev \ {"ERROR_OCCURRED"}, flags)
  <2>1. "TX_READY" \in ev => "TX_READY" \in ev \ {"ERROR_OCCURRED"}
    BY <1>0
  <2> QED
    BY <1>1, <1>2, <1>8, <2>1
<1>9. CASE NoAction(ev, flags)
  <2>1. "TX_READY" \in ev => "TX_READY" \in ev
    OBVIOUS
  <2> QED
    BY <1>3, <1>9, <2>1
<1> QED
  BY <1>4, <1>5, <1>6, <1>7, <1>8, <1>9 DEF CheckEvent

\* A step of another party.  A bank that empties raises TXDFRAME, the last one
\* TXBANKEMPT too; a source is masked only by what makes an event of it.
LEMMA OthersReady ==
  ASSUME IInv, ReadyInv,
         (\E c \in Callers : Caller(c)) \/ DataCaller \/ UNCHANGED vars \/ Chip \/ Interrupt
  PROVE  ReadyInv'
<1>1. /\ UNCHANGED <<main, sub, flags, pc, act>> /\ Target(act)' = Target(act)
      /\ data'.ready = data.ready
      /\ "TX_READY" \in ev => "TX_READY" \in ev'
  <2>1. /\ UNCHANGED <<main, sub, flags, pc, act>> /\ data'.ready = data.ready
        /\ "TX_READY" \in ev => "TX_READY" \in ev'
    BY CallersMove, ChipMoves, InterruptMoves DEF CallersLeave, ChipLatches, HandlerMoves
  <2> QED
    BY <2>1, TargetStays
<1>2. Awaited => Awaited'
  <2>0. bank \in Nat /\ en \in SUBSET Sources
    BY DEF IInv, TypeOK, DataTypeOK, ChipTypeOK
  <2>1. CASE (\E c \in Callers : Caller(c)) \/ DataCaller \/ UNCHANGED vars
    <3>1. UNCHANGED <<ev, irq, en, bank, sta>>
      BY <2>1, CallersMove DEF CallersLeave
    <3> QED
      BY <3>1 DEF Awaited
  <2>2. CASE DataAcked
    <3>1. /\ UNCHANGED <<ev, irq, en>> /\ bank' = bank - 1
          /\ sta \subseteq sta' /\ "TXDFRAME" \in sta'
          /\ bank = 1 => "TXBANKEMPT" \in sta'
      BY <2>2 DEF DataAcked, evVars
    <3>2. bank > 0 => bank' > 0 \/ TxSources \subseteq sta'
      BY <2>0, <3>1 DEF TxSources
    <3> QED
      BY <3>1, <3>2 DEF Awaited
  <2>3. CASE FrameSent \/ PhyDone
    <3>1. UNCHANGED <<ev, irq, en, bank>> /\ sta \subseteq sta'
      BY <2>3 DEF FrameSent, PhyDone, evVars
    <3> QED
      BY <3>1 DEF Awaited
  <2>4. CASE Interrupt
    <3>1. HandlerMoves
      BY <2>4, InterruptMoves
    <3>2. CASE ev' = ev \cup irq /\ irq' = {} /\ UNCHANGED <<en, sta>>
      BY <3>1, <3>2 DEF HandlerMoves, Awaited
    <3>3. CASE irq = {} /\ UNCHANGED <<ev, en, sta>>
      BY <3>1, <3>3 DEF HandlerMoves, Awaited
    <3>4. ASSUME NEW bits \in SUBSET en, irq = {}, en' = en \ bits, sta' = sta \ bits,
                 irq' = IntToEvent(bits), UNCHANGED ev
          PROVE  Awaited => Awaited'
      <4>1. bits \cap TxSources # {} => "TX_READY" \in irq'
        BY <2>0, <3>4, IntMeansReady
      <4> QED
        BY <3>1, <3>4, <4>1 DEF HandlerMoves, Awaited
    <3> QED
      BY <3>1, <3>2, <3>3, <3>4 DEF HandlerMoves
  <2> QED
    BY <2>1, <2>2, <2>3, <2>4 DEF Chip
<1>3. Noted' = Noted /\ Closes' = Closes
  BY <1>1 DEF Noted, Closes
<1> QED
  BY <1>1, <1>2, <1>3 DEF ReadyInv

\* A step of the scheduler.
LEMMA ScheduleReady ==
  ASSUME IInv, ReadyInv, NoStaleCall, Schedule
  PROVE  ReadyInv'
<1>1. Steering
  BY ScheduleMoves
<1>2. /\ Noted => Noted'
      /\ pc \notin {"do", "commit", "reset"} /\ pc' \notin {"commit", "reset"}
      /\ ~Closes /\ ~Closes'
      /\ UNCHANGED <<main, irq, sta, bank>> /\ en \subseteq en'
  BY <1>1 DEF Steering, Noted, Closes
<1>3. "TX_READY" \in ev => Noted' \/ "TX_READY" \in ev'
  <2>1. CASE CheckEvent
    BY <2>1, EventKeepsReady DEF ReadyKept, KeepsReady
  <2>2. CASE ReadMngBody
    <3> DEFINE E == ev \ {act.arg}
    <3>1. act.arg # "TX_READY"
      BY <2>2 DEF ReadMngBody, IInv, TaskInv, Fits, FrameFits, Frames
    <3>2. Handle(Err, "NONE", E, flags) \/ Handle(act, "NONE", E, flags) \/ NoAction(E, flags)
      BY <2>2 DEF ReadMngBody
    <3>3. "TX_READY" \in ev => "TX_READY" \in E
      BY <3>1
    <3> HIDE DEF E
    <3>4. NoAction(E, flags) => KeepsReady(E, flags)
      BY FrameKeepsReady
    <3> QED
      BY <3>2, <3>3, <3>4 DEF Handle, KeepsReady
  <2>3. CASE TaskWait \/ CheckInitClose \/ CheckRequests
    BY <2>3 DEF TaskWait, CheckInitClose, CheckRequests, evVars
  <2> QED
    BY <2>1, <2>2, <2>3 DEF Schedule
<1>4. Noted \/ Awaited => Noted' \/ Awaited'
  BY <1>2, <1>3 DEF Awaited
<1>5. main = "SEARCH" /\ pc' = "request" => Noted'
  <2>1. CASE CheckEvent
    <3>1. ReadyKept /\ pc = "event"
      BY <2>1, EventKeepsReady DEF CheckEvent
    <3> QED
      BY <1>2, <3>1 DEF ReadyKept, KeepsReady, ReadyInv, Noted
  <2>2. CASE ReadMngBody
    <3>1. /\ act.op \in {"HANDLE_MNG_FRAME", "SKIP_MNG_FRAME"} /\ pc = "read"
          /\ act.op = "SKIP_MNG_FRAME" => main # "SEARCH"
      <4>1. /\ pc = "read" /\ act.op \in {"HANDLE_MNG_FRAME", "SKIP_MNG_FRAME"}
            /\ FrameValid(act.arg) /\ act.arg \in Frames
            /\ act.op = "SKIP_MNG_FRAME" /\ act.arg = "C_REQ" => main # "SEARCH"
        BY <2>2 DEF ReadMngBody, IInv, TaskInv, Fits, FrameFits
      <4>2. main = "SEARCH" => act.arg = "C_REQ"
        BY <4>1 DEF FrameValid, Frames, IsConnected
      <4> QED
        BY <4>1, <4>2
    <3> QED
      BY <1>2, <3>1 DEF ReadyInv, Answering
  <2>3. CASE TaskWait \/ CheckInitClose \/ CheckRequests
    BY <2>3 DEF TaskWait, CheckInitClose, CheckRequests, Take
  <2> QED
    BY <2>1, <2>2, <2>3 DEF Schedule
<1>6. main = "SEARCH" /\ pc' \in {"read", "do"} /\ act'.op \in Answering => Noted'
  <2>1. CASE CheckEvent
    <3>1. ReadyKept /\ pc = "event"
      BY <2>1, EventKeepsReady DEF CheckEvent
    <3> QED
      BY <1>2, <3>1 DEF ReadyKept, NoStaleCall
  <2>2. CASE ReadMngBody
    <3>1. Err.op \notin Answering
      BY DEF Err, Action, Answering
    <3>2. NoAction(ev \ {act.arg}, flags) /\ main = "SEARCH" => pc' = "request"
      BY FrameKeepsReady
    <3>3. pc = "read" /\ (act' \in {Err, act} \/ NoAction(ev \ {act.arg}, flags))
      BY <2>2 DEF ReadMngBody, Handle, Take
    <3> QED
      BY <1>2, <3>1, <3>2, <3>3 DEF ReadyInv
  <2>3. CASE CheckInitClose
    <3>1. \/ pc' = "event" \/ act' = Complete(ctrlQ) \/ act' = Wake
          \/ act' = Action("INIT", "", ctrlQ) \/ act' = Action("CLOSE", "", ctrlQ)
      BY <2>3 DEF CheckInitClose, Take
    <3>2. /\ \A op : Action(op, "", ctrlQ).op = op
          /\ Complete(ctrlQ).op = "HANDLE_COMPLETE" /\ Wake.op = "WAKE"
      BY DEF Action, Complete, Wake
    <3> QED
      BY <3>1, <3>2 DEF Answering
  <2>4. CASE CheckRequests
    BY <1>2, <2>4 DEF CheckRequests, ReadyInv
  <2>5. CASE TaskWait
    BY <2>5 DEF TaskWait
  <2> QED
    BY <2>1, <2>2, <2>3, <2>4, <2>5 DEF Schedule
<1>7. pc' = "do" /\ act'.op = "SEND_DATA" /\ data'.ready = 0 => Awaited'
  <2>1. SUFFICES ASSUME pc' = "do", act'.op = "SEND_DATA", data'.ready = 0
                 PROVE  Awaited'
    OBVIOUS
  <2>2. data'.ready = TxCsduNum - bank /\ (bank > 0 => "TXDFRAME" \in en')
    BY <2>1, ScheduleCounts
  <2>3. bank \in Nat /\ TxCsduNum \in Nat \ {0}
    BY BoundsAssumption DEF IInv, TypeOK, DataTypeOK
  <2>4. bank > 0 /\ bank' = bank
    BY <1>2, <2>1, <2>2, <2>3
  <2> QED
    BY <2>2, <2>4 DEF Awaited, TxSources
<1> QED
  BY <1>2, <1>3, <1>4, <1>5, <1>6, <1>7 DEF ReadyInv

\* In SEARCH, only the closing of the device and an answer to a call or to the upper
\* layer change the state.
LEMMA AnswersInSearch ==
  ASSUME IInv, main = "SEARCH", pc \in {"do", "commit"}, act.op \in StateOps,
         act.arg \notin Finished, act.arg # "COMP_CLOSE"
  PROVE  act.op \in Answering
<1>1. StateAct(act)
  BY TargetInHand
<1>2. CASE act.op = "HANDLE_COMPLETE"
  <2>1. act.arg \in CompReqs \ {"COMP_PROBE_REQ", "COMP_WAKE", "COMP_SLEEP"}
        /\ CompValid(act.arg)
    BY <1>1, <1>2 DEF StateAct, Fits, CompFits, Finished
  <2>2. \A e \in CompReqs \ {"COMP_PROBE_REQ", "COMP_WAKE", "COMP_SLEEP", "COMP_CLOSE"} :
          ~CompValid(e)
    BY DEF CompValid, CompReqs, IsConnected
  <2> QED
    BY <2>1, <2>2
<1>3. CASE act.op = "HANDLE_TIMEOUT"
  <2>1. act.arg \in Timers /\ TimerValid(act.arg)
    BY <1>1, <1>3 DEF StateAct, Fits, TimerFits
  <2>2. \A t \in Timers : ~TimerValid(t)
    BY DEF TimerValid, Timers, IsConnected
  <2> QED
    BY <2>1, <2>2
<1> QED
  BY <1>2, <1>3 DEF StateOps, Answering

\* Who changes the state to a connected one takes over what is enabled and up of the
\* sources of free banks, and the event (IZAN_changeState).
LEMMA ChangeKeepsAwaited ==
  ASSUME IInv, NEW n \in MainStates, NEW ns, ChangeChip(n, ns),
         IsConnected(main), IsConnected(n)
  PROVE  Awaited => Awaited'
<1>0. main # "RESPONSE_WAITING" /\ n \notin {"SEARCH", "CLOSE", "CONNECTION_REQUEST"}
  BY DEF IsConnected
<1>1. TxSources \cap Cleared(n, ns) = {} /\ Cleared(n, ns) \in SUBSET Sources
  BY DEF Cleared, ClearInt, TxSources, DataInts
<1>2. "TX_READY" \in ev => "TX_READY" \in ev'
  <2>1. "TX_READY" \notin IntToEvent(Cleared(n, ns))
    BY <1>1, IntMeansReady
  <2> QED
    BY <2>1 DEF ChangeChip, ChangeEvents
<1>3. \A s \in TxSources : s \in en => s \in en'
  <2>1. TxSources \subseteq DataInts
    BY DEF TxSources, DataInts
  <2>2. en \cap DataInts \subseteq TakenOver(main, n, ns, en)
    BY <1>0 DEF TakenOver
  <2>3. TakenOver(main, n, ns, en) \subseteq en'
    BY DEF ChangeChip, NewInten
  <2> QED
    BY <2>1, <2>2, <2>3
<1>4. \A s \in TxSources : s \in sta => s \in sta'
  BY <1>0, <1>1 DEF ChangeChip, ChangeTransmission
<1>5. bank' = bank /\ irq' = irq
  BY <1>0 DEF ChangeChip, ChangeTransmission, Released
<1> QED
  BY <1>2, <1>3, <1>4, <1>5 DEF Awaited

\* Sending: the banks that are filled will raise a source that is enabled now; with none
\* filled there was nothing left to send, or no bank free.
LEMMA SendingKeepsReady ==
  ASSUME IInv, ReadyInv, ActionSendData
  PROVE  Noted' \/ Awaited'
<1>1. /\ pc = "do" /\ act.op = "SEND_DATA" /\ IsConnected(main)
      /\ UNCHANGED <<ev, irq, sta>>
  BY SendsMove DEF Sends
<1>2. /\ bank' = bank + ToSend
      /\ Noted /\ ToSend # data.ready => Noted'
      /\ en' = IF ToSend > 0 THEN en \cup {"TXDFRAME", "TXBANKEMPT"} ELSE en
  BY DEF ActionSendData, Noted
<1>3. ToSend \in Nat /\ bank \in Nat
  BY CountersStay DEF IInv, TypeOK, DataTypeOK
<1>4. CASE ToSend > 0
  <2>1. bank' > 0 /\ "TXDFRAME" \in en'
    BY <1>2, <1>3, <1>4
  <2> QED
    BY <2>1 DEF Awaited, TxSources
<1>5. CASE ToSend = 0
  <2>1. UNCHANGED <<en, bank>>
    BY <1>2, <1>3, <1>5
  <2>2. Awaited => Awaited'
    BY <1>1, <2>1 DEF Awaited
  <2>3. CASE data.ready = 0
    BY <1>1, <2>2, <2>3 DEF ReadyInv
  <2>4. CASE data.ready # 0
    BY <1>1, <1>2, <1>5, <2>2, <2>4 DEF ReadyInv, Closes
  <2> QED
    BY <2>3, <2>4
<1> QED
  BY <1>3, <1>4, <1>5

\* A step of an action.
LEMMA ExecuteReady ==
  ASSUME IInv, ReadyInv, MaxFault = 0, Execute
  PROVE  ReadyInv'
<1>0. Executing /\ ~DeviceFault /\ ~Failed /\ UNCHANGED irq
  BY ExecutesInHand, NoFaults, ExecutePerforms DEF Performing
<1>1. CASE HandleStateChange
  <2>1. /\ pc = "do" /\ act.op \in StateOps /\ act.arg \notin Finished
        /\ UNCHANGED main /\ Noted' = Noted
    BY <1>1 DEF HandleStateChange, Doing, Unfilters, Noted
  <2>2. Target(act)[1] \in MainStates /\ Leads(Target(act)[1], Target(act)[2])
    BY <2>1, TargetInHand, TargetLeads
  <2>3. CASE Target(act) = <<main, sub>> /\ pc' = "sched" /\ UNCHANGED <<evVars, chipVars>>
    <3>1. Awaited' = Awaited /\ ev' = ev
      BY <2>3 DEF Awaited, evVars, chipVars
    <3> QED
      BY <2>1, <2>3, <3>1 DEF ReadyInv, Closes
  <2>4. CASE ChangeChip(Target(act)[1], Target(act)[2]) /\ pc' = "commit" /\ UNCHANGED act
    <3> DEFINE n == Target(act)[1]
    <3>1. Target(act)' = Target(act)
      BY <1>1, <2>4, TargetStays DEF HandleStateChange
    <3>2. n = "SEARCH" => "TX_READY" \in ev'
      BY <2>4 DEF ChangeChip, ChangeEvents
    <3>3. Closes' <=> act.arg = "COMP_CLOSE"
      BY <2>4 DEF Closes
    <3>4. IsConnected(main) /\ act.arg # "COMP_CLOSE" => Noted \/ Awaited'
      <4>1. SUFFICES ASSUME IsConnected(main), act.arg # "COMP_CLOSE", ~Noted
                     PROVE  Awaited'
        OBVIOUS
      <4>2. n # "CLOSE" /\ (n = "SEARCH" \/ IsConnected(n))
        BY <2>2, <4>1 DEF Leads
      <4>3. CASE n = "SEARCH"
        BY <3>2, <4>3 DEF Awaited
      <4>4. CASE IsConnected(n)
        <5>1. Awaited
          BY <2>1, <4>1 DEF ReadyInv, Closes
        <5> QED
          BY <2>2, <2>4, <4>1, <4>4, <5>1, ChangeKeepsAwaited
      <4> QED
        BY <4>2, <4>3, <4>4
    <3>5. main = "SEARCH" /\ act.arg # "COMP_CLOSE" => Noted
      BY <2>1, AnswersInSearch DEF ReadyInv
    <3>6. main = "SEARCH" /\ act.op \in Answering => Noted
      BY <2>1 DEF ReadyInv
    <3>7. main \in SetUp => Noted
      BY DEF ReadyInv
    <3> QED
      BY <2>1, <2>4, <3>1, <3>2, <3>3, <3>4, <3>5, <3>6, <3>7 DEF ReadyInv
  <2> QED
    BY <1>0, <1>1, <2>3, <2>4 DEF HandleStateChange, Finish, Done
<1>2. CASE CommitState
  <2>1. /\ main' = Target(act)[1] /\ pc = "commit" /\ Leads(main', sub')
        /\ UNCHANGED <<flags, ev, irq, en, sta, bank>>
        /\ pc' = IF main' \in {"SEARCH", "CLOSE"} THEN "reset" ELSE "sched"
    BY <1>2, CommitsTarget
  <2>2. /\ act.op \in StateOps /\ act.arg \notin Finished
        /\ main \in MainStates /\ main' \in MainStates
    BY <1>2, <2>1, TargetInHand DEF IInv, TypeOK, DevTypeOK, TaskInv
  <2>3. Noted' = Noted /\ Awaited' = Awaited
    BY <2>1 DEF Noted, Awaited
  <2>4. CASE main' = "CLOSE"
    BY <2>1, <2>4 DEF ReadyInv, IsConnected, SetUp
  <2>5. CASE main' = "SEARCH"
    BY <2>1, <2>5 DEF ReadyInv, IsConnected, SetUp
  <2>6. CASE main' \notin {"SEARCH", "CLOSE"}
    <3>1. act.arg # "COMP_CLOSE" /\ main # "CLOSE"
      BY <2>1, <2>6 DEF Leads
    <3>2. main = "SEARCH" \/ main \in SetUp => Noted
      BY <2>1, <2>2, <3>1, AnswersInSearch DEF ReadyInv
    <3>3. IsConnected(main) => IsConnected(main') /\ (Noted \/ Awaited)
      BY <2>1, <2>6, <3>1 DEF Leads, ReadyInv, Closes
    <3>4. main = "SEARCH" \/ main \in SetUp \/ IsConnected(main)
      BY <2>2, <3>1 DEF MainStates, SetUp, IsConnected
    <3>5. main' \in SetUp => ~IsConnected(main')
      BY DEF SetUp, IsConnected
    <3> QED
      BY <2>1, <2>3, <2>6, <3>2, <3>3, <3>4, <3>5 DEF ReadyInv
  <2> QED
    BY <2>4, <2>5, <2>6
<1>3. CASE ResetClosed \/ ResetReleased
  <2>1. /\ pc = "reset" /\ pc' = "sched" /\ UNCHANGED main
        /\ main = "CLOSE" \/ (main = "SEARCH" /\ ev' = ev \cap {"ERROR_OCCURRED", "TX_READY"})
    BY <1>3 DEF ResetClosed, ResetReleased, Finish, Done
  <2> QED
    BY <2>1 DEF ReadyInv, IsConnected, SetUp
<1>4. CASE ActionClose
  <2>1. /\ pc = "do" /\ pc' = "sched" /\ UNCHANGED <<main, flags>>
        /\ main # "SEARCH" => "TX_READY" \in ev'
        /\ main = "SEARCH" => ev' = ev
    BY <1>4 DEF ActionClose, Doing, Succeeded, Done, ChangeEvents
  <2> QED
    BY <2>1 DEF ReadyInv, Awaited, Noted, Closes, IsConnected
<1>5. CASE ActionSendData
  <2>1. /\ pc = "do" /\ pc' = "sched" /\ UNCHANGED main /\ IsConnected(main)
    BY <1>5, SendsMove DEF Sends, ActionSendData, Succeeded, Done
  <2>2. main \notin SetUp /\ main # "SEARCH"
    BY <2>1 DEF SetUp, IsConnected
  <2> QED
    BY <1>5, <2>1, <2>2, SendingKeepsReady DEF ReadyInv
<1>6. CASE HandleFinished \/ HandleError \/ ActionInit \/ ActionWake \/ ActionSleep
           \/ ActionSendMngFrame \/ ActionReceiveData
  <2>1. pc = "do" /\ pc' = "sched" /\ UNCHANGED <<main, bank>>
    BY <1>6 DEF HandleFinished, HandleError, ActionInit, ActionWake, ActionSleep,
       ActionSendMngFrame, ActionReceiveData, Doing, Finish, Succeeded, Done, devVars, chipVars
  <2>2. Noted' = Noted
    BY <1>6 DEF HandleFinished, HandleError, ActionInit, ActionWake, ActionSleep,
       ActionSendMngFrame, ActionReceiveData, devVars, Noted
  <2>3. "TX_READY" \in ev => "TX_READY" \in ev'
    BY <1>6 DEF HandleFinished, HandleError, ActionInit, ActionWake, ActionSleep,
       ActionSendMngFrame, ActionReceiveData, ReceiveDataIntUnmask, evVars
  <2>4. en \subseteq en' /\ \A s \in TxSources : s \in sta => s \in sta'
    BY <1>6 DEF HandleFinished, HandleError, ActionInit, ActionWake, ActionSleep,
       ActionSendMngFrame, ActionReceiveData, ReceiveDataIntUnmask, chipVars, TxSources
  <2>5. Awaited => Awaited'
    BY <1>0, <2>1, <2>3, <2>4 DEF Awaited
  <2> QED
    BY <2>1, <2>2, <2>3, <2>5 DEF ReadyInv, Closes
<1>7. CASE WaitConnect \/ CancelWaitConnect
  <2>1. /\ main = "SEARCH" /\ pc = "do"
    BY <1>7, InHand DEF WaitConnect, CancelWaitConnect, Doing, Fits, ChipFits, OpenFits
  <2>2. /\ UNCHANGED <<main, pc, ev>> /\ Noted' = Noted
        /\ act' = Complete(act.req)
    BY <1>0, <1>7 DEF WaitConnect, CancelWaitConnect, AnswerNow, evVars, Noted
  <2>3. Complete(act.req).op \notin Answering \cup {"SEND_DATA"}
    BY DEF Complete, Action, Answering
  <2> QED
    BY <2>1, <2>2, <2>3 DEF ReadyInv, Closes, IsConnected, SetUp
<1>8. ~(ActionFails \/ InitFails \/ CloseFails \/ WakeFails \/ SendMngFrameFails
        \/ SendDataFails)
  BY <1>0 DEF ActionFails, InitFails, CloseFails, WakeFails, SendMngFrameFails, SendDataFails
<1> QED
  BY <1>1, <1>2, <1>3, <1>4, <1>5, <1>6, <1>7, <1>8 DEF Execute

\* While no device operation fails, and a C-Req left over from a set-up that was given up
\* is not found before the free banks are noted, a connected device knows of its free
\* banks or will be told of them.  The theorems TxReadyKeptUncalled and TxReadyKeptCalled
\* say of which devices the second condition is true.
LEMMA FreeBanksKnown == ASSUME MaxFault = 0 PROVE Spec /\ []NoStaleCall => []ReadyInv
<1>1. Init => ReadyInv
  <2>1. Init => main = "CLOSE" /\ pc = "wait"
    BY DEF Init
  <2> QED
    BY <2>1 DEF ReadyInv, SetUp, IsConnected
<1>2. IInv /\ NoStaleCall /\ ReadyInv /\ [Next]_vars => ReadyInv'
  BY OthersReady, ScheduleReady, ExecuteReady DEF Next, Task
<1> QED
  BY <1>1, <1>2, Inductive, PTL DEF Spec

\* Under the same conditions TX_READY is not lost between the masking of the interrupt,
\* the change of state and the reading of the banks: an idle connected device whose chip
\* has nothing more to report knows that it can send.
LEMMA TxReadyKept == ASSUME MaxFault = 0 PROVE Spec /\ []NoStaleCall => []TxReadyNotLost
<1>1. ReadyInv /\ ListenInv => TxReadyNotLost
  <2>1. SUFFICES ASSUME ReadyInv, ListenInv, IsConnected(main), bank = 0, pc = "wait",
                        ~signaled, irq = {}, sta \cap en = {}
                 PROVE  Noted
    BY DEF TxReadyNotLost, Noted
  <2>2. ev = {} /\ ~Closes
    BY <2>1 DEF ListenInv, Closes
  <2>3. ~Awaited
    BY <2>1, <2>2 DEF Awaited
  <2> QED
    BY <2>1, <2>2, <2>3 DEF ReadyInv
<1> QED
  BY <1>1, FreeBanksKnown, CallsKept, PTL
(****************************************************************************)
(* Calls.  Two kinds of devices never find a C-Req that an earlier set-up   *)
(* left behind: one whose peers do not call it, and one that only waits to  *)
(* be called and is not closed.                                             *)
(****************************************************************************)
\* Of the end of C-Rls (IZAN_intToEvent).
LEMMA IntMeansReleased ==
  ASSUME NEW bits \in SUBSET Sources
  PROVE  "COMP_RELEASE_REQ" \in IntToEvent(bits) <=> "CRLSTX" \in bits
<1>1. \A s \in Sources \ PhyInts : "COMP_RELEASE_REQ" \in EventsOfInt[s] <=> s = "CRLSTX"
  BY DEF Sources, PhyInts, RcvInts, TimInts, DataInts, MftxInts, EventsOfInt
<1>2. "CRLSTX" \in Sources \ PhyInts
  BY DEF Sources, PhyInts, MftxInts
<1>3. "COMP_RELEASE_REQ" \notin PhyEvent(bits \cap PhyInts)
  BY DEF PhyEvent
<1>4. "COMP_RELEASE_REQ" \in IntToEvent(bits)
        <=> \E s \in bits \ PhyInts : "COMP_RELEASE_REQ" \in EventsOfInt[s]
  BY <1>3 DEF IntToEvent
<1>5. \A s \in bits \ PhyInts : "COMP_RELEASE_REQ" \in EventsOfInt[s] <=> s = "CRLSTX"
  BY <1>1
<1> QED
  BY <1>2, <1>4, <1>5

\* What an interrupt makes of C-Req and of the end of C-Rls (irqHandler).
LEMMA HandlerSees ==
  ASSUME IInv, Interrupt
  PROVE  /\ "C_REQ" \in irq' => "CREQRCV" \in en /\ "CREQRCV" \in sta \cup Air
         /\ "COMP_RELEASE_REQ" \in irq' => "CRLSTX" \in sta
         /\ irq' # {} => UNCHANGED ev
         /\ "CREQRCV" \in en' => "CREQRCV" \in en
<1>1. CASE IrqAddEvent
  BY <1>1 DEF IrqAddEvent, chipVars
<1>2. ASSUME NEW A \in SUBSET Air, IrqMask(A)
      PROVE  /\ "C_REQ" \in irq' => "CREQRCV" \in en /\ "CREQRCV" \in sta \cup Air
             /\ "COMP_RELEASE_REQ" \in irq' => "CRLSTX" \in sta
             /\ irq' # {} => UNCHANGED ev
             /\ "CREQRCV" \in en' => "CREQRCV" \in en
  <2> DEFINE bits == (sta \cup A) \cap en
  <2>1. UNCHANGED ev
    BY <1>2 DEF IrqMask
  <2>2. CASE pmu = "POWERSAVE"
    BY <1>2, <2>1, <2>2 DEF IrqMask
  <2>3. CASE pmu # "POWERSAVE"
    <3>1. en' = en \ bits /\ irq' = IntToEvent(bits)
      BY <1>2, <2>3 DEF IrqMask
    <3>2. bits \in SUBSET Sources
      BY TypesOf
    <3>3. "C_REQ" \in irq' => "CREQRCV" \in bits
      BY <3>1, <3>2, IntMeans
    <3>4. "COMP_RELEASE_REQ" \in irq' => "CRLSTX" \in bits
      BY <3>1, <3>2, IntMeansReleased
    <3>5. "CRLSTX" \notin A
      BY AirAssumption DEF SpontaneousInts, RcvInts, TimInts
    <3> QED
      BY <2>1, <3>1, <3>3, <3>4, <3>5
  <2> QED
    BY <2>2, <2>3
<1> QED
  BY <1>1, <1>2 DEF Interrupt

\* No action latches a status.
LEMMA ExecuteClears ==
  ASSUME Execute
  PROVE  sta' \subseteq sta
<1>1. \A n, ns : ChangeChip(n, ns) \/ ChangeTransmission(n, ns) \/ ChangeFails(n, ns)
                   => sta' \subseteq sta
  BY DEF ChangeChip, ChangeTransmission, ChangeFails
<1>2. CASE ActionClose \/ CloseFails \/ HandleStateChange
  BY <1>1, <1>2 DEF ActionClose, CloseFails, HandleStateChange, chipVars
<1>3. CASE ActionWake \/ WakeFails \/ WaitConnect
  BY <1>3 DEF ActionWake, WakeFails, WaitConnect
<1>4. CASE /\ ~ActionClose /\ ~CloseFails /\ ~HandleStateChange
           /\ ~ActionWake /\ ~WakeFails /\ ~WaitConnect
  BY <1>4 DEF Execute, ActionInit, ActionSleep, ActionSendMngFrame, ActionSendData,
     ActionReceiveData, ActionFails, InitFails, SendMngFrameFails, SendDataFails,
     CancelWaitConnect, HandleFinished, CommitState, ResetClosed, ResetReleased, HandleError,
     chipVars
<1> QED
  BY <1>2, <1>3, <1>4

\* The chip latches the end of the frame that it was sending, and no received frame.
LEMMA ChipReports ==
  ASSUME IInv, Chip
  PROVE  /\ "CREQRCV" \in sta' => "CREQRCV" \in sta
         /\ "CRLSTX" \in sta' => "CRLSTX" \in sta \/ tx = "C_RLS"
         /\ tx' \in {tx, "none"}
<1>0. tx \in DOMAIN TxStatus \cup {"none"} /\ phy \in {"none", "init", "wake", "close"}
  BY DEF IInv, TypeOK, ChipTypeOK
<1>1. CASE FrameSent
  <2>1. TxStatus[tx] # "CREQRCV" /\ (TxStatus[tx] = "CRLSTX" => tx = "C_RLS")
    BY <1>0, <1>1 DEF FrameSent, TxStatus
  <2> QED
    BY <1>1, <2>1 DEF FrameSent
<1>2. CASE DataAcked
  BY <1>2 DEF DataAcked
<1>3. CASE PhyDone
  <2>1. {"CREQRCV", "CRLSTX"} \cap PhyInt[phy] = {}
    BY <1>0 DEF PhyInt
  <2> QED
    BY <1>3, <2>1 DEF PhyDone
<1> QED
  BY <1>1, <1>2, <1>3 DEF Chip

\* A device that is not called.
Uncalled == "CREQRCV" \notin sta /\ "C_REQ" \notin irq \cup ev

LEMMA NextUncalled ==
  ASSUME IInv, Uncalled, [Next]_vars, "CREQRCV" \notin Air
  PROVE  Uncalled'
<1>1. CASE (\E c \in Callers : Caller(c)) \/ DataCaller \/ UNCHANGED vars
  BY <1>1, CallersMove DEF CallersLeave, Uncalled
<1>2. CASE Chip
  BY <1>2, ChipMoves, ChipReports DEF ChipLatches, Uncalled
<1>3. CASE Interrupt
  <2>1. "C_REQ" \notin irq'
    BY <1>3, HandlerSees DEF Uncalled
  <2>2. ev' \subseteq ev \cup irq /\ sta' \subseteq sta
    BY <1>3, InterruptMoves DEF HandlerMoves
  <2> QED
    BY <2>1, <2>2 DEF Uncalled
<1>4. CASE Schedule
  BY <1>4, ScheduleMoves DEF Steering, Uncalled
<1>5. CASE Execute
  BY <1>5, ExecutePerforms, ExecuteClears DEF Performing, Uncalled
<1> QED
  BY <1>1, <1>2, <1>3, <1>4, <1>5 DEF Next, Task

\* A device that its peers do not call, whose operations do not fail, knows of its free
\* banks, however often its links are set up, released, lost and closed.
THEOREM TxReadyKeptUncalled ==
  ASSUME MaxFault = 0, "CREQRCV" \notin Air
  PROVE  Spec => []TxReadyNotLost
<1>1. Init => Uncalled
  BY DEF Init, Uncalled
<1>2. IInv /\ Uncalled /\ [Next]_vars => Uncalled'
  BY NextUncalled
<1>3. Uncalled => NoStaleCall
  BY DEF Uncalled, NoStaleCall
<1> QED
  BY <1>1, <1>2, <1>3, Inductive, TxReadyKept, PTL DEF Spec

(****************************************************************************)
(* A device that only waits to be called and is not closed.  C-Req is       *)
(* enabled only in SEARCH after the free banks were noted.  One that is     *)
(* reported late, when the first has already been answered, is still in the *)
(* hands of the handler, which therefore reports nothing else: what would   *)
(* end the set-up comes after it, and the change of state clears it.        *)
(****************************************************************************)
\* What ends a link, or the setting up of one.
Ends == {"COMP_RELEASE_REQ", "C_RLS", "T_CONNECT", "T_ACCEPT", "T_RETRY"}

Hand == IF act.op = "SEND_MNG_FRAME" THEN {} ELSE {act.arg}

\* Nobody asks the device to connect.
NeverConnects ==
  /\ ~Connecting
  /\ main # "CONNECTION_REQUEST"
  /\ act.arg # "CONNECT_REQ"

CalledInv ==
  /\ "CREQRCV" \in en => main = "SEARCH" /\ Noted /\ pc # "commit"
  /\ main = "CLOSE" => "C_REQ" \notin irq \cup ev
  /\ "C_REQ" \in irq /\ (main # "SEARCH" \/ pc = "commit") => Ends \cap (ev \cup Hand) = {}
  /\ main = "SEARCH" /\ ("CREQRCV" \in en \/ "C_REQ" \in Pending)
       => "CRLSTX" \notin sta /\ Noted
  /\ main = "SEARCH" /\ "C_REQ" \in ev \cup {act.arg} => "COMP_RELEASE_REQ" \notin irq
  /\ main = "SEARCH" /\ act.arg = "C_REQ" => "COMP_RELEASE_REQ" \notin ev
  /\ main \in {"SEARCH", "CLOSE"} => tx # "C_RLS"
  /\ (pc = "commit" /\ Target(act)[1] = "SEARCH") \/ pc = "reset"
       => tx # "C_RLS" /\ "C_REQ" \notin irq \cup ev
  /\ pc = "do" /\ act.op = "WAIT_CONNECT" => Noted

\* The arguments that the lemmas below follow into the hands of the task.
Followed == Ends \cup {"C_REQ", "CONNECT_REQ"}

\* Frames and settling.
LEMMA FrameArgs ==
  ASSUME NEW E, NEW F,
         NoAction(E, F) \/ \E f \in Frames \cap E : RecvdMngFrame(f, E, F)
  PROVE  act'.arg \in Followed => act'.arg \in E
<1>0. /\ Err.arg \notin Followed /\ Wake.arg \notin Followed /\ Nop.arg \notin Followed
      /\ "ACK_FOR_C_ACC" \notin Followed
  BY DEF Err, Wake, Nop, Action, Followed, Ends
<1>1. ASSUME NEW f, NEW A, NEW G, RecvdMngFrame(f, A, G)
      PROVE  act'.arg \in Followed => act'.arg = f
  <2>1. act' \in {Err, Wake, Nop} \/ \E op : act' = Action(op, f, NoReq)
    BY <1>1 DEF RecvdMngFrame, Handle, Take, Settle
  <2>2. \A op : Action(op, f, NoReq).arg = f
    BY DEF Action
  <2> QED
    BY <1>0, <2>1, <2>2
<1>2. CASE NoAction(E, F)
  <2> DEFINE A == (E \ DataEvents) \cup {"ACK_FOR_C_ACC"}
             G == F \cup {"missCaccAck", "rxReady"}
                    \cup (IF "TX_READY" \in E THEN {"txReady"} ELSE {})
                    \cup (IF "TX_COMP" \in E THEN {"txComp"} ELSE {})
  <2>1. CASE \E f \in Frames : Prior(f, A \cap Frames) /\ RecvdMngFrame(f, A, G)
    <3>1. PICK f \in Frames : Prior(f, A \cap Frames) /\ RecvdMngFrame(f, A, G)
      BY <2>1
    <3>2. f \in E \cup {"ACK_FOR_C_ACC"}
      BY <3>1 DEF Prior, Unfiltered
    <3>3. act'.arg \in Followed => act'.arg = f
      BY <1>1, <3>1
    <3> QED
      BY <1>0, <3>2, <3>3
  <2>2. CASE act' = Nop
    BY <1>0, <2>2
  <2> QED
    BY <1>2, <2>1, <2>2 DEF NoAction, Settle
<1> QED
  BY <1>1, <1>2

\* The branch of the events: a C-Req comes after the end of C-Rls.
LEMMA EventArgs ==
  ASSUME CheckEvent
  PROVE  /\ act'.arg \in Followed => act'.arg \in ev
         /\ main = "SEARCH" /\ act'.arg = "C_REQ" => "COMP_RELEASE_REQ" \notin ev
<1>0. /\ Err.arg \notin Followed /\ Wake.arg \notin Followed
      /\ \A r : Send("C_SLEEP", r).arg \notin Followed
      /\ "C_REQ" \in Followed /\ "C_REQ" \notin CompReqs \cup Timers
  BY DEF Err, Wake, Send, Action, Followed, Ends, CompReqs, Timers
<1>1. ASSUME NEW a, NEW s, NEW E, NEW F, Handle(a, s, E, F)
      PROVE  act' = a
  BY <1>1 DEF Handle, Take
<1>2. ASSUME NEW E, NEW F, NoAction(E, F), E \subseteq ev
      PROVE  /\ act'.arg \in Followed => act'.arg \in ev
             /\ main = "SEARCH" => act'.arg # "C_REQ"
  <2>1. act'.arg \in Followed => act'.arg \in ev
    BY <1>2, FrameArgs
  <2>2. main = "SEARCH" => act' = Nop
    BY <1>2 DEF NoAction, Settle
  <2>3. Nop.arg # "C_REQ"
    BY DEF Nop, Action
  <2> QED
    BY <2>1, <2>2, <2>3
<1>3. CASE \E f \in Frames : Prior(f, ev) /\ RecvdMngFrame(f, ev, flags)
  <2>1. PICK f \in Frames : Prior(f, ev) /\ RecvdMngFrame(f, ev, flags)
    BY <1>3
  <2>2. f \in ev
    BY <2>1 DEF Prior, Unfiltered
  <2>3. act'.arg \in Followed => act'.arg \in ev
    BY <2>1, <2>2, FrameArgs
  <2>4. main = "SEARCH" /\ act'.arg = "C_REQ" => f = "C_REQ"
    <3>1. act' \in {Err, Wake, Nop} \/ \E op : act' = Action(op, f, NoReq)
      BY <2>1 DEF RecvdMngFrame, Handle, Take, Settle
    <3>2. /\ Err.arg # "C_REQ" /\ Wake.arg # "C_REQ" /\ Nop.arg # "C_REQ"
          /\ \A op : Action(op, f, NoReq).arg = f
      BY DEF Err, Wake, Nop, Action
    <3> QED
      BY <3>1, <3>2
  <2>5. f = "C_REQ" => "COMP_RELEASE_REQ" \notin ev
    <3>1. SUFFICES ASSUME Prior("C_REQ", ev)
                   PROVE  "COMP_RELEASE_REQ" \notin ev
      BY <2>1
    <3>2. PICK i \in DOMAIN Priority :
            "C_REQ" = Priority[i] /\ \A j \in 1 .. (i - 1) : Priority[j] \notin Unfiltered(ev)
      BY <3>1 DEF Prior
    <3>3. i > 8 /\ i \in Nat /\ Priority[8] = "COMP_RELEASE_REQ"
      BY <3>2 DEF Priority
    <3>4. "COMP_RELEASE_REQ" \notin Unfiltered(ev)
      BY <3>2, <3>3
    <3> QED
      BY <3>4 DEF Unfiltered, DataEvents
  <2> QED
    BY <2>3, <2>4, <2>5
<1>4. CASE WakeRequired
  BY <1>0, <1>1, <1>2, <1>4 DEF WakeRequired
<1>5. ASSUME NEW e \in CompReqs, Prior(e, ev), CompRequest(e)
      PROVE  /\ act'.arg \in Followed => act'.arg \in ev
             /\ main = "SEARCH" => act'.arg # "C_REQ"
  <2>0. e \in ev /\ e # "C_REQ" /\ \A r : Action("HANDLE_COMPLETE", e, r).arg = e
    BY <1>0, <1>5 DEF Prior, Unfiltered, Action
  <2>1. CASE act' \in {Err, Wake, Send("C_SLEEP", PwrReq)}
    BY <1>0, <2>1
  <2>2. CASE \E E \in SUBSET ev : NoAction(E, flags)
    BY <1>2, <2>2
  <2>3. CASE \E r : act' = Action("HANDLE_COMPLETE", e, r)
    BY <2>0, <2>3
  <2> QED
    BY <1>1, <1>5, <2>1, <2>2, <2>3 DEF CompRequest, ProbeCompleted
<1>6. ASSUME NEW t \in Timers, Prior(t, ev), Timeout(t)
      PROVE  /\ act'.arg \in Followed => act'.arg \in ev
             /\ main = "SEARCH" => act'.arg # "C_REQ"
  <2>0. t \in ev /\ t # "C_REQ" /\ Action("HANDLE_TIMEOUT", t, NoReq).arg = t
    BY <1>0, <1>6 DEF Prior, Unfiltered, Action
  <2>1. CASE act' \in {Err, Wake, Action("HANDLE_TIMEOUT", t, NoReq)}
    BY <1>0, <2>0, <2>1
  <2>2. CASE NoAction(ev, flags)
    BY <1>2, <2>2
  <2> QED
    BY <1>1, <1>6, <2>1, <2>2 DEF Timeout
<1>7. CASE Handle(Err, "NONE", ev \ {"ERROR_OCCURRED"}, flags)
  BY <1>0, <1>1, <1>7
<1>8. CASE NoAction(ev, flags)
  BY <1>2, <1>8
<1> QED
  BY <1>3, <1>4, <1>5, <1>6, <1>7, <1>8 DEF CheckEvent

\* The branch of the requests.
LEMMA RequestArgs ==
  ASSUME IInv, IInv', CheckRequests
  PROVE  /\ act'.arg \in Ends \cup {"C_REQ"}
              => act'.op = "SEND_MNG_FRAME" /\ main \notin {"SEARCH", "CLOSE"}
         /\ act'.arg = "CONNECT_REQ" => Connecting
         /\ pc' = "do" /\ act'.op = "WAIT_CONNECT" => main = "SEARCH"
<1>0. Nop.arg \notin Ends \cup {"C_REQ"} /\ main' = main
  BY DEF Nop, Action, Ends, CheckRequests, devVars
<1>1. act'.arg \notin CompReqs /\ act'.op \notin NotOfRequests
      /\ (act'.arg = "CONNECT_REQ" => Connecting)
  BY RequestMoves
<1>2. pc' = "do" \/ act' = Nop
  BY Zenon DEF CheckRequests, Take
<1>3. CASE pc' = "do"
  <2>1. (CompFits(act) /\ OrderFits(act) /\ ChipFits(act))'
    BY <1>3 DEF IInv, TaskInv, Fits
  <2>2. act'.op \notin StateOps \cup {"SEND_MNG_FRAME", "SKIP_MNG_FRAME"} => act'.arg = ""
    BY <2>1 DEF ChipFits
  <2>3. act'.op = "HANDLE_COMPLETE" => act'.arg = "COMP_NULL"
    BY <1>1, <2>1 DEF CompFits
  <2>4. act'.op = "HANDLE_UPPER_ORDER" => act'.arg \notin Ends \cup {"C_REQ"}
    BY <2>1 DEF OrderFits, Ends
  <2>5. act'.arg \in Ends \cup {"C_REQ"} => act'.op = "SEND_MNG_FRAME"
    BY <1>1, <2>2, <2>3, <2>4 DEF StateOps, NotOfRequests, Ends
  <2>6. act'.op = "SEND_MNG_FRAME" => main' \notin {"SEARCH", "CLOSE"}
    BY <2>1 DEF ChipFits, OpenFits
  <2>7. act'.op = "WAIT_CONNECT" => main' = "SEARCH"
    BY <2>1 DEF ChipFits, OpenFits
  <2> QED
    BY <1>0, <1>1, <2>5, <2>6, <2>7
<1> QED
  BY <1>0, <1>1, <1>2, <1>3

\* What a step of the scheduler takes in hand was pending, or in hand already, or is
\* about to be sent.
LEMMA ScheduleArgs ==
  ASSUME IInv, IInv', Schedule
  PROVE  /\ act'.arg \in Ends \cup {"C_REQ"}
              => \/ act'.arg \in ev \cup {act.arg}
                 \/ act'.op = "SEND_MNG_FRAME" /\ main \notin {"SEARCH", "CLOSE"}
         /\ act'.arg = "CONNECT_REQ" => Connecting \/ act.arg = "CONNECT_REQ"
         /\ main = "SEARCH" /\ act'.arg = "C_REQ" =>
              act.arg = "C_REQ" \/ "COMP_RELEASE_REQ" \notin ev
<1>0. "CONNECT_REQ" \notin ev
  BY TypesOf DEF Events, CompReqs, Timers, Frames, DataEvents
<1>1. CASE TaskWait
  BY <1>1 DEF TaskWait
<1>2. CASE CheckInitClose
  <2>1. act'.arg \notin Followed \/ act' = act
    <3>1. act' \in {act, Complete(ctrlQ), Wake} \/ \E op : act' = Action(op, "", ctrlQ)
      BY <1>2 DEF CheckInitClose, Take
    <3>2. /\ Complete(ctrlQ).arg \notin Followed /\ Wake.arg \notin Followed
          /\ \A op : Action(op, "", ctrlQ).arg \notin Followed
      BY DEF Complete, Wake, Action, Followed, Ends
    <3> QED
      BY <3>1, <3>2
  <2> QED
    BY <2>1 DEF Followed
<1>3. CASE CheckEvent
  BY <1>0, <1>3, EventArgs DEF Followed
<1>4. CASE ReadMngBody
  <2> DEFINE E == ev \ {act.arg}
  <2>1. act' = Err \/ act' = act \/ NoAction(E, flags)
    BY <1>4 DEF ReadMngBody, Handle, Take
  <2>2. Err.arg \notin Followed
    BY DEF Err, Action, Followed, Ends
  <2>3. NoAction(E, flags) /\ act'.arg \in Followed => act'.arg \in E
    BY FrameArgs
  <2>4. NoAction(E, flags) /\ main = "SEARCH" => act' = Nop
    BY DEF NoAction, Settle
  <2>5. Nop.arg # "C_REQ"
    BY DEF Nop, Action
  <2> QED
    BY <1>0, <2>1, <2>2, <2>3, <2>4, <2>5 DEF Followed
<1>5. CASE CheckRequests
  BY <1>5, RequestArgs
<1> QED
  BY <1>1, <1>2, <1>3, <1>4, <1>5 DEF Schedule

\* Where the changes of state of a device that never connects lead.
LEMMA NeverTargeted ==
  ASSUME IInv, NeverConnects, pc \in {"do", "commit"}, act.op \in StateOps,
         act.arg \notin Finished
  PROVE  /\ Target(act)[1] # "CONNECTION_REQUEST"
         /\ Target(act)[1] = "SEARCH" /\ main # "SEARCH" => act.arg \in Ends \cup {"COMP_INIT"}
         /\ Target(act)[1] = "SEARCH" => act.arg # "C_REQ"
         /\ main = "SEARCH" /\ act.arg # "COMP_CLOSE" => act.arg = "C_REQ"
<1>1. StateAct(act) /\ act.arg \in ChangeArgs
  BY TargetInHand, StateActFacts
<1>2. act.arg \notin {"CONNECT_REQ", "COMP_CONNECT_REQ"} /\ main # "CONNECTION_REQUEST"
  <2>1. act.arg \in CompReqs => CompValid(act.arg)
    BY <1>1, StateActFacts
  <2> QED
    BY <2>1 DEF NeverConnects, CompValid, CompReqs
<1>3. \/ act.arg \in Ends \cup {"COMP_INIT"}
      \/ act.arg \in {"COMP_CLOSE", "COMP_ACCEPT_REQ", "ACCEPT_REQ", "COMP_ACCEPT_RES",
                      "ACK_FOR_C_ACC", "C_ACC"}
      \/ act.arg = "C_REQ"
      \/ act.arg \in {"COMP_SLEEP_REQ", "POWERSAVE_REQ", "COMP_WAKE_REQ", "T_RESEND", "WAKE_REQ",
                      "C_SLEEP", "C_WAKE"}
  BY <1>1, <1>2 DEF ChangeArgs, CompReqs, Timers, Frames, Ends
<1>4. /\ Target(act)[1] # "CONNECTION_REQUEST"
      /\ Target(act)[1] = "SEARCH" /\ main # "SEARCH" => act.arg \in Ends \cup {"COMP_INIT"}
      /\ Target(act)[1] = "SEARCH" => act.arg # "C_REQ"
  <2>1. CASE act.arg \in Ends \cup {"COMP_INIT"}
    BY <2>1 DEF Target, Ends
  <2>2. CASE act.arg \notin Ends \cup {"COMP_INIT"}
    BY <1>2, <1>3, <2>2 DEF Target
  <2> QED
    BY <2>1, <2>2
<1>5. main = "SEARCH" /\ act.arg # "COMP_CLOSE" => act.arg = "C_REQ"
  <2>1. SUFFICES ASSUME main = "SEARCH", act.arg # "COMP_CLOSE"
                 PROVE  act.arg = "C_REQ"
    OBVIOUS
  <2>2. act.arg \notin CompReqs
    <3>1. act.arg \in CompReqs => CompValid(act.arg)
      BY <1>1, StateActFacts
    <3>2. \A e \in CompReqs \ {"COMP_CLOSE", "COMP_PROBE_REQ", "COMP_WAKE", "COMP_SLEEP"} :
            ~CompValid(e)
      BY <2>1 DEF CompValid, CompReqs, IsConnected
    <3>3. act.arg \notin {"COMP_PROBE_REQ", "COMP_WAKE", "COMP_SLEEP"}
      BY <1>1 DEF ChangeArgs, Timers, Frames
    <3> QED
      BY <2>1, <3>1, <3>2, <3>3
  <2>3. act.arg \notin Timers
    <3>1. act.arg \in Timers => TimerValid(act.arg)
      BY <1>1, StateActFacts
    <3>2. \A t \in Timers : ~TimerValid(t)
      BY <2>1 DEF TimerValid, Timers, IsConnected
    <3> QED
      BY <3>1, <3>2
  <2>4. act.arg \in Frames => act.arg = "C_REQ"
    <3>1. act.arg \in Frames => FrameValid(act.arg)
      BY <1>1, StateActFacts
    <3>2. \A f \in Frames \ {"C_REQ"} : ~FrameValid(f)
      BY <2>1 DEF FrameValid, Frames, IsConnected
    <3> QED
      BY <3>1, <3>2
  <2>5. act.arg \notin {"ACCEPT_REQ", "WAKE_REQ", "POWERSAVE_REQ"}
    BY <1>1, <2>1, StateActFacts DEF IsConnected
  <2> QED
    BY <1>1, <1>2, <2>2, <2>3, <2>4, <2>5 DEF ChangeArgs
<1> QED
  BY <1>4, <1>5

\* Only a request to connect takes a device to CONNECTION_REQUEST.
LEMMA NextNeverConnects ==
  ASSUME IInv, IInv', NeverConnects, [Next]_vars, "CONNECT_REQ" \notin ReqTypes
  PROVE  NeverConnects'
<1>1. ~Connecting'
  BY TypesStay DEF NeverConnects, Connecting
<1>2. CASE (\E c \in Callers : Caller(c)) \/ DataCaller \/ UNCHANGED vars \/ Chip \/ Interrupt
  BY <1>1, <1>2, CallersMove, ChipMoves, InterruptMoves
     DEF CallersLeave, ChipLatches, HandlerMoves, NeverConnects
<1>3. CASE Schedule
  BY <1>1, <1>3, ScheduleMoves, ScheduleArgs DEF Steering, NeverConnects
<1>4. CASE Execute
  <2>1. act'.arg # "CONNECT_REQ"
    BY <1>4, ExecutePerforms DEF Performing, NeverConnects
  <2>2. main' # "CONNECTION_REQUEST"
    <3>1. CASE CommitState
      <4>1. /\ main' = Target(act)[1]
            /\ act.op \in StateOps /\ act.arg \notin Finished /\ pc = "commit"
        BY <3>1, CommitsTarget DEF IInv, TaskInv
      <4> QED
        BY <4>1, NeverTargeted
    <3> QED
      BY <1>4, <3>1, ExecuteDrives DEF NeverConnects
  <2> QED
    BY <1>1, <2>1, <2>2 DEF NeverConnects
<1> QED
  BY <1>2, <1>3, <1>4 DEF Next, Task

\* A step of another party.
LEMMA OthersCalled ==
  ASSUME IInv, ListenInv, CalledInv,
         (\E c \in Callers : Caller(c)) \/ DataCaller \/ UNCHANGED vars \/ Chip \/ Interrupt
  PROVE  CalledInv'
<1>1. /\ UNCHANGED <<main, sub, flags, pc, act>> /\ Target(act)' = Target(act)
      /\ Noted' = Noted /\ Hand' = Hand
  <2>1. UNCHANGED <<main, sub, flags, pc, act>>
    BY CallersMove, ChipMoves, InterruptMoves DEF CallersLeave, ChipLatches, HandlerMoves
  <2> QED
    BY <2>1, TargetStays DEF Noted, Hand
<1>2. CASE (\E c \in Callers : Caller(c)) \/ DataCaller \/ UNCHANGED vars
  <2>1. UNCHANGED <<ev, irq, en, tx, sta>>
    BY <1>2, CallersMove DEF CallersLeave
  <2> QED
    BY <1>1, <2>1 DEF CalledInv, Pending
<1>3. CASE Chip
  <2>1. UNCHANGED <<ev, irq, en>>
    BY <1>3, ChipMoves DEF ChipLatches
  <2>2. /\ "CRLSTX" \in sta' => "CRLSTX" \in sta \/ tx = "C_RLS"
        /\ tx' \in {tx, "none"}
    BY <1>3, ChipReports
  <2> QED
    BY <1>1, <2>1, <2>2 DEF CalledInv, Pending
<1>4. CASE Interrupt
  <2>1. /\ ev' \subseteq ev \cup irq /\ (irq' # {} => UNCHANGED ev)
        /\ "C_REQ" \in irq' => "CREQRCV" \in en
        /\ "COMP_RELEASE_REQ" \in irq' => "CRLSTX" \in sta
        /\ "CREQRCV" \in en' => "CREQRCV" \in en
        /\ sta' \subseteq sta
    BY <1>4, InterruptMoves, HandlerSees DEF HandlerMoves
  <2>2. tx' = tx
    BY <1>4 DEF Interrupt, IrqAddEvent, IrqMask, chipVars
  <2>3. "C_REQ" \in irq' => main = "SEARCH" /\ Noted /\ pc # "commit" /\ "CRLSTX" \notin sta
    BY <2>1 DEF CalledInv
  <2>4. (pc = "commit" /\ Target(act)[1] = "SEARCH") \/ pc = "reset" => "CREQRCV" \notin en
    BY DEF CalledInv, ListenInv
  <2> QED
    BY <1>1, <2>1, <2>2, <2>3, <2>4 DEF CalledInv, Pending
<1> QED
  BY <1>2, <1>3, <1>4

\* A step of the scheduler.
LEMMA ScheduleCalled ==
  ASSUME IInv, IInv', ReadyInv, CalledInv, MaxFault = 0, Schedule
  PROVE  CalledInv'
<1>1. /\ UNCHANGED <<main, irq, tx, sta>>
      /\ pc' \notin {"commit", "reset"} /\ pc \notin {"commit", "reset"}
      /\ Noted => Noted'
      /\ ev' \subseteq ev \cup {"ACK_FOR_C_ACC"}
      /\ "CREQRCV" \in en' => "CREQRCV" \in en
  BY ScheduleMoves DEF Steering, Noted
<1>2. ev' \cap (Ends \cup {"C_REQ"}) \subseteq ev
  BY <1>1 DEF Ends
<1>3. main = "SEARCH" /\ act'.arg = "C_REQ" =>
        /\ "C_REQ" \in ev \cup {act.arg}
        /\ act.arg = "C_REQ" \/ "COMP_RELEASE_REQ" \notin ev
  BY ScheduleArgs
<1>4. Ends \cap Hand' \subseteq ev \cup Hand
  <2>1. act.op = "SEND_MNG_FRAME" => act.arg \notin Ends
    <3>1. pc \in {"wait", "sched", "event", "request"} => act.op = "NOP"
      <4>1. Nop.op = "NOP"
        BY DEF Nop, Action
      <4>2. pc \in {"wait", "sched", "event", "request"} => act = Nop
        BY DEF IInv, TaskInv
      <4> QED
        BY <4>1, <4>2
    <3>2. pc = "read" => act.op \in {"HANDLE_MNG_FRAME", "SKIP_MNG_FRAME"}
      BY DEF IInv, TaskInv
    <3>3. pc \in {"wait", "sched", "event", "request", "read"}
      BY DEF Schedule, TaskWait, CheckInitClose, CheckEvent, ReadMngBody, CheckRequests
    <3> QED
      BY <3>1, <3>2, <3>3
  <2> QED
    BY <2>1, ScheduleArgs DEF Hand
<1>5. "COMP_RELEASE_REQ" \in Ends
  BY DEF Ends
<1>6. pc' = "do" /\ act'.op = "WAIT_CONNECT" => Noted'
  <2>1. ReadyInv'
    <3>1. NoStaleCall
      BY Zenon DEF CalledInv, NoStaleCall, Pending
    <3> QED
      BY <3>1, ScheduleReady
  <2>2. pc' = "do" /\ act'.op = "WAIT_CONNECT" => main' = "SEARCH"
    <3>1. pc' = "do" => OpenFits(act)'
      BY DEF IInv, TaskInv, Fits, ChipFits
    <3> QED
      BY <3>1 DEF OpenFits
  <2> QED
    BY <2>1, <2>2 DEF ReadyInv, Answering
<1>7. /\ "CREQRCV" \in en' => main' = "SEARCH" /\ Noted' /\ pc' # "commit"
      /\ main' = "CLOSE" => "C_REQ" \notin irq' \cup ev'
      /\ "C_REQ" \in irq' /\ (main' # "SEARCH" \/ pc' = "commit")
           => Ends \cap (ev' \cup Hand') = {}
  BY <1>1, <1>2, <1>4 DEF CalledInv
<1>8. /\ main' = "SEARCH" /\ ("CREQRCV" \in en' \/ "C_REQ" \in Pending')
           => "CRLSTX" \notin sta' /\ Noted'
      /\ main' = "SEARCH" /\ "C_REQ" \in ev' \cup {act'.arg} => "COMP_RELEASE_REQ" \notin irq'
      /\ main' = "SEARCH" /\ act'.arg = "C_REQ" => "COMP_RELEASE_REQ" \notin ev'
  BY <1>1, <1>2, <1>3, <1>5 DEF CalledInv, Pending
<1> QED
  BY <1>1, <1>6, <1>7, <1>8 DEF CalledInv

\* What an action adds to the events: its own completion, or news of the banks.
Added == {"TX_READY", "RX_READY", "COMP_SLEEP", "COMP_CONNECT_REQ", "COMP_ACCEPT_REQ",
          "COMP_ACCEPT_RES"}

LEMMA ExecuteAdds ==
  ASSUME IInv, Execute
  PROVE  ev' \subseteq ev \cup Added
<1>1. \A n, ns : ChangeEvents(n, ns) \/ ChangeChip(n, ns) \/ ChangeFails(n, ns)
                   => ev' \subseteq ev \cup Added
  BY DEF ChangeEvents, ChangeChip, ChangeFails, Added
<1>2. CASE ActionClose \/ CloseFails \/ HandleStateChange
  BY <1>1, <1>2 DEF ActionClose, CloseFails, HandleStateChange, evVars
<1>3. CASE ActionSendMngFrame
  <2>1. act.arg \in Frames
    BY <1>3, InHand DEF ActionSendMngFrame, Doing, Fits, ChipFits
  <2>2. FrameCompletion[act.arg] \subseteq Added
    BY <2>1 DEF FrameCompletion, Frames, Added
  <2> QED
    BY <1>3, <2>2 DEF ActionSendMngFrame
<1>4. CASE ActionReceiveData \/ ActionSleep \/ ResetClosed \/ ResetReleased
  BY <1>4 DEF ActionReceiveData, ReceiveDataIntUnmask, ActionSleep, ResetClosed, ResetReleased,
     Added
<1>5. CASE /\ ~ActionSendMngFrame /\ ~ActionReceiveData /\ ~ActionClose /\ ~CloseFails
           /\ ~HandleStateChange /\ ~ActionSleep /\ ~ResetClosed /\ ~ResetReleased
  BY <1>5 DEF Execute, ActionInit, ActionWake, ActionSendData, ActionFails, InitFails,
     WakeFails, SendMngFrameFails, SendDataFails, WaitConnect, CancelWaitConnect,
     HandleFinished, CommitState, HandleError, evVars
<1> QED
  BY <1>2, <1>3, <1>4, <1>5

\* The change of state to SEARCH clears a C-Req, and the answer to a C-Req what is left
\* of the set-ups before it, save the end of C-Rls (IZAN_clearInt).
LEMMA ChangeClearsCalls ==
  ASSUME NEW n, NEW ns, ChangeChip(n, ns)
  PROVE  /\ n = "SEARCH" => "C_REQ" \notin ev'
         /\ main = "SEARCH" /\ n = "ACCEPT_WAITING"
              => ev' \cap Ends \subseteq ev \cap {"COMP_RELEASE_REQ"}
         /\ n \in MainStates \ {"CONNECTION_REQUEST"} => "CREQRCV" \notin en'
<1>0. \A e, s : /\ e \in EventsOfInt[s] /\ s \in Cleared(n, ns) \ PhyInts
                => e \in IntToEvent(Cleared(n, ns))
  BY DEF IntToEvent
<1>1. ASSUME n = "SEARCH"
      PROVE  "C_REQ" \notin ev'
  <2>1. "CREQRCV" \in Cleared(n, ns) \ PhyInts
    BY <1>1 DEF Cleared, ClearInt, StateToIntEnable, TakenOver, IntenOfMain, MainStates,
       IsConnected, Sources, RcvInts, PhyInts
  <2>2. "C_REQ" \in EventsOfInt["CREQRCV"]
    BY DEF EventsOfInt, Sources, RcvInts, PhyInts
  <2>3. "C_REQ" \in IntToEvent(Cleared(n, ns))
    BY <1>0, <2>1, <2>2
  <2> QED
    BY <2>3 DEF ChangeChip, ChangeEvents
<1>2. ASSUME main = "SEARCH", n = "ACCEPT_WAITING"
      PROVE  ev' \cap Ends \subseteq ev \cap {"COMP_RELEASE_REQ"}
  <2> DEFINE S == {"CRLSRCV", "TCONNTOUT", "TACCTOUT", "TRETRYTOUT"}
  <2>1. S \subseteq Cleared(n, ns) \ PhyInts
    <3>1. StateToIntEnable(main, sub) = {}
      BY <1>2 DEF StateToIntEnable, IntenOfMain, MainStates, IsConnected
    <3>2. S \subseteq Sources \ PhyInts
      BY DEF Sources, RcvInts, TimInts, PhyInts
    <3>3. Cleared(n, ns) = Sources \ {"CRLSTX"}
      BY <1>2, <3>1 DEF Cleared, ClearInt, IsConnected
    <3> QED
      BY <3>2, <3>3
  <2>2. /\ "C_RLS" \in EventsOfInt["CRLSRCV"] /\ "T_CONNECT" \in EventsOfInt["TCONNTOUT"]
        /\ "T_ACCEPT" \in EventsOfInt["TACCTOUT"] /\ "T_RETRY" \in EventsOfInt["TRETRYTOUT"]
    BY DEF EventsOfInt, Sources, RcvInts, TimInts, PhyInts
  <2>3. {"C_RLS", "T_CONNECT", "T_ACCEPT", "T_RETRY"} \subseteq IntToEvent(Cleared(n, ns))
    BY <1>0, <2>1, <2>2
  <2>4. ev' = ev \ IntToEvent(Cleared(n, ns))
    BY <1>2 DEF ChangeChip, ChangeEvents
  <2> QED
    BY <2>3, <2>4 DEF Ends
<1>3. ASSUME n \in MainStates \ {"CONNECTION_REQUEST"}
      PROVE  "CREQRCV" \notin en'
  <2>1. "CREQRCV" \notin IntenOfMain[n]
    BY <1>3 DEF IntenOfMain, MainStates
  <2>2. "CREQRCV" \notin TakenOver(main, n, ns, en)
    BY DEF TakenOver, DataInts, MftxInts
  <2> QED
    BY <2>1, <2>2 DEF ChangeChip, NewInten, StateToIntEnable
<1> QED
  BY <1>1, <1>2, <1>3

\* The chip is told of a new state.
LEMMA ChangeCalled ==
  ASSUME IInv, NeverCloses, NeverConnects, CalledInv, HandleStateChange,
         ChangeChip(Target(act)[1], Target(act)[2]), pc' = "commit", UNCHANGED act
  PROVE  CalledInv'
<1> DEFINE n == Target(act)[1]
<1>1. /\ pc = "do" /\ act.op \in StateOps /\ act.arg \notin Finished
      /\ UNCHANGED <<main, sub>> /\ UNCHANGED irq /\ sta' \subseteq sta
      /\ Noted' = Noted /\ Hand' = Hand
  BY DEF HandleStateChange, Doing, Unfilters, Noted, ChangeChip, ChangeTransmission, Hand
<1>2. /\ n \in MainStates \ {"CONNECTION_REQUEST"}
      /\ n = "SEARCH" /\ main # "SEARCH" => act.arg \in Ends \cup {"COMP_INIT"}
      /\ n = "SEARCH" => main # "SEARCH"
      /\ main = "CLOSE" <=> act.arg = "COMP_INIT"
      /\ main = "SEARCH" => act.arg = "C_REQ" /\ n = "ACCEPT_WAITING"
  <2>1. Leads(n, Target(act)[2]) /\ n \in MainStates
    BY <1>1, TargetLeads, TargetInHand
  <2>2. act.arg # "COMP_CLOSE"
    BY DEF NeverCloses, Closing, Pending
  <2>3. /\ n # "CONNECTION_REQUEST"
        /\ n = "SEARCH" /\ main # "SEARCH" => act.arg \in Ends \cup {"COMP_INIT"}
        /\ main = "SEARCH" => act.arg = "C_REQ"
    BY <1>1, <2>2, NeverTargeted
  <2> HIDE DEF n
  <2> QED
    BY <2>1, <2>2, <2>3 DEF Leads
<1>3. Target(act)' = Target(act)
  BY <1>1, TargetStays
<1>4. /\ n = "SEARCH" => "C_REQ" \notin ev'
      /\ main = "SEARCH" => ev' \cap Ends \subseteq ev \cap {"COMP_RELEASE_REQ"}
      /\ "CREQRCV" \notin en'
  BY <1>2, ChangeClearsCalls
<1>5. ev' \cap (Ends \cup {"C_REQ"}) \subseteq ev
  <2>1. Execute
    BY DEF Execute
  <2> QED
    BY <2>1, ExecuteAdds DEF Added, Ends
<1>6. Hand = {act.arg}
  BY <1>1 DEF Hand, StateOps
<1>7. "C_REQ" \in irq => Ends \cap (ev' \cup Hand) = {}
  <2>1. CASE main = "SEARCH"
    <3>1. "COMP_RELEASE_REQ" \notin ev
      BY <1>2, <2>1 DEF CalledInv
    <3>2. "C_REQ" \notin Ends
      BY DEF Ends
    <3> QED
      BY <1>2, <1>4, <1>6, <2>1, <3>1, <3>2
  <2>2. CASE main # "SEARCH"
    BY <1>5, <2>2 DEF CalledInv
  <2> QED
    BY <2>1, <2>2
<1>8. n = "SEARCH" => tx' # "C_RLS" /\ "C_REQ" \notin irq \cup ev'
  <2>1. SUFFICES ASSUME n = "SEARCH"
                 PROVE  tx' # "C_RLS" /\ "C_REQ" \notin irq \cup ev'
    OBVIOUS
  <2>2. tx' # "C_RLS"
    <3>1. tx' = IF main # "CLOSE" THEN "none" ELSE tx
      BY <1>2, <2>1 DEF ChangeChip, ChangeTransmission, StopsFrame, Released
    <3>2. main = "CLOSE" => tx # "C_RLS"
      BY DEF CalledInv
    <3> QED
      BY <3>1, <3>2
  <2>3. "C_REQ" \notin irq
    <3>1. CASE main = "CLOSE"
      BY <3>1 DEF CalledInv
    <3>2. CASE main # "CLOSE"
      <4>1. act.arg \in Ends /\ main # "SEARCH"
        BY <1>2, <2>1, <3>2
      <4> QED
        BY <1>6, <4>1 DEF CalledInv
    <3> QED
      BY <3>1, <3>2
  <2> QED
    BY <1>4, <2>1, <2>2, <2>3
<1>9. main \in {"SEARCH", "CLOSE"} => tx' # "C_RLS"
  BY DEF ChangeChip, ChangeTransmission, CalledInv
<1> HIDE DEF n
<1>10. /\ "CREQRCV" \in en' => main' = "SEARCH" /\ Noted' /\ pc' # "commit"
       /\ main' = "CLOSE" => "C_REQ" \notin irq' \cup ev'
       /\ "C_REQ" \in irq' => Ends \cap (ev' \cup Hand') = {}
  BY <1>1, <1>4, <1>5, <1>7 DEF CalledInv
<1>11. /\ main' = "SEARCH" /\ ("CREQRCV" \in en' \/ "C_REQ" \in Pending')
            => "CRLSTX" \notin sta' /\ Noted'
       /\ main' = "SEARCH" /\ "C_REQ" \in ev' \cup {act'.arg} => "COMP_RELEASE_REQ" \notin irq'
       /\ main' = "SEARCH" /\ act'.arg = "C_REQ" => "COMP_RELEASE_REQ" \notin ev'
  BY <1>1, <1>4, <1>5 DEF CalledInv, Pending, Ends
<1> QED
  BY <1>1, <1>3, <1>8, <1>9, <1>10, <1>11 DEF CalledInv, n

\* A step of an action.
LEMMA ExecuteCalled ==
  ASSUME IInv, ListenInv, NeverCloses, NeverConnects, CalledInv, MaxFault = 0, Execute
  PROVE  CalledInv'
<1>0. /\ Executing /\ ~DeviceFault /\ ~Failed /\ UNCHANGED irq
      /\ act' = act \/ act'.arg \notin Ends \cup {"C_REQ"}
      /\ sta' \subseteq sta
      /\ ev' \cap (Ends \cup {"C_REQ"}) \subseteq ev
  BY ExecutesInHand, NoFaults, ExecutePerforms, ExecuteClears, ExecuteAdds
     DEF Performing, Added, Ends
<1>1. Nop.arg \notin Ends \cup {"C_REQ"} /\ Nop.op = "NOP"
  BY DEF Nop, Action, Ends
<1>2. CASE HandleStateChange
  <2>1. CASE ChangeChip(Target(act)[1], Target(act)[2]) /\ pc' = "commit" /\ UNCHANGED act
    BY <1>2, <2>1, ChangeCalled
  <2>2. CASE /\ Target(act) = <<main, sub>> /\ pc' = "sched" /\ act' = Nop
             /\ UNCHANGED <<evVars, chipVars>>
    <3>1. main # "SEARCH"
      <4>1. Leads(Target(act)[1], Target(act)[2])
        BY <1>2, TargetLeads DEF HandleStateChange, Doing
      <4> QED
        BY <2>2, <4>1 DEF Leads
    <3>2. UNCHANGED <<main, ev, en, tx>>
      BY <1>2, <2>2 DEF HandleStateChange, evVars, chipVars
    <3>3. Hand' = {Nop.arg}
      BY <1>1, <2>2 DEF Hand
    <3> QED
      BY <1>0, <1>1, <2>2, <3>1, <3>2, <3>3 DEF CalledInv
  <2> QED
    BY <1>0, <1>2, <2>1, <2>2 DEF HandleStateChange, Finish, Done
<1>3. CASE CommitState
  <2>1. /\ main' = Target(act)[1] /\ pc = "commit"
        /\ act.op \in StateOps /\ act.arg \notin Finished
        /\ pc' = IF main' \in {"SEARCH", "CLOSE"} THEN "reset" ELSE "sched"
        /\ act' = IF main' \in {"SEARCH", "CLOSE"} THEN act ELSE Nop
        /\ UNCHANGED <<ev, en>> /\ Noted' = Noted
    BY <1>3, CommitsTarget DEF IInv, TaskInv, Noted
  <2>2. tx' = tx
    BY <1>3 DEF CommitState, chipVars
  <2>3. main' # "CLOSE"
    <3>1. act.arg # "COMP_CLOSE"
      BY DEF NeverCloses, Closing, Pending
    <3> QED
      BY <1>3, <3>1, CommitsTarget DEF Leads
  <2>4. main' = "SEARCH" => act.arg # "C_REQ"
    BY <2>1, NeverTargeted
  <2>5. main' # "SEARCH" => Hand' = {Nop.arg}
    BY <1>1, <2>1, <2>3 DEF Hand
  <2>6. "CREQRCV" \notin en
    BY <2>1 DEF CalledInv
  <2> QED
    BY <1>0, <1>1, <2>1, <2>2, <2>3, <2>4, <2>5, <2>6 DEF CalledInv, Pending
<1>4. CASE ResetClosed \/ ResetReleased
  <2>1. /\ pc = "reset" /\ pc' = "sched" /\ act' = Nop /\ UNCHANGED <<main, en, tx>>
        /\ main \in {"SEARCH", "CLOSE"}
    BY <1>4 DEF ResetClosed, ResetReleased, Finish, Done, chipVars
  <2>2. "CREQRCV" \notin en
    BY <2>1 DEF CalledInv, ListenInv
  <2>3. "C_REQ" \notin irq \cup ev /\ tx # "C_RLS"
    BY <2>1 DEF CalledInv
  <2> QED
    BY <1>0, <1>1, <2>1, <2>2, <2>3 DEF CalledInv, Pending
<1>5. CASE WaitConnect \/ CancelWaitConnect
  <2>1. main = "SEARCH" /\ pc = "do"
    BY <1>5, InHand DEF WaitConnect, CancelWaitConnect, Doing, Fits, ChipFits, OpenFits
  <2>2. /\ UNCHANGED <<main, pc, ev, tx>> /\ Noted' = Noted /\ act' = Complete(act.req)
        /\ "CREQRCV" \in en' => "CREQRCV" \in en \/ WaitConnect
        /\ WaitConnect => sta' = {} /\ act.op = "WAIT_CONNECT"
    BY <1>0, <1>5 DEF WaitConnect, CancelWaitConnect, AnswerNow, evVars, Noted, Doing
  <2>3. Complete(act.req).op = "HANDLE_COMPLETE" /\ Complete(act.req).arg \notin Ends \cup {"C_REQ"}
    BY DEF Complete, Action, Ends
  <2>4. WaitConnect => Noted
    BY <2>1, <2>2 DEF CalledInv
  <2> QED
    BY <1>0, <2>1, <2>2, <2>3, <2>4 DEF CalledInv, Pending
<1>6. CASE HandleFinished \/ HandleError \/ ActionInit \/ ActionWake \/ ActionSleep
           \/ ActionSendMngFrame \/ ActionSendData \/ ActionReceiveData
  <2>1. pc = "do" /\ pc' = "sched" /\ act' = Nop /\ UNCHANGED main
    BY <1>6 DEF HandleFinished, HandleError, ActionInit, ActionWake, ActionSleep,
       ActionSendMngFrame, ActionSendData, ActionReceiveData, Doing, Finish, Succeeded, Done,
       devVars
  <2>2. main = "SEARCH" => Noted' = Noted
    <3>1. ActionSendData => main # "SEARCH"
      BY SendsMove DEF Sends, IsConnected
    <3> QED
      BY <1>6, <3>1 DEF HandleFinished, HandleError, ActionInit, ActionWake, ActionSleep,
         ActionSendMngFrame, ActionReceiveData, devVars, Noted
  <2>3. main \in {"SEARCH", "CLOSE"} => tx' = tx
    <3>1. ActionSendMngFrame => main \notin {"SEARCH", "CLOSE"}
      BY InHand DEF ActionSendMngFrame, Doing, Fits, ChipFits, OpenFits
    <3> QED
      BY <1>6, <3>1 DEF HandleFinished, HandleError, ActionInit, ActionWake, ActionSleep,
         ActionSendData, ActionReceiveData, chipVars
  <2>4. "CREQRCV" \in en' => "CREQRCV" \in en
    <3>1. CASE ActionSendMngFrame
      <4>1. act.arg \in Frames
        BY <3>1, InHand DEF ActionSendMngFrame, Doing, Fits, ChipFits
      <4>2. "CREQRCV" \notin FrameUnmask[act.arg]
        BY <4>1 DEF FrameUnmask, Frames
      <4> QED
        BY <3>1, <4>2 DEF ActionSendMngFrame
    <3> QED
      BY <1>6, <3>1 DEF HandleFinished, HandleError, ActionInit, ActionWake, ActionSleep,
         ActionSendData, ActionReceiveData, ReceiveDataIntUnmask, chipVars
  <2>5. Hand' = {Nop.arg}
    BY <1>1, <2>1 DEF Hand
  <2>6. /\ "CREQRCV" \in en' => main' = "SEARCH" /\ Noted'
        /\ main' = "CLOSE" => "C_REQ" \notin irq' \cup ev'
        /\ "C_REQ" \in irq' /\ main' # "SEARCH" => Ends \cap (ev' \cup Hand') = {}
    BY <1>0, <1>1, <2>1, <2>2, <2>4, <2>5 DEF CalledInv
  <2>7. /\ main' = "SEARCH" /\ ("CREQRCV" \in en' \/ "C_REQ" \in Pending')
             => "CRLSTX" \notin sta' /\ Noted'
        /\ main' = "SEARCH" /\ "C_REQ" \in ev' \cup {act'.arg} => "COMP_RELEASE_REQ" \notin irq'
    BY <1>0, <1>1, <2>1, <2>2, <2>4 DEF CalledInv, Pending
  <2> QED
    BY <1>1, <2>1, <2>3, <2>6, <2>7 DEF CalledInv
<1>7. ~(ActionFails \/ InitFails \/ CloseFails \/ WakeFails \/ SendMngFrameFails
        \/ SendDataFails \/ ActionClose)
  BY <1>0 DEF ActionFails, InitFails, CloseFails, WakeFails, SendMngFrameFails, SendDataFails,
     ActionClose, Doing, NeverCloses
<1> QED
  BY <1>2, <1>3, <1>4, <1>5, <1>6, <1>7 DEF Execute

\* A device that only waits to be called and is not closed, whose operations do not fail,
\* knows of its free banks, however often its peers call it and its links end.
THEOREM TxReadyKeptCalled ==
  ASSUME MaxFault = 0, {"CONNECT_REQ", "CLOSE_REQ"} \cap ReqTypes = {}
  PROVE  Spec => []TxReadyNotLost
<1>1. Init => NeverConnects /\ CalledInv /\ ReadyInv
  <2>1. Nop.arg \notin {"CONNECT_REQ", "C_REQ"}
    BY DEF Nop, Action
  <2>2. Init => /\ main = "CLOSE" /\ pc = "wait" /\ act = Nop /\ en = {} /\ irq = {} /\ ev = {}
                /\ tx = "none" /\ \A c \in Callers : req[c].type = "NONE"
    BY DEF Init
  <2>3. Init => NeverConnects
    BY <2>1, <2>2 DEF NeverConnects, Connecting
  <2>4. Init => CalledInv
    BY <2>1, <2>2 DEF CalledInv
  <2>5. Init => ReadyInv
    BY <2>2 DEF ReadyInv, SetUp, IsConnected
  <2> QED
    BY <2>3, <2>4, <2>5
<1>2. IInv /\ IInv' /\ NeverConnects /\ [Next]_vars => NeverConnects'
  BY NextNeverConnects
<1>3. IInv /\ IInv' /\ ListenInv /\ NeverCloses /\ NeverConnects /\ ReadyInv /\ CalledInv
        /\ [Next]_vars => CalledInv'
  BY OthersCalled, ScheduleCalled, ExecuteCalled DEF Next, Task
<1>4. CalledInv => NoStaleCall
  BY Zenon DEF CalledInv, NoStaleCall, Pending
<1>5. IInv /\ ReadyInv /\ CalledInv /\ [Next]_vars => ReadyInv'
  BY <1>4, OthersReady, ScheduleReady, ExecuteReady DEF Next, Task
<1>6. Spec => []NeverCloses
  BY NeverClosed
<1> QED
  BY <1>1, <1>2, <1>3, <1>4, <1>5, <1>6, Inductive, CallsKept, TxReadyKept, PTL DEF Spec
=============================================================================

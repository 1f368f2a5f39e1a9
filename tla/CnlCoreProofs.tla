---------------------------- MODULE CnlCoreProofs ----------------------------
(****************************************************************************)
(* Theorems about the CNL core, for every set of callers, of request types  *)
(* and of chip sources, and for any number of banks, timeouts and faults.   *)
(*                                                                          *)
(* The argument rests on one invariant, IInv.  Only the CNL task changes    *)
(* cnlState and pwrState, so what the scheduler found true of them when it  *)
(* took an action is still true when the action is performed, although the  *)
(* locks are given up in between; Fits says what that is.                   *)
(****************************************************************************)
EXTENDS CnlCoreProps, TLAPS

(****************************************************************************)
(* What the scheduler established for the action in hand.                   *)
(****************************************************************************)
CompFits(a) ==
  a.op = "HANDLE_COMPLETE" =>
    \/ a.arg = "COMP_NULL"
    \/ /\ a.arg \in CompReqs \ {"COMP_PROBE_REQ"}
       /\ CompValid(a.arg)
       /\ pwr # "HIBERNATE"
       /\ a.arg \notin {"COMP_WAKE", "COMP_SLEEP"} => pwr = "AWAKE"
       /\ a.arg = "COMP_WAKE" => pwr # "AWAKE_TO_HIBERNATE"

FrameFits(a) ==
  a.op \in {"HANDLE_MNG_FRAME", "SKIP_MNG_FRAME"} =>
    /\ a.arg \in Frames /\ FrameValid(a.arg) /\ pwr = "AWAKE"
    /\ a.op = "HANDLE_MNG_FRAME" =>
         /\ a.arg = "C_REQ" => main \in {"SEARCH", "CONNECTION_REQUEST"}
         /\ a.arg = "C_ACC" => main = "CONNECTION_REQUEST"
    /\ a.op = "SKIP_MNG_FRAME" /\ a.arg = "C_REQ" => main # "SEARCH"

TimerFits(a) ==
  a.op = "HANDLE_TIMEOUT" => a.arg \in Timers /\ TimerValid(a.arg) /\ pwr = "AWAKE"

OrderFits(a) ==
  a.op = "HANDLE_UPPER_ORDER" =>
    /\ pwr = "AWAKE"
    /\ \/ a.arg = "CONNECT_REQ" /\ main = "SEARCH"
       \/ a.arg = "ACCEPT_REQ" /\ main \in {"CONNECTION_REQUEST", "ACCEPT_WAITING"}
       \/ a.arg = "WAKE_REQ" /\ IsConnected(main)
       \/ a.arg = "POWERSAVE_REQ" /\ IsConnected(main) /\ sub = "TARGET_SLEEP" /\ proc = "NOP"

\* The main states in which the chip is opened, closed, listens, or sends and receives.
OpenFits(a) ==
  /\ a.op = "INIT" => main = "CLOSE"
  /\ a.op \in {"CLOSE", "RECEIVE_DATA"} => main # "CLOSE"
  /\ a.op = "SEND_MNG_FRAME" => main \notin {"CLOSE", "SEARCH"}
  /\ a.op \in {"WAIT_CONNECT", "CANCEL_WAIT_CONNECT"} => main = "SEARCH"
  /\ a.op = "SEND_MNG_FRAME" /\ a.arg \in {"C_SLEEP", "C_WAKE"} =>
       sub \in {"CONNECTED", "TARGET_SLEEP"}

ChipFits(a) ==
  /\ OpenFits(a)
  /\ a.op = "WAKE" => pwr = "HIBERNATE"
  /\ a.op = "SLEEP" => (sub = "LOCAL_HIBERNATE" \/ main = "SEARCH") /\ proc = "NOP"
  /\ a.op \in {"SLEEP", "CLOSE", "SEND_MNG_FRAME", "SEND_DATA", "RECEIVE_DATA",
                 "WAIT_CONNECT", "CANCEL_WAIT_CONNECT"} => pwr = "AWAKE"
  /\ a.op = "SEND_MNG_FRAME" => a.arg \in Frames
  /\ a.op = "SEND_DATA" => IsConnected(main) /\ sub = "CONNECTED" /\ proc = "NOP"
  /\ a.op \notin StateOps \cup {"SEND_MNG_FRAME", "SKIP_MNG_FRAME"} => a.arg = ""

Fits(a) == CompFits(a) /\ FrameFits(a) /\ TimerFits(a) /\ OrderFits(a) /\ ChipFits(a)

Downs == {"COMP_RELEASE_REQ", "COMP_CLOSE", "C_RLS", "T_CONNECT", "T_ACCEPT", "T_RETRY"}

(****************************************************************************)
(* Where the task is, what it has in hand, and how the two parts of the     *)
(* state and the power state go together.                                   *)
(****************************************************************************)
TaskInv ==
  /\ pc \in {"wait", "sched", "event", "request"} => act = Nop
  /\ pc = "read" => act.op \in {"HANDLE_MNG_FRAME", "SKIP_MNG_FRAME"}
  /\ pc \in {"do", "commit", "reset"} => act.op # "SKIP_MNG_FRAME"
  /\ pc = "commit" => act.op \in StateOps /\ act.arg \notin Finished
  /\ pc \in {"read", "do", "commit"} => Fits(act)
  /\ pc = "reset" => \/ act.arg \in Downs
                     \/ act.arg = "COMP_INIT" /\ view = "down"

StateInv ==
  /\ sub = "NULL" <=> ~IsConnected(main)
  /\ pc = "reset" => main \in {"SEARCH", "CLOSE"} /\ pwr = "AWAKE"
  /\ pc # "reset" => (view = "up" <=> IsConnected(main))

PowerInv ==
  /\ main # "SEARCH" /\ sub # "LOCAL_HIBERNATE" => pwr = "AWAKE"
  /\ "COMP_SLEEP" \notin irq
  /\ pwr = "AWAKE_TO_HIBERNATE" <=> "COMP_SLEEP" \in ev \cup {act.arg}
  /\ "COMP_SLEEP" \in ev => act.arg # "COMP_SLEEP"

\* The banks that were counted as free are free when they are filled.
BankInv ==
  /\ bank <= TxCsduNum
  /\ pc = "do" /\ act.op = "SEND_DATA" => data.ready + bank <= TxCsduNum
  /\ pc = "do" /\ act.op = "RECEIVE_DATA" => data.rx > 0

IInv == TypeOK /\ TaskInv /\ StateInv /\ PowerInv /\ BankInv

(****************************************************************************)
(* The tables of IzanInt.                                                   *)
(****************************************************************************)
\* No interrupt source stands for the completion of sleep, which only the driver
\* itself reports (IZAN_intToEvent).
LEMMA IntEvents ==
  \A S \in SUBSET Sources : IntToEvent(S) \subseteq Events /\ "COMP_SLEEP" \notin IntToEvent(S)
<1> SUFFICES ASSUME NEW S \in SUBSET Sources
             PROVE  IntToEvent(S) \subseteq Events /\ "COMP_SLEEP" \notin IntToEvent(S)
  OBVIOUS
<1>1. \A s \in Sources \ PhyInts : /\ EventsOfInt[s] \subseteq Events
                                   /\ "COMP_SLEEP" \notin EventsOfInt[s]
  BY DEF Sources, PhyInts, RcvInts, TimInts, DataInts, MftxInts, EventsOfInt, Events,
         CompReqs, Timers, Frames, DataEvents
<1>2. PhyEvent(S \cap PhyInts) \subseteq Events /\ "COMP_SLEEP" \notin PhyEvent(S \cap PhyInts)
  BY DEF PhyEvent, Events, CompReqs
<1> QED
  BY <1>1, <1>2 DEF IntToEvent

\* The mask that a state change programs is a mask of sources (IZAN_changeState).
LEMMA NewIntenType ==
  ASSUME NEW m \in MainStates, NEW n \in MainStates, NEW ns, NEW e \in SUBSET Sources
  PROVE  NewInten(m, n, ns, e) \in SUBSET Sources
<1>1. IntenOfMain[n] \subseteq Sources
  BY DEF IntenOfMain, MainStates, Sources, RcvInts, TimInts, DataInts
<1>2. {"CPROBETX", "CRLSTX", "RXBANKNOTEMPT", "CACCRCV"} \subseteq Sources
  BY DEF Sources, MftxInts, DataInts, RcvInts
<1> QED
  BY <1>1, <1>2 DEF NewInten, StateToIntEnable, TakenOver

(****************************************************************************)
(* Steps of the callers, of the chip and of the interrupt handler: the task *)
(* finds what it has in hand unchanged.                                     *)
(****************************************************************************)
\* A step that leaves the state, the task and what was told alone keeps the parts
\* of the invariant about them, if it neither adds nor drops COMP_SLEEP.
LEMMA TaskUndisturbed ==
  ASSUME TaskInv, StateInv, PowerInv,
         UNCHANGED <<devVars, taskVars, view>>,
         "COMP_SLEEP" \notin irq',
         "COMP_SLEEP" \in ev' <=> "COMP_SLEEP" \in ev
  PROVE  TaskInv' /\ StateInv' /\ PowerInv'
<1>1. /\ UNCHANGED <<main, sub, pwr, proc, flags, pc, act, view>>
  BY DEF devVars, taskVars
<1>2. Fits(act)' <=> Fits(act)
  BY <1>1 DEF Fits, CompFits, FrameFits, TimerFits, OrderFits, ChipFits, OpenFits, CompValid,
              FrameValid, TimerValid
<1>3. TaskInv'
  BY <1>1, <1>2 DEF TaskInv
<1>4. StateInv'
  BY <1>1 DEF StateInv
<1>5. PowerInv'
  BY <1>1 DEF PowerInv
<1> QED
  BY <1>3, <1>4, <1>5

\* A request is removed: the queue is empty, and the count a byte.
LEMMA RemovesRequest ==
  ASSUME ctrlCnt \in Byte, RemoveRequest
  PROVE  ctrlQ' = NoReq /\ ctrlCnt' \in Byte
BY DEF RemoveRequest, Byte

\* A request object with one field changed is a request object.  Steps that change several
\* are taken as one change after the other.
LEMMA FieldsOfRequest ==
  ASSUME NEW f \in [Callers -> RequestObject], NEW c \in Callers
  PROVE  /\ \A v \in RequestTypes \cup {"NONE"} :
              [f EXCEPT ![c].type = v] \in [Callers -> RequestObject]
         /\ \A v \in {"idle", "checked", "waiting"} :
              [f EXCEPT ![c].caller = v] \in [Callers -> RequestObject]
         /\ \A v \in {"NONE", "QUEUED", "PROCESSING", "COMPLETED"} :
              [f EXCEPT ![c].state = v] \in [Callers -> RequestObject]
         /\ \A v \in Statuses :
              [f EXCEPT ![c].status = v] \in [Callers -> RequestObject]
<1>1. ASSUME NEW v \in RequestTypes \cup {"NONE"}
      PROVE  [f EXCEPT ![c].type = v] \in [Callers -> RequestObject]
  BY DEF RequestObject
<1>2. ASSUME NEW v \in {"idle", "checked", "waiting"}
      PROVE  [f EXCEPT ![c].caller = v] \in [Callers -> RequestObject]
  BY DEF RequestObject
<1>3. ASSUME NEW v \in {"NONE", "QUEUED", "PROCESSING", "COMPLETED"}
      PROVE  [f EXCEPT ![c].state = v] \in [Callers -> RequestObject]
  BY DEF RequestObject
<1>4. ASSUME NEW v \in Statuses
      PROVE  [f EXCEPT ![c].status = v] \in [Callers -> RequestObject]
  BY DEF RequestObject
<1> QED
  BY <1>1, <1>2, <1>3, <1>4

\* A step of a caller of control requests.
LEMMA CallerStep ==
  ASSUME IInv, NEW c \in Callers, Caller(c)
  PROVE  IInv'
<1> USE DEF IInv
<1>1. UNCHANGED <<devVars, taskVars, view, ev, irq, data, chipVars>>
  BY DEF Caller, CheckRequest, AddRequest, Return, CmdTimeout, devVars, evVars, taskVars,
         chipVars
<1>2. TaskInv' /\ StateInv' /\ PowerInv'
  BY <1>1, TaskUndisturbed DEF PowerInv
<1>3. BankInv'
  BY <1>1 DEF BankInv, taskVars, chipVars
<1>4. DevTypeOK' /\ TaskTypeOK' /\ ChipTypeOK' /\ DataTypeOK'
  BY <1>1 DEF TypeOK, DevTypeOK, TaskTypeOK, ChipTypeOK, DataTypeOK, devVars, taskVars, chipVars
<1>5. ReqTypeOK' /\ EventTypeOK' /\ nTimeout' \in Nat /\ nFault' \in Nat
  <2>0. req \in [Callers -> RequestObject] /\ {"QOVR", "NONE", "TIMEOUT"} \subseteq Statuses
    BY DEF TypeOK, ReqTypeOK, Statuses
  <2>1. CASE \E t \in ReqTypes : CheckRequest(c, t)
    <3>1. PICK t \in ReqTypes : CheckRequest(c, t)
      BY <2>1
    <3>2. t \in RequestTypes
      BY TypesAssumption
    <3> DEFINE f == [req EXCEPT ![c].caller = "checked"]
    <3>3. req' = [f EXCEPT ![c].type = t]
      BY <3>1 DEF CheckRequest
    <3>4. f \in [Callers -> RequestObject]
      BY <2>0, FieldsOfRequest
    <3>5. req' \in [Callers -> RequestObject]
      <4> HIDE DEF f
      <4> QED
        BY <3>2, <3>3, <3>4, FieldsOfRequest
    <3> QED
      BY <3>1, <3>5 DEF CheckRequest, TypeOK, ReqTypeOK, EventTypeOK, evVars, bounds,
         queue
  <2>2. CASE AddRequest(c)
    <3>1. req' \in [Callers -> RequestObject]
      <4>1. CASE ctrlCnt < 1
        <5> DEFINE f == [req EXCEPT ![c].caller = "waiting"]
                   g == [f EXCEPT ![c].state = "QUEUED"]
        <5>1. req' = [g EXCEPT ![c].status = "NONE"]
          BY <2>2, <4>1 DEF AddRequest
        <5>2. f \in [Callers -> RequestObject]
          BY <2>0, FieldsOfRequest
        <5>3. g \in [Callers -> RequestObject]
          <6> HIDE DEF f
          <6> QED
            BY <5>2, FieldsOfRequest
        <5> HIDE DEF g
        <5> QED
          BY <2>0, <5>1, <5>3, FieldsOfRequest
      <4>2. CASE ~(ctrlCnt < 1)
        <5> DEFINE f == [req EXCEPT ![c].caller = "idle"]
        <5>1. req' = [f EXCEPT ![c].status = "QOVR"]
          BY <2>2, <4>2 DEF AddRequest
        <5>2. f \in [Callers -> RequestObject]
          BY <2>0, FieldsOfRequest
        <5> HIDE DEF f
        <5> QED
          BY <2>0, <5>1, <5>2, FieldsOfRequest
      <4> QED
        BY <4>1, <4>2
    <3>2. ctrlQ' \in Callers \cup {NoReq} /\ ctrlCnt' \in Byte
      BY <2>2 DEF AddRequest, TypeOK, ReqTypeOK, Byte, queue
    <3> QED
      BY <2>2, <3>1, <3>2 DEF AddRequest, TypeOK, ReqTypeOK, EventTypeOK, bounds
  <2>3. CASE Return(c)
    <3> DEFINE f == [req EXCEPT ![c].caller = "idle"]
               g == [f EXCEPT ![c].state = "NONE"]
    <3>1. req' = [g EXCEPT ![c].type = "NONE"]
      BY <2>3 DEF Return
    <3>2. f \in [Callers -> RequestObject]
      BY <2>0, FieldsOfRequest
    <3>3. g \in [Callers -> RequestObject]
      <4> HIDE DEF f
      <4> QED
        BY <3>2, FieldsOfRequest
    <3>4. req' \in [Callers -> RequestObject]
      <4> HIDE DEF g
      <4> QED
        BY <3>1, <3>3, FieldsOfRequest
    <3> QED
      BY <2>3, <3>4 DEF Return, TypeOK, ReqTypeOK, EventTypeOK, evVars, bounds, queue
  <2>4. CASE CmdTimeout(c)
    <3>1. req' = [req EXCEPT ![c].status = "TIMEOUT"]
      BY <2>4 DEF CmdTimeout
    <3>2. req' \in [Callers -> RequestObject]
      BY <2>0, <3>1, FieldsOfRequest
    <3>3. ctrlQ' = NoReq /\ ctrlCnt' \in Byte
      BY <2>4, RemovesRequest DEF CmdTimeout, TypeOK, ReqTypeOK
    <3> QED
      BY <2>4, <3>2, <3>3 DEF CmdTimeout, TypeOK, ReqTypeOK, EventTypeOK, evVars
  <2> QED
    BY <2>1, <2>2, <2>3, <2>4 DEF Caller
<1> QED
  BY <1>2, <1>3, <1>4, <1>5 DEF TypeOK

\* A step of a caller of data requests.
LEMMA DataCallerStep ==
  ASSUME IInv, DataCaller
  PROVE  IInv'
<1> USE DEF IInv
<1>1. UNCHANGED <<devVars, taskVars, view, ev, irq, reqVars, chipVars, bounds>>
  BY DEF DataCaller, CheckSend, AddSend, CheckReceive, AddReceive, evVars
<1>2. TaskInv' /\ StateInv' /\ PowerInv'
  BY <1>1, TaskUndisturbed DEF PowerInv
<1>3. DevTypeOK' /\ TaskTypeOK' /\ ChipTypeOK' /\ ReqTypeOK'
  BY <1>1 DEF TypeOK, DevTypeOK, TaskTypeOK, ChipTypeOK, ReqTypeOK, devVars, taskVars, chipVars,
              reqVars, queue
<1>4. EventTypeOK' /\ nTimeout' \in Nat /\ nFault' \in Nat
  BY <1>1 DEF DataCaller, CheckSend, AddSend, CheckReceive, AddReceive, evVars, TypeOK, EventTypeOK, bounds
<1>5. DataTypeOK' /\ BankInv'
  <2>1. /\ DataTypeOK' /\ data'.ready = data.ready /\ data'.rx >= data.rx
    <3>1. CASE CheckSend
      <4>1. data' = [data EXCEPT !.checked = TRUE]
        BY <3>1 DEF CheckSend
      <4>2. data' \in DataCounters /\ data'.ready = data.ready /\ data'.rx = data.rx
        BY <4>1, Zenon DEF TypeOK, DataTypeOK, DataCounters
      <4> QED
        BY <1>1, <4>2 DEF TypeOK, DataTypeOK, DataCounters, chipVars
    <3>2. CASE AddSend
      <4> DEFINE d == [data EXCEPT !.txNew = @ + 1]
      <4>1. d \in DataCounters /\ d.ready = data.ready /\ d.rx = data.rx
        BY DEF TypeOK, DataTypeOK, DataCounters
      <4>2. data' = [d EXCEPT !.checked = FALSE]
        BY <3>2, Zenon DEF AddSend, TypeOK, DataTypeOK, DataCounters
      <4>3. data' \in DataCounters /\ data'.ready = d.ready /\ data'.rx = d.rx
        BY <4>1, <4>2, Zenon DEF DataCounters
      <4> QED
        BY <1>1, <4>1, <4>3 DEF TypeOK, DataTypeOK, DataCounters, chipVars
    <3>3. CASE AddReceive
      <4> DEFINE d == [data EXCEPT !.rx = @ + 1]
      <4>1. d \in DataCounters /\ d.ready = data.ready /\ d.rx = data.rx + 1
        BY DEF TypeOK, DataTypeOK, DataCounters
      <4>2. data' = [d EXCEPT !.rxChecked = FALSE]
        BY <3>3, Zenon DEF AddReceive, TypeOK, DataTypeOK, DataCounters
      <4>3. data' \in DataCounters /\ data'.ready = d.ready /\ data'.rx = d.rx
        BY <4>1, <4>2, Zenon DEF DataCounters
      <4>4. data.rx \in Nat
        BY DEF TypeOK, DataTypeOK, DataCounters
      <4> HIDE DEF d
      <4>5. data'.rx >= data.rx
        BY <4>1, <4>3, <4>4
      <4> QED
        BY <1>1, <4>1, <4>3, <4>5 DEF TypeOK, DataTypeOK, chipVars
    <3>4. CASE CheckReceive
      <4>1. data' = [data EXCEPT !.rxChecked = TRUE]
        BY <3>4 DEF CheckReceive
      <4>2. data' \in DataCounters /\ data'.ready = data.ready /\ data'.rx = data.rx
        BY <4>1, Zenon DEF TypeOK, DataTypeOK, DataCounters
      <4> QED
        BY <1>1, <4>2 DEF TypeOK, DataTypeOK, DataCounters, chipVars
    <3> QED
      BY <3>1, <3>2, <3>3, <3>4 DEF DataCaller
  <2> QED
    BY <2>1, <1>1 DEF BankInv, TypeOK, DataTypeOK, DataCounters, taskVars, chipVars
<1> QED
  BY <1>2, <1>3, <1>4, <1>5 DEF TypeOK

\* A step of the chip.
LEMMA ChipStep ==
  ASSUME IInv, Chip
  PROVE  IInv'
<1> USE DEF IInv
<1>1. UNCHANGED <<devVars, taskVars, view, evVars, reqVars, data, bounds>>
  BY DEF Chip, FrameSent, DataAcked, PhyDone
<1>2. TaskInv' /\ StateInv' /\ PowerInv'
  BY <1>1, TaskUndisturbed DEF PowerInv, evVars
<1>3. DevTypeOK' /\ TaskTypeOK' /\ ReqTypeOK' /\ EventTypeOK' /\ nTimeout' \in Nat /\ nFault' \in Nat
  BY <1>1 DEF TypeOK, DevTypeOK, TaskTypeOK, ReqTypeOK, EventTypeOK, devVars, taskVars, reqVars, queue,
              evVars, bounds
<1>4. ChipTypeOK'
  <2>1. CASE FrameSent
    <3>1. TxStatus[tx] \in Sources
      BY <2>1 DEF FrameSent, TypeOK, ChipTypeOK, TxStatus, Sources, MftxInts
    <3> QED
      BY <2>1, <3>1 DEF FrameSent, TypeOK, ChipTypeOK
  <2>2. CASE DataAcked
    BY <2>2 DEF DataAcked, TypeOK, ChipTypeOK, Sources, DataInts
  <2>3. CASE PhyDone
    <3>1. PhyInt[phy] \subseteq Sources
      BY DEF TypeOK, ChipTypeOK, PhyInt, Sources, PhyInts
    <3> QED
      BY <2>3, <3>1 DEF PhyDone, TypeOK, ChipTypeOK
  <2> QED
    BY <2>1, <2>2, <2>3 DEF Chip
<1>5. bank' \in Nat /\ bank' <= bank
  BY DEF Chip, FrameSent, DataAcked, PhyDone, TypeOK, DataTypeOK
<1>6. DataTypeOK' /\ BankInv'
  BY <1>1, <1>5, BoundsAssumption DEF BankInv, TypeOK, DataTypeOK, DataCounters, taskVars
<1> QED
  BY <1>2, <1>3, <1>4, <1>6 DEF TypeOK

\* A step of the interrupt handler.
LEMMA InterruptStep ==
  ASSUME IInv, Interrupt
  PROVE  IInv'
<1> USE DEF IInv
<1>1. /\ UNCHANGED <<devVars, taskVars, view, reqVars, data, bank, bounds>>
      /\ UNCHANGED <<pmu, tx, phy>>
  BY DEF Interrupt, IrqMask, IrqAddEvent, chipVars
<1>2. /\ EventTypeOK' /\ ChipTypeOK' /\ "COMP_SLEEP" \notin irq'
      /\ "COMP_SLEEP" \in ev' <=> "COMP_SLEEP" \in ev
  <2>1. CASE IrqAddEvent
    BY <2>1 DEF IrqAddEvent, PowerInv, TypeOK, EventTypeOK, ChipTypeOK, chipVars
  <2>2. ASSUME NEW A, IrqMask(A)
        PROVE  /\ EventTypeOK' /\ ChipTypeOK' /\ "COMP_SLEEP" \notin irq'
               /\ "COMP_SLEEP" \in ev' <=> "COMP_SLEEP" \in ev
    <3>1. (sta \cup A) \cap en \in SUBSET Sources
      BY DEF TypeOK, ChipTypeOK
    <3>2. /\ IntToEvent((sta \cup A) \cap en) \subseteq Events
          /\ "COMP_SLEEP" \notin IntToEvent((sta \cup A) \cap en)
      BY <3>1, IntEvents
    <3> QED
      <4>1. en' \subseteq en /\ sta' \subseteq sta
        BY <2>2 DEF IrqMask
      <4>2. gate' \in BOOLEAN
        BY <2>2 DEF IrqMask, TypeOK, ChipTypeOK
      <4>3. irq' \subseteq Events /\ "COMP_SLEEP" \notin irq'
        <5>1. CASE pmu = "POWERSAVE"
          BY <2>2, <5>1 DEF IrqMask, Events
        <5>2. CASE pmu # "POWERSAVE"
          BY <2>2, <3>2, <5>2 DEF IrqMask
        <5> QED
          BY <5>1, <5>2
      <4> QED
        BY <1>1, <2>2, <4>1, <4>2, <4>3 DEF IrqMask, TypeOK, EventTypeOK, ChipTypeOK
  <2> QED
    BY <2>1, <2>2 DEF Interrupt
<1>3. TaskInv' /\ StateInv' /\ PowerInv'
  BY <1>1, <1>2, TaskUndisturbed
<1>4. DevTypeOK' /\ TaskTypeOK' /\ ReqTypeOK' /\ DataTypeOK' /\ nTimeout' \in Nat /\ nFault' \in Nat
  BY <1>1 DEF TypeOK, DevTypeOK, TaskTypeOK, ReqTypeOK, DataTypeOK, devVars, taskVars, reqVars, queue, bounds
<1>5. BankInv'
  BY <1>1 DEF BankInv, taskVars
<1> QED
  BY <1>2, <1>3, <1>4, <1>5 DEF TypeOK

(****************************************************************************)
(* The scheduler.  It takes an action that fits, or goes on with none.      *)
(****************************************************************************)
Scheduling ==
  /\ IInv
  /\ pc \in {"sched", "event", "read", "request"}
  /\ UNCHANGED <<main, sub, pwr, proc, irq, sem, view>>

\* What a step of the scheduler establishes, the banks apart.
Scheduled ==
  /\ ev' \subseteq Events /\ flags' \subseteq Flags
  /\ ReqTypeOK' /\ TaskTypeOK'
  /\ TaskInv' /\ StateInv' /\ PowerInv'

\* At these places the task has no completion in hand.
LEMMA NoCompletionInHand ==
  ASSUME IInv, pc \in {"wait", "sched", "event", "read", "request"}
  PROVE  act.arg # "COMP_SLEEP"
<1>1. CASE pc = "read"
  <2>1. act.arg \in Frames
    BY <1>1 DEF IInv, TaskInv, Fits, FrameFits
  <2> QED
    BY <2>1 DEF Frames
<1>2. CASE pc # "read"
  <2>1. act = Nop
    BY <1>2 DEF IInv, TaskInv
  <2> QED
    BY <2>1 DEF Nop, Action
<1> QED
  BY <1>1, <1>2

\* The task takes an action that fits (CNL_getAction).
LEMMA TakesFitting ==
  ASSUME Scheduling,
         NEW a \in ActionObject, Fits(a), a.op # "SKIP_MNG_FRAME",
         NEW status \in Statuses, Take(a, status),
         ev' \subseteq Events, flags' \subseteq Flags,
         "COMP_SLEEP" \in ev' \cup {a.arg} <=> "COMP_SLEEP" \in ev,
         "COMP_SLEEP" \in ev' => a.arg # "COMP_SLEEP"
  PROVE  Scheduled
<1>1. act' = a /\ pc' = "do"
  BY DEF Take
<1>2. TaskTypeOK'
  BY <1>1 DEF TaskTypeOK
<1>3. ctrlQ' \in Callers \cup {NoReq} /\ ctrlCnt' \in Byte
  BY RemovesRequest DEF Take, Scheduling, IInv, TypeOK, ReqTypeOK, queue
<1>4. req' \in [Callers -> RequestObject]
  BY DEF Take, Scheduling, IInv, TypeOK, ReqTypeOK, RequestObject, ActionObject
<1>5. ReqTypeOK'
  BY <1>3, <1>4 DEF ReqTypeOK, Scheduling, IInv, TypeOK
<1>6. Fits(act)'
  BY <1>1 DEF Scheduling, Fits, CompFits, FrameFits, TimerFits, OrderFits, ChipFits, OpenFits,
              CompValid, FrameValid, TimerValid
<1>7. TaskInv'
  BY <1>1, <1>6 DEF TaskInv
<1>8. StateInv'
  BY <1>1 DEF StateInv, Scheduling, IInv
<1>9. PowerInv'
  BY <1>1, NoCompletionInHand DEF PowerInv, Scheduling, IInv
<1> QED
  BY <1>2, <1>5, <1>7, <1>8, <1>9 DEF Scheduled

\* No action comes of the events (CNL_checkEvent).
LEMMA SettlesFitting ==
  ASSUME Scheduling,
         NEW E \in SUBSET Events, NEW F \in SUBSET Flags, Settle(E, F),
         "COMP_SLEEP" \in E <=> "COMP_SLEEP" \in ev
  PROVE  Scheduled
<1>1. act' = Nop /\ pc' = "request" /\ UNCHANGED <<queue, req>>
  BY DEF Settle
<1>2. ev' \subseteq Events /\ flags' \subseteq Flags
  BY DEF Settle, Flags
<1>3. TaskTypeOK'
  BY <1>1 DEF TaskTypeOK, ActionObject, ActionTypes, ActionArgs, Nop, Action
<1>4. ReqTypeOK'
  BY <1>1 DEF ReqTypeOK, Scheduling, IInv, TypeOK, queue
<1>5. TaskInv'
  BY <1>1 DEF TaskInv
<1>6. StateInv'
  BY <1>1 DEF StateInv, Scheduling, IInv
<1>7. "COMP_SLEEP" \in ev' <=> "COMP_SLEEP" \in ev
  BY DEF Settle, DataEvents
<1>8. PowerInv'
  BY <1>1, <1>7, NoCompletionInHand DEF PowerInv, Scheduling, IInv, Nop, Action
<1> QED
  BY <1>2, <1>3, <1>4, <1>5, <1>6, <1>8 DEF Scheduled

\* HANDLE_ERROR fits at any time, WAKE when the chip is asleep.
LEMMA AlwaysFit ==
  /\ Err \in ActionObject /\ Fits(Err) /\ Err.op = "HANDLE_ERROR" /\ Err.arg = ""
  /\ Wake \in ActionObject /\ Wake.op = "WAKE" /\ Wake.arg = ""
  /\ pwr = "HIBERNATE" => Fits(Wake)
<1>1. Err.op = "HANDLE_ERROR" /\ Err.arg = "" /\ Wake.op = "WAKE" /\ Wake.arg = ""
  BY DEF Err, Wake, Action
<1>2. Err \in ActionObject /\ Wake \in ActionObject
  BY DEF Err, Wake, Action, ActionObject, ActionTypes, ActionArgs
<1>3. Fits(Err)
  BY <1>1 DEF Fits, CompFits, FrameFits, TimerFits, OrderFits, ChipFits, OpenFits, StateOps
<1>4. pwr = "HIBERNATE" => Fits(Wake)
  BY <1>1 DEF Fits, CompFits, FrameFits, TimerFits, OrderFits, ChipFits, OpenFits, StateOps
<1> QED
  BY <1>1, <1>2, <1>3, <1>4

\* The same of an action that comes of the events.
LEMMA HandlesFitting ==
  ASSUME Scheduling,
         NEW E \in SUBSET Events, NEW F \in SUBSET Flags,
         NEW a \in ActionObject, Fits(a), a.op # "SKIP_MNG_FRAME",
         NEW status \in Statuses, Handle(a, status, E, F),
         "COMP_SLEEP" \in E \cup {a.arg} <=> "COMP_SLEEP" \in ev,
         "COMP_SLEEP" \in E => a.arg # "COMP_SLEEP"
  PROVE  Scheduled
<1>1. Take(a, status) /\ ev' = E /\ flags' = F
  BY DEF Handle
<1> QED
  BY <1>1, TakesFitting

\* The action is HANDLE_ERROR or WAKE.
LEMMA HandlesErrOrWake ==
  ASSUME Scheduling,
         NEW E \in SUBSET Events, NEW F \in SUBSET Flags,
         \/ Handle(Err, "NONE", E, F)
         \/ pwr = "HIBERNATE" /\ Handle(Wake, "NONE", E, F),
         "COMP_SLEEP" \in E <=> "COMP_SLEEP" \in ev
  PROVE  Scheduled
<1>1. "NONE" \in Statuses
  BY DEF Statuses
<1>2. CASE Handle(Err, "NONE", E, F)
  <2>1. Err.op # "SKIP_MNG_FRAME" /\ Err.arg # "COMP_SLEEP"
    BY AlwaysFit
  <2> QED
    BY <1>1, <1>2, <2>1, AlwaysFit, HandlesFitting
<1>3. CASE pwr = "HIBERNATE" /\ Handle(Wake, "NONE", E, F)
  <2>1. Wake.op # "SKIP_MNG_FRAME" /\ Wake.arg # "COMP_SLEEP"
    BY AlwaysFit
  <2> QED
    BY <1>1, <1>3, <2>1, AlwaysFit, HandlesFitting
<1> QED
  BY <1>2, <1>3

\* A received frame (CNL_checkRecvdMngFrame).
LEMMA FrameFitting ==
  ASSUME Scheduling,
         NEW f \in Frames, NEW E \in SUBSET Events, NEW F \in SUBSET Flags,
         RecvdMngFrame(f, E, F),
         "COMP_SLEEP" \in E <=> "COMP_SLEEP" \in ev
  PROVE  Scheduled
<1> DEFINE op == IF FrameSkipped(f, F) THEN "SKIP_MNG_FRAME" ELSE "HANDLE_MNG_FRAME"
           a  == Action(op, f, NoReq)
<1>1. f # "COMP_SLEEP" /\ f \in ActionArgs
  BY DEF Frames, ActionArgs, Events
<1>2. FrameFlags(f, F) \in SUBSET Flags
  BY DEF FrameFlags, Flags
<1>3. CASE ~FrameValid(f) /\ Handle(Err, "NONE", E \ {f}, F)
  <2>1. E \ {f} \in SUBSET Events /\ ("COMP_SLEEP" \in E \ {f} <=> "COMP_SLEEP" \in ev)
    BY <1>1
  <2> QED
    BY <1>3, <2>1, HandlesErrOrWake
<1>4. CASE FrameValid(f) /\ pwr = "HIBERNATE" /\ Handle(Wake, "NONE", E, FrameFlags(f, F))
  BY <1>2, <1>4, HandlesErrOrWake
<1>5. CASE FrameValid(f) /\ pwr # "HIBERNATE" /\ ~Ready /\ Settle(E, FrameFlags(f, F))
  BY <1>2, <1>5, SettlesFitting
<1>6. ASSUME FrameValid(f), Ready, act' = a, pc' = "read", ev' = E,
             flags' = FrameFlags(f, F), UNCHANGED <<queue, req>>
      PROVE  Scheduled
  <2>1. /\ act'.op = op /\ act'.arg = f
        /\ act' \in ActionObject
    BY <1>1, <1>6 DEF Action, ActionObject, ActionTypes
  <2>2. Fits(act)'
    <3>1. UNCHANGED <<main, sub, pwr, proc>>
      BY DEF Scheduling
    <3>2. /\ op = "HANDLE_MNG_FRAME" /\ f = "C_REQ" => main \in {"SEARCH", "CONNECTION_REQUEST"}
          /\ op = "HANDLE_MNG_FRAME" /\ f = "C_ACC" => main = "CONNECTION_REQUEST"
          /\ op = "SKIP_MNG_FRAME" /\ f = "C_REQ" => main # "SEARCH"
      BY <1>6 DEF FrameSkipped, FrameValid
    <3>3. FrameFits(act)'
      BY <1>6, <2>1, <3>1, <3>2 DEF FrameFits, FrameValid, Ready
    <3> QED
      BY <2>1, <3>1, <3>3 DEF Fits, CompFits, TimerFits, OrderFits, ChipFits, OpenFits, StateOps
  <2>3. TaskInv'
    BY <1>6, <2>1, <2>2 DEF TaskInv
  <2>4. StateInv'
    BY <1>6 DEF StateInv, Scheduling, IInv
  <2>5. PowerInv'
    BY <1>1, <1>6, <2>1, NoCompletionInHand DEF PowerInv, Scheduling, IInv
  <2>6. ReqTypeOK' /\ TaskTypeOK'
    BY <1>6, <2>1 DEF ReqTypeOK, TaskTypeOK, Scheduling, IInv, TypeOK, queue
  <2> QED
    BY <1>2, <1>6, <2>3, <2>4, <2>5, <2>6 DEF Scheduled
<1> QED
  BY <1>3, <1>4, <1>5, <1>6 DEF RecvdMngFrame

\* No action, or the handler of frames for a C-Acc that was acknowledged unseen.
LEMMA NoActionFitting ==
  ASSUME Scheduling,
         NEW E \in SUBSET Events, NEW F \in SUBSET Flags, NoAction(E, F),
         "COMP_SLEEP" \in E <=> "COMP_SLEEP" \in ev
  PROVE  Scheduled
<1> DEFINE A == (E \ DataEvents) \cup {"ACK_FOR_C_ACC"}
           G == F \cup {"missCaccAck", "rxReady"}
                  \cup (IF "TX_READY" \in E THEN {"txReady"} ELSE {})
                  \cup (IF "TX_COMP" \in E THEN {"txComp"} ELSE {})
<1>1. CASE "RX_READY" \in E /\ main = "RESPONDER_RESPONSE"
  <2>1. PICK f \in Frames : RecvdMngFrame(f, A, G)
    BY <1>1 DEF NoAction
  <2>2. A \in SUBSET Events /\ ("COMP_SLEEP" \in A <=> "COMP_SLEEP" \in ev)
    BY DEF Events, Frames, DataEvents
  <2>3. G \in SUBSET Flags
    BY DEF Flags
  <2> QED
    BY <2>1, <2>2, <2>3, FrameFitting
<1>2. CASE ~("RX_READY" \in E /\ main = "RESPONDER_RESPONSE")
  <2>1. Settle(E, F)
    BY <1>2 DEF NoAction
  <2> QED
    BY <2>1, SettlesFitting
<1> QED
  BY <1>1, <1>2

\* A timer (CNL_checkTimeout).
LEMMA TimeoutFitting ==
  ASSUME Scheduling, ev \in SUBSET Events, flags \in SUBSET Flags,
         NEW t \in Timers, Timeout(t)
  PROVE  Scheduled
<1> DEFINE a == Action("HANDLE_TIMEOUT", t, NoReq)
<1>1. t # "COMP_SLEEP" /\ t \in ActionArgs
  BY DEF Timers, ActionArgs, Events
<1>2. ev \ {t} \in SUBSET Events /\ ("COMP_SLEEP" \in ev \ {t} <=> "COMP_SLEEP" \in ev)
  BY <1>1
<1>3. CASE ~TimerValid(t) /\ Handle(Err, "NONE", ev \ {t}, flags)
  BY <1>2, <1>3, HandlesErrOrWake
<1>4. CASE TimerValid(t) /\ pwr = "HIBERNATE" /\ Handle(Wake, "NONE", ev, flags)
  BY <1>4, HandlesErrOrWake
<1>5. CASE NoAction(ev, flags)
  BY <1>5, NoActionFitting
<1>6. CASE TimerValid(t) /\ Ready /\ Handle(a, "NONE", ev \ {t}, flags)
  <2>1. /\ a.op = "HANDLE_TIMEOUT" /\ a.arg = t
        /\ a \in ActionObject
    BY <1>1 DEF Action, ActionObject, ActionTypes
  <2>2. Fits(a)
    BY <1>6, <2>1 DEF Fits, CompFits, FrameFits, TimerFits, OrderFits, ChipFits, OpenFits, StateOps, Ready
  <2>3. "NONE" \in Statuses
    BY DEF Statuses
  <2>4. /\ "COMP_SLEEP" \in (ev \ {t}) \cup {a.arg} <=> "COMP_SLEEP" \in ev
        /\ a.op # "SKIP_MNG_FRAME" /\ a.arg # "COMP_SLEEP"
    BY <1>1, <2>1
  <2> HIDE DEF a
  <2> QED
    BY <1>2, <1>6, <2>1, <2>2, <2>3, <2>4, HandlesFitting
<1> QED
  BY <1>3, <1>4, <1>5, <1>6 DEF Timeout

\* The completion of what the chip or the driver did (CNL_checkCompRequest).
LEMMA CompletionFitting ==
  ASSUME Scheduling, ev \in SUBSET Events, flags \in SUBSET Flags,
         NEW e \in CompReqs, e \in ev, CompRequest(e)
  PROVE  Scheduled
<1> DEFINE r == IF Internal(e) THEN NoReq ELSE ctrlQ
           s == IF Internal(e) THEN "NONE" ELSE "SUCCESS"
           a == Action("HANDLE_COMPLETE", e, r)
<1>1. ev \ {e} \in SUBSET Events
  OBVIOUS
<1>2. /\ "COMP_SLEEP" \in ev => pwr = "AWAKE_TO_HIBERNATE"
      /\ e # "COMP_SLEEP" => ("COMP_SLEEP" \in ev \ {e} <=> "COMP_SLEEP" \in ev)
  BY DEF Scheduling, IInv, PowerInv
<1>3. CASE ~CompValid(e) /\ Handle(Err, "NONE", ev \ {e}, flags)
  <2>1. e # "COMP_SLEEP"
    BY <1>3 DEF CompValid
  <2> QED
    BY <1>1, <1>2, <1>3, <2>1, HandlesErrOrWake
<1>4. CASE CompValid(e) /\ e = "COMP_PROBE_REQ" /\ ProbeCompleted
  <2> DEFINE E == ev \ {"COMP_PROBE_REQ"}
             b == Send("C_SLEEP", PwrReq)
  <2>1. CASE sub = "CONNECTED" /\ Handle(b, "NONE", E, flags)
    <3>1. /\ b.op = "SEND_MNG_FRAME" /\ b.arg = "C_SLEEP"
          /\ b \in ActionObject
      BY DEF Send, Action, ActionObject, ActionTypes, ActionArgs, Events, Frames
    <3>2. pwr = "AWAKE" /\ main \notin {"CLOSE", "SEARCH"}
      BY <1>4, <2>1 DEF CompValid, IsConnected, Scheduling, IInv, PowerInv
    <3>3. Fits(b)
      BY <2>1, <3>1, <3>2 DEF Fits, CompFits, FrameFits, TimerFits, OrderFits, ChipFits, OpenFits,
         StateOps, Frames
    <3>4. "NONE" \in Statuses
      BY DEF Statuses
    <3>5. E \in SUBSET Events /\ ("COMP_SLEEP" \in E \cup {b.arg} <=> "COMP_SLEEP" \in ev)
      BY <3>1
    <3>6. b.op # "SKIP_MNG_FRAME" /\ b.arg # "COMP_SLEEP"
      BY <3>1
    <3> HIDE DEF b, E
    <3> QED
      BY <2>1, <3>1, <3>3, <3>4, <3>5, <3>6, HandlesFitting
  <2>2. CASE NoAction(E, flags)
    <3>1. E \in SUBSET Events /\ ("COMP_SLEEP" \in E <=> "COMP_SLEEP" \in ev)
      OBVIOUS
    <3> QED
      BY <2>2, <3>1, NoActionFitting
  <2> QED
    BY <1>4, <2>1, <2>2 DEF ProbeCompleted
<1>5. CASE NoAction(ev, flags)
  BY <1>5, NoActionFitting
<1>6. CASE pwr = "HIBERNATE" /\ Handle(Wake, "NONE", ev, flags)
  BY <1>6, HandlesErrOrWake
<1>7. CASE e # "COMP_SLEEP" /\ NoAction(ev \ {e}, flags)
  BY <1>1, <1>2, <1>7, NoActionFitting
<1>8. ASSUME CompValid(e), e # "COMP_PROBE_REQ", ~CompDeferred(e), pwr # "HIBERNATE",
             Handle(a, s, ev \ {e}, flags)
      PROVE  Scheduled
  <2>1. r \in Callers \cup {NoReq} /\ s \in Statuses
    BY DEF Scheduling, IInv, TypeOK, ReqTypeOK, Statuses
  <2>2. a.op = "HANDLE_COMPLETE" /\ a.arg = e /\ a \in ActionObject
    BY <2>1 DEF Action, ActionObject, ActionTypes, ActionArgs, Events
  <2>3. pwr \in {"AWAKE", "AWAKE_TO_HIBERNATE", "HIBERNATE_TO_AWAKE"}
    BY <1>8 DEF Scheduling, IInv, TypeOK, DevTypeOK, Transitional
  <2>4. CompFits(a)
    BY <1>8, <2>2, <2>3 DEF CompFits, CompDeferred
  <2>5. Fits(a)
    BY <2>2, <2>4 DEF Fits, FrameFits, TimerFits, OrderFits, ChipFits, OpenFits, StateOps
  <2>6. "COMP_SLEEP" \in (ev \ {e}) \cup {a.arg} <=> "COMP_SLEEP" \in ev
    BY <2>2
  <2>7. /\ "COMP_SLEEP" \in ev \ {e} => a.arg # "COMP_SLEEP"
        /\ a.op # "SKIP_MNG_FRAME"
    BY <2>2
  <2> HIDE DEF a, s, r
  <2> QED
    BY <1>1, <1>8, <2>1, <2>2, <2>5, <2>6, <2>7, HandlesFitting
<1>9. CASE /\ CompValid(e) /\ e # "COMP_PROBE_REQ" /\ ~CompDeferred(e) /\ pwr # "HIBERNATE"
           /\ IF Internal(e)
              THEN Handle(Action("HANDLE_COMPLETE", e, NoReq), "NONE", ev \ {e}, flags)
              ELSE IF ctrlQ = NoReq
              THEN NoAction(ev \ {e}, flags)
              ELSE Handle(Action("HANDLE_COMPLETE", e, ctrlQ), "SUCCESS", ev \ {e}, flags)
  <2>1. Handle(a, s, ev \ {e}, flags) \/ (~Internal(e) /\ NoAction(ev \ {e}, flags))
    BY <1>9
  <2>2. ~Internal(e) => e # "COMP_SLEEP"
    BY DEF Internal
  <2> HIDE DEF a, s, r
  <2> QED
    BY <1>7, <1>8, <1>9, <2>1, <2>2
<1> QED
  BY <1>3, <1>4, <1>5, <1>6, <1>9 DEF CompRequest

\* WAKE_REQUIRED (CNL_checkWakeRequired).
LEMMA WakeRequiredFitting ==
  ASSUME Scheduling, ev \in SUBSET Events, flags \in SUBSET Flags, WakeRequired
  PROVE  Scheduled
<1>1. /\ ev \ {"WAKE_REQUIRED"} \in SUBSET Events
      /\ "COMP_SLEEP" \in ev \ {"WAKE_REQUIRED"} <=> "COMP_SLEEP" \in ev
  OBVIOUS
<1> QED
  BY <1>1, HandlesErrOrWake, NoActionFitting DEF WakeRequired

\* A step of the scheduler leaves the rest of its state alone.
Untouched == UNCHANGED <<main, sub, pwr, proc, irq, sem, view, pmu, tx, bank, phy, gate, sta>>

\* What is left to show once the action is known to fit.
LEMMA ScheduledStep ==
  ASSUME IInv, Scheduled, Untouched, signaled' \in BOOLEAN, en' \subseteq Sources, data' = data,
         nTimeout' \in Nat, nFault' \in Nat, act'.op \notin {"SEND_DATA", "RECEIVE_DATA"}
  PROVE  IInv'
<1>1. DevTypeOK' /\ EventTypeOK' /\ ChipTypeOK' /\ DataTypeOK'
  BY DEF IInv, Scheduled, Untouched, TypeOK, DevTypeOK, EventTypeOK, ChipTypeOK, DataTypeOK
<1>2. BankInv'
  BY DEF IInv, BankInv, Untouched
<1> QED
  BY <1>1, <1>2 DEF IInv, Scheduled, TypeOK

\* Only requests have data sent or received, or the device closed; no event has.
DataOps == {"SEND_DATA", "RECEIVE_DATA"}
RequestOps == DataOps \cup {"CLOSE"}

LEMMA NoActionOp ==
  ASSUME NEW E, NEW F,
         NoAction(E, F) \/ \E f \in Frames : RecvdMngFrame(f, E, F)
  PROVE  act'.op \notin RequestOps
<1>1. Err.op \notin RequestOps /\ Wake.op \notin RequestOps /\ Nop.op \notin RequestOps
  BY DEF Err, Wake, Nop, Action, RequestOps, DataOps
<1>2. ASSUME NEW f, NEW A, NEW G, RecvdMngFrame(f, A, G)
      PROVE  act'.op \notin RequestOps
  BY <1>1, <1>2 DEF RecvdMngFrame, Handle, Take, Settle, Action, RequestOps, DataOps
<1>3. CASE NoAction(E, F)
  BY <1>1, <1>2, <1>3 DEF NoAction, Settle
<1> QED
  BY <1>2, <1>3

LEMMA EventOp ==
  ASSUME CheckEvent
  PROVE  act'.op \notin RequestOps
<1>1. /\ Err.op \notin RequestOps /\ Wake.op \notin RequestOps
      /\ \A f, r : Send(f, r).op \notin RequestOps
      /\ \A x, r : Action("HANDLE_COMPLETE", x, r).op \notin RequestOps
      /\ \A x, r : Action("HANDLE_TIMEOUT", x, r).op \notin RequestOps
  BY DEF Err, Wake, Nop, Send, Action, RequestOps, DataOps
<1>2. ASSUME NEW a, NEW s, NEW E, NEW F, Handle(a, s, E, F)
      PROVE  act' = a
  BY <1>2 DEF Handle, Take
<1>3. CASE WakeRequired
  BY <1>1, <1>2, <1>3, NoActionOp DEF WakeRequired
<1>4. ASSUME NEW e, CompRequest(e)
      PROVE  act'.op \notin RequestOps
  <2>1. CASE ProbeCompleted
    BY <1>1, <1>2, <2>1, NoActionOp DEF ProbeCompleted
  <2> QED
    BY <1>1, <1>2, <1>4, <2>1, NoActionOp DEF CompRequest
<1>5. ASSUME NEW t, Timeout(t)
      PROVE  act'.op \notin RequestOps
  BY <1>1, <1>2, <1>5, NoActionOp DEF Timeout
<1> QED
  BY <1>1, <1>2, <1>3, <1>4, <1>5, NoActionOp DEF CheckEvent

LEMMA WaitStep ==
  ASSUME IInv, TaskWait
  PROVE  IInv'
<1>1. /\ UNCHANGED <<main, sub, pwr, proc, flags, act, view, ev, irq, data, bank, reqVars,
                     chipVars, bounds>>
      /\ pc = "wait" /\ pc' = "sched" /\ signaled' = FALSE
  BY DEF TaskWait, devVars, chipVars
<1>2. TaskInv' /\ StateInv' /\ PowerInv' /\ BankInv'
  BY <1>1 DEF IInv, TaskInv, StateInv, PowerInv, BankInv
<1>3. DevTypeOK' /\ TaskTypeOK' /\ ChipTypeOK'
  BY <1>1 DEF IInv, TypeOK, DevTypeOK, TaskTypeOK, ChipTypeOK, chipVars
<1>4. ReqTypeOK' /\ DataTypeOK' /\ EventTypeOK' /\ nTimeout' \in Nat /\ nFault' \in Nat
  BY <1>1 DEF IInv, TypeOK, ReqTypeOK, DataTypeOK, EventTypeOK, reqVars, queue, bounds
<1> QED
  BY <1>2, <1>3, <1>4 DEF IInv, TypeOK

LEMMA EventStep ==
  ASSUME IInv, CheckEvent
  PROVE  IInv'
<1>1. Scheduling /\ Untouched /\ UNCHANGED <<signaled, en, data, bounds>>
  BY DEF CheckEvent, Scheduling, Untouched, chipVars
<1>2. ev \in SUBSET Events /\ flags \in SUBSET Flags
  BY DEF IInv, TypeOK, EventTypeOK, DevTypeOK
<1>3. \A e : Prior(e, ev) => e \in ev
  BY DEF Prior, Unfiltered
<1>4. Scheduled
  <2>1. CASE NoAction(ev, flags)
    BY <1>1, <1>2, <2>1, NoActionFitting
  <2>2. CASE WakeRequired
    BY <1>1, <1>2, <2>2, WakeRequiredFitting
  <2>3. CASE Handle(Err, "NONE", ev \ {"ERROR_OCCURRED"}, flags)
    <3>1. /\ ev \ {"ERROR_OCCURRED"} \in SUBSET Events
          /\ "COMP_SLEEP" \in ev \ {"ERROR_OCCURRED"} <=> "COMP_SLEEP" \in ev
      BY <1>2
    <3> QED
      BY <1>1, <1>2, <2>3, <3>1, HandlesErrOrWake
  <2>4. CASE \E e \in CompReqs : Prior(e, ev) /\ CompRequest(e)
    BY <1>1, <1>2, <1>3, <2>4, CompletionFitting
  <2>5. CASE \E t \in Timers : Prior(t, ev) /\ Timeout(t)
    BY <1>1, <1>2, <2>5, TimeoutFitting
  <2>6. CASE \E f \in Frames : Prior(f, ev) /\ RecvdMngFrame(f, ev, flags)
    BY <1>1, <1>2, <2>6, FrameFitting
  <2> QED
    BY <2>1, <2>2, <2>3, <2>4, <2>5, <2>6 DEF CheckEvent
<1>5. act'.op \notin {"SEND_DATA", "RECEIVE_DATA"}
  BY EventOp DEF RequestOps, DataOps
<1>6. signaled' \in BOOLEAN /\ en' \subseteq Sources /\ nTimeout' \in Nat /\ nFault' \in Nat
  BY <1>1 DEF IInv, TypeOK, EventTypeOK, ChipTypeOK, bounds
<1> QED
  BY <1>1, <1>4, <1>5, <1>6, ScheduledStep

LEMMA ReadStep ==
  ASSUME IInv, ReadMngBody
  PROVE  IInv'
<1> DEFINE f == act.arg
           E == ev \ {f}
           refused == f = "C_REQ" /\ main \notin {"SEARCH", "CONNECTION_REQUEST"}
<1>1. Scheduling /\ Untouched /\ UNCHANGED <<signaled, data>>
  BY DEF ReadMngBody, Scheduling, Untouched
<1>2. /\ E \in SUBSET Events /\ flags \in SUBSET Flags
      /\ "COMP_SLEEP" \in E <=> "COMP_SLEEP" \in ev
  BY NoCompletionInHand DEF ReadMngBody, IInv, TypeOK, EventTypeOK, DevTypeOK
<1>3. \/ Handle(Err, "NONE", E, flags)
      \/ act.op = "HANDLE_MNG_FRAME" /\ Handle(act, "NONE", E, flags)
      \/ NoAction(E, flags)
  BY DEF ReadMngBody
<1>4. Scheduled /\ act'.op \notin DataOps
  <2>1. CASE Handle(Err, "NONE", E, flags)
    <3>1. act' = Err
      BY <2>1 DEF Handle, Take
    <3> QED
      BY <1>1, <1>2, <2>1, <3>1, HandlesErrOrWake DEF Err, Action, DataOps
  <2>2. CASE act.op = "HANDLE_MNG_FRAME" /\ Handle(act, "NONE", E, flags)
    <3>1. act \in ActionObject /\ Fits(act) /\ "NONE" \in Statuses
      BY DEF ReadMngBody, IInv, TaskInv, TypeOK, TaskTypeOK, Statuses
    <3>2. /\ "COMP_SLEEP" \in E \cup {act.arg} <=> "COMP_SLEEP" \in ev
          /\ act.arg # "COMP_SLEEP"
      BY <1>2, NoCompletionInHand DEF ReadMngBody
    <3>3. act' = act
      BY <2>2 DEF Handle, Take
    <3> HIDE DEF E
    <3> QED
      BY <1>1, <1>2, <2>2, <3>1, <3>2, <3>3, HandlesFitting DEF DataOps
  <2>3. CASE NoAction(E, flags)
    BY <1>1, <1>2, <2>3, NoActionFitting, NoActionOp DEF RequestOps
  <2> QED
    BY <1>3, <2>1, <2>2, <2>3
<1>5. signaled' \in BOOLEAN /\ en' \subseteq Sources /\ nTimeout' \in Nat /\ nFault' \in Nat
  <2>1. en' \subseteq Sources
    BY DEF ReadMngBody, IInv, TypeOK, ChipTypeOK, Sources, RcvInts
  <2> QED
    BY <1>1, <2>1 DEF ReadMngBody, DeviceFault, IInv, TypeOK, EventTypeOK, bounds
<1> QED
  BY <1>1, <1>4, <1>5, ScheduledStep DEF DataOps

\* The first look at the queue (CNL_checkInitClose).
LEMMA InitCloseStep ==
  ASSUME IInv, CheckInitClose
  PROVE  IInv'
<1>1. Scheduling /\ Untouched /\ UNCHANGED <<ev, flags, signaled, en, data, bounds>>
  BY DEF CheckInitClose, Scheduling, Untouched, devVars, evVars, chipVars
<1>2. ev' \subseteq Events /\ flags' \subseteq Flags
  BY <1>1 DEF IInv, TypeOK, EventTypeOK, DevTypeOK
<1>3. "NONE" \in Statuses /\ "INVSTAT" \in Statuses
  BY DEF Statuses
<1> DEFINE Taken(a, s) == /\ s \in Statuses /\ Take(a, s)
                          /\ \/ a = Complete(ctrlQ)
                             \/ main = "CLOSE" /\ a = Action("INIT", "", ctrlQ)
                             \/ a = Wake /\ pwr = "HIBERNATE"
                             \/ main # "CLOSE" /\ a = Action("CLOSE", "", ctrlQ) /\ pwr = "AWAKE"
<1>4. ASSUME NEW a, NEW s, Taken(a, s)
      PROVE  Scheduled /\ act'.op \notin DataOps
  <2>1. ctrlQ \in Callers \cup {NoReq}
    BY DEF IInv, TypeOK, ReqTypeOK
  <2>2. /\ a \in ActionObject
        /\ \/ a.op = "HANDLE_COMPLETE" /\ a.arg = "COMP_NULL"
           \/ a.op = "INIT" /\ a.arg = "" /\ main = "CLOSE"
           \/ a.op = "WAKE" /\ a.arg = "" /\ pwr = "HIBERNATE"
           \/ a.op = "CLOSE" /\ a.arg = "" /\ pwr = "AWAKE" /\ main # "CLOSE"
    <3>1. CASE a = Complete(ctrlQ)
      BY <2>1, <3>1 DEF Complete, Action, ActionObject, ActionTypes, ActionArgs
    <3>2. CASE main = "CLOSE" /\ a = Action("INIT", "", ctrlQ)
      BY <2>1, <3>2 DEF Action, ActionObject, ActionTypes, ActionArgs
    <3>3. CASE a = Wake /\ pwr = "HIBERNATE"
      BY <3>3, AlwaysFit
    <3>4. CASE main # "CLOSE" /\ a = Action("CLOSE", "", ctrlQ) /\ pwr = "AWAKE"
      BY <2>1, <3>4 DEF Action, ActionObject, ActionTypes, ActionArgs
    <3> QED
      BY <1>4, <3>1, <3>2, <3>3, <3>4
  <2>3. /\ Fits(a)
        /\ a.arg # "COMP_SLEEP" /\ a.op \notin DataOps \cup {"SKIP_MNG_FRAME"}
    BY <2>2 DEF Fits, CompFits, FrameFits, TimerFits, OrderFits, ChipFits, OpenFits, StateOps, DataOps
  <2>4. act' = a
    BY <1>4 DEF Take
  <2>5. "COMP_SLEEP" \in ev' \cup {a.arg} <=> "COMP_SLEEP" \in ev
    BY <1>1, <2>3
  <2> QED
    BY <1>1, <1>2, <1>4, <2>2, <2>3, <2>4, <2>5, TakesFitting
<1>5. CASE pc' = "event" /\ UNCHANGED <<act, queue, req>>
  <2>1. act = Nop
    BY DEF CheckInitClose, IInv, TaskInv
  <2>2. Scheduled
    <3>1. UNCHANGED <<main, sub, pwr, proc, irq, sem, view>> /\ pc = "sched"
      BY DEF CheckInitClose, Untouched, devVars, evVars
    <3>2. ReqTypeOK' /\ TaskTypeOK'
      BY <1>5, <3>1 DEF IInv, TypeOK, ReqTypeOK, TaskTypeOK, queue
    <3>3. TaskInv'
      BY <1>5, <2>1 DEF TaskInv
    <3>4. StateInv' /\ PowerInv'
      BY <1>1, <1>5, <3>1 DEF IInv, StateInv, PowerInv
    <3> QED
      BY <1>2, <3>2, <3>3, <3>4 DEF Scheduled
  <2>3. act'.op \notin DataOps
    BY <1>5, <2>1 DEF Nop, Action, DataOps
  <2> QED
    BY <1>1, <2>2, <2>3, ScheduledStep DEF DataOps, IInv, TypeOK, EventTypeOK, ChipTypeOK, bounds
<1>6. CASE \E a, s : Taken(a, s)
  <2>1. Scheduled /\ act'.op \notin DataOps
    <3> HIDE DEF Taken
    <3> QED
      BY <1>4, <1>6
  <2> QED
    BY <1>1, <2>1, ScheduledStep DEF DataOps, IInv, TypeOK, EventTypeOK, ChipTypeOK, bounds
<1>7. \/ Taken(Complete(ctrlQ), "INVSTAT") \/ Taken(Action("INIT", "", ctrlQ), "NONE")
      \/ Taken(Wake, "NONE") \/ Taken(Action("CLOSE", "", ctrlQ), "NONE")
      \/ pc' = "event" /\ UNCHANGED <<act, queue, req>>
  BY <1>3 DEF CheckInitClose
<1> QED
  <2> HIDE DEF Taken
  <2> QED
    BY <1>5, <1>6, <1>7

(****************************************************************************)
(* Requests.  Every action the scheduler makes of one fits.                 *)
(****************************************************************************)
Fitting(a) ==
  a \in ActionObject /\ Fits(a) /\ a.op # "SKIP_MNG_FRAME" /\ a.arg # "COMP_SLEEP"

Requesting == IInv /\ pc = "request"

\* The link a frame of the core is sent over.
MaySend(f) ==
  /\ main \notin {"CLOSE", "SEARCH"}
  /\ f \in {"C_SLEEP", "C_WAKE"} => sub \in {"CONNECTED", "TARGET_SLEEP"}

\* The actions that come of requests fit the state they are taken in.
LEMMA FittingActions ==
  /\ Fitting(Nop) /\ Nop.op = "NOP"
  /\ Fitting(Err) /\ (pwr = "HIBERNATE" => Fitting(Wake))
  /\ \A r \in Callers \cup {NoReq} :
       Fitting(Complete(r)) /\ Complete(r).op = "HANDLE_COMPLETE"
  /\ \A f \in Frames, r \in Callers \cup {NoReq, PwrReq} :
       /\ Send(f, r).op = "SEND_MNG_FRAME"
       /\ pwr = "AWAKE" /\ MaySend(f) => Fitting(Send(f, r))
  /\ \A r \in Callers \cup {NoReq},
        op \in {"WAIT_CONNECT", "CANCEL_WAIT_CONNECT", "RECEIVE_DATA"} :
       /\ Action(op, "", r).op = op
       /\ pwr = "AWAKE" /\ (IF op = "RECEIVE_DATA" THEN main # "CLOSE" ELSE main = "SEARCH")
            => Fitting(Action(op, "", r))
<1>1. Fitting(Nop) /\ Nop.op = "NOP"
  BY DEF Nop, Action, Fitting, ActionObject, ActionTypes, ActionArgs, Fits, CompFits,
         FrameFits, TimerFits, OrderFits, ChipFits, OpenFits, StateOps
<1>2. Fitting(Err) /\ (pwr = "HIBERNATE" => Fitting(Wake))
  BY AlwaysFit DEF Fitting
<1>3. ASSUME NEW r \in Callers \cup {NoReq}
      PROVE  Fitting(Complete(r)) /\ Complete(r).op = "HANDLE_COMPLETE"
  BY DEF Complete, Action, Fitting, ActionObject, ActionTypes, ActionArgs, Fits, CompFits,
         FrameFits, TimerFits, OrderFits, ChipFits, OpenFits, StateOps
<1>4. ASSUME NEW f \in Frames, NEW r \in Callers \cup {NoReq, PwrReq}
      PROVE  /\ Send(f, r).op = "SEND_MNG_FRAME"
             /\ pwr = "AWAKE" /\ MaySend(f) => Fitting(Send(f, r))
  <2>1. /\ Send(f, r).op = "SEND_MNG_FRAME" /\ Send(f, r).arg = f
        /\ Send(f, r) \in ActionObject /\ f # "COMP_SLEEP"
    BY DEF Send, Action, ActionObject, ActionTypes, ActionArgs, Events, Frames
  <2> QED
    BY <2>1 DEF MaySend, Fitting, Fits, CompFits, FrameFits, TimerFits, OrderFits, ChipFits,
       OpenFits, StateOps
<1>5. ASSUME NEW r \in Callers \cup {NoReq},
             NEW op \in {"WAIT_CONNECT", "CANCEL_WAIT_CONNECT", "RECEIVE_DATA"}
      PROVE  /\ Action(op, "", r).op = op
             /\ pwr = "AWAKE" /\ (IF op = "RECEIVE_DATA" THEN main # "CLOSE" ELSE main = "SEARCH")
                  => Fitting(Action(op, "", r))
  <2> DEFINE a == Action(op, "", r)
  <2>1. a.op = op /\ a.arg = "" /\ a \in ActionObject
    BY DEF Action, ActionObject, ActionTypes, ActionArgs
  <2> HIDE DEF a
  <2>2. pwr = "AWAKE" /\ (IF op = "RECEIVE_DATA" THEN main # "CLOSE" ELSE main = "SEARCH")
          => Fitting(a)
    BY <2>1 DEF Fitting, Fits, CompFits, FrameFits, TimerFits, OrderFits, ChipFits, OpenFits,
       StateOps
  <2> QED
    BY <2>1, <2>2 DEF a
<1> QED
  BY <1>1, <1>2, <1>3, <1>4, <1>5

LEMMA FittingOrders ==
  ASSUME NEW t,
         \/ t = "CONNECT_REQ" /\ main = "SEARCH"
         \/ t = "ACCEPT_REQ" /\ main \in {"CONNECTION_REQUEST", "ACCEPT_WAITING"}
         \/ t = "WAKE_REQ" /\ IsConnected(main)
         \/ t = "POWERSAVE_REQ" /\ IsConnected(main) /\ sub = "TARGET_SLEEP" /\ proc = "NOP"
  PROVE  Order(t).op = "HANDLE_UPPER_ORDER" /\ (pwr = "AWAKE" => Fitting(Order(t)))
<1>1. /\ Order(t).op = "HANDLE_UPPER_ORDER" /\ Order(t).arg = t
      /\ Order(t) \in ActionObject /\ t # "COMP_SLEEP"
  BY DEF Order, Action, ActionObject, ActionTypes, ActionArgs, RequestTypes
<1> QED
  BY <1>1 DEF Fitting, Fits, CompFits, FrameFits, TimerFits, OrderFits, ChipFits, OpenFits, StateOps

LEMMA FittingAwake ==
  ASSUME IInv, NEW a, pwr = "AWAKE" => Fitting(a)
  PROVE  Fitting(AwakeFirst(a)) /\ AwakeFirst(a).op \in {a.op, "WAKE", "NOP"}
<1>1. pwr \in {"AWAKE", "HIBERNATE"} \cup Transitional
  BY DEF IInv, TypeOK, DevTypeOK
<1> QED
  BY <1>1, FittingActions, AlwaysFit DEF AwakeFirst, Transitional

LEMMA FittingWakeLink ==
  ASSUME IInv, IsConnected(main)
  PROVE  Fitting(WakeLink) /\ WakeLink.op \notin DataOps
<1>1. CASE sub = "TARGET_SLEEP"
  <2>1. pwr = "AWAKE"
    BY <1>1 DEF IInv, PowerInv, IsConnected
  <2> QED
    BY <1>1, <2>1, FittingActions DEF WakeLink, DataOps, Frames, MaySend, IsConnected
<1>2. CASE sub # "TARGET_SLEEP"
  <2> DEFINE a == Order("WAKE_REQ")
  <2>1. a.op = "HANDLE_UPPER_ORDER" /\ (pwr = "AWAKE" => Fitting(a))
    BY FittingOrders
  <2>2. WakeLink = AwakeFirst(a)
    BY <1>2 DEF WakeLink
  <2> HIDE DEF a
  <2> QED
    BY <2>1, <2>2, FittingAwake DEF DataOps
<1> QED
  BY <1>1, <1>2

\* What is made of the control request in the queue (CNL_getCtrlRequestAction).
LEMMA FittingRequests ==
  ASSUME Requesting, NEW o \in CtrlOutcomes
  PROVE  Fitting(o.act) /\ o.act.op \notin DataOps /\ o.status \in Statuses
<1> DEFINE Fine(p) == Fitting(p.act) /\ p.act.op \notin DataOps /\ p.status \in Statuses
           r == ctrlQ
<1>0. /\ main # "SEARCH" /\ sub # "LOCAL_HIBERNATE" => pwr = "AWAKE"
      /\ ~IsConnected(main) => sub = "NULL"
  BY DEF Requesting, IInv, PowerInv, StateInv
<1>1. ASSUME NEW a, Fitting(a), a.op \notin DataOps
      PROVE  Fine(Perform(a))
  BY <1>1 DEF Perform, Statuses
<1>2. ASSUME r \in Callers, NEW s \in Statuses
      PROVE  Fine(Answer(r, s))
  BY <1>2, FittingActions DEF Answer, DataOps
<1>3. Fine(Perform(Nop))
  BY <1>1, FittingActions DEF DataOps
<1>4. Statuses = {"NONE", "SUCCESS", "INVSTAT", "CANCELLED", "ERROR", "TIMEOUT", "QOVR"}
  BY DEF Statuses
<1>5. ASSUME NEW f \in Frames, r \in Callers, pwr = "AWAKE", MaySend(f)
      PROVE  Fine(Perform(Send(f, r)))
  BY <1>1, <1>5, FittingActions DEF DataOps
<1>6. Frames = {"C_RLS", "C_REQ", "C_ACC", "ACK_FOR_C_ACC", "C_SLEEP", "C_WAKE"}
  BY DEF Frames
<1>7. ASSUME NEW op \in {"WAIT_CONNECT", "CANCEL_WAIT_CONNECT"}, r \in Callers, main = "SEARCH"
      PROVE  Fine(Perform(AwakeFirst(Action(op, "", r))))
  <2> DEFINE a == Action(op, "", r)
  <2>1. a.op = op /\ (pwr = "AWAKE" => Fitting(a))
    BY <1>7, FittingActions
  <2> HIDE DEF a
  <2>2. Fitting(AwakeFirst(a)) /\ AwakeFirst(a).op \notin DataOps
    BY <2>1, FittingAwake DEF DataOps, Requesting
  <2> QED
    BY <1>1, <2>2 DEF a
<1> HIDE DEF Fine
<1>8. ASSUME r \in Callers PROVE Fine(ConnectReq(r))
  <2>1. CASE main = "SEARCH"
    <3> DEFINE a == Order("CONNECT_REQ")
    <3>1. a.op = "HANDLE_UPPER_ORDER" /\ (pwr = "AWAKE" => Fitting(a))
      BY <2>1, FittingOrders
    <3> HIDE DEF a
    <3>2. Fitting(AwakeFirst(a)) /\ AwakeFirst(a).op \notin DataOps
      BY <3>1, FittingAwake DEF DataOps, Requesting
    <3> QED
      BY <1>1, <2>1, <3>2 DEF ConnectReq, a
  <2>2. CASE main = "CONNECTION_REQUEST"
    BY <1>0, <1>5, <1>6, <1>8, <2>2 DEF ConnectReq, IsConnected, MaySend
  <2>3. CASE main \notin {"SEARCH", "CONNECTION_REQUEST"}
    BY <1>2, <1>4, <1>8, <2>3 DEF ConnectReq
  <2> QED
    BY <2>1, <2>2, <2>3
<1>9. ASSUME r \in Callers PROVE Fine(WconnectReq(r))
  BY <1>2, <1>4, <1>7, <1>9 DEF WconnectReq
<1>10. ASSUME r \in Callers PROVE Fine(AcceptReq(r))
  <2>1. CASE main \in {"CONNECTION_REQUEST", "ACCEPT_WAITING"}
    <3>1. Order("ACCEPT_REQ").op = "HANDLE_UPPER_ORDER" /\ Fitting(Order("ACCEPT_REQ"))
      BY <1>0, <2>1, FittingOrders DEF IsConnected
    <3> QED
      BY <1>1, <2>1, <3>1 DEF AcceptReq, DataOps
  <2>2. CASE main = "RESPONDER_RESPONSE"
    BY <1>0, <1>5, <1>6, <1>10, <2>2 DEF AcceptReq, IsConnected, MaySend
  <2>3. CASE main \notin {"CONNECTION_REQUEST", "ACCEPT_WAITING", "RESPONDER_RESPONSE"}
    BY <1>2, <1>4, <1>10, <2>3 DEF AcceptReq
  <2> QED
    BY <2>1, <2>2, <2>3
<1>11. ASSUME r \in Callers PROVE Fine(AcceptRes(r))
  BY <1>0, <1>2, <1>4, <1>5, <1>6, <1>11 DEF AcceptRes, IsConnected, MaySend
<1>12. ASSUME r \in Callers PROVE Fine(ReleaseReq(r))
  <2>1. CASE \/ main \in {"CONNECTION_REQUEST", "ACCEPT_WAITING", "RESPONSE_WAITING"}
             \/ IsConnected(main) /\ sub = "CONNECTED"
    BY <1>0, <1>5, <1>6, <1>12, <2>1 DEF ReleaseReq, IsConnected, MaySend
  <2>2. CASE IsConnected(main) /\ sub # "CONNECTED"
    <3>1. ReleaseReq(r) = Perform(WakeLink)
      BY <2>2 DEF ReleaseReq, IsConnected
    <3> QED
      BY <1>1, <2>2, <3>1, FittingWakeLink DEF Requesting
  <2>3. CASE main = "SEARCH" /\ "waitConnect" \in flags
    BY <1>7, <1>12, <2>3 DEF ReleaseReq, IsConnected
  <2>4. CASE /\ main \notin {"CONNECTION_REQUEST", "ACCEPT_WAITING", "RESPONSE_WAITING"}
             /\ ~IsConnected(main)
             /\ ~(main = "SEARCH" /\ "waitConnect" \in flags)
    BY <1>2, <1>4, <1>12, <2>4 DEF ReleaseReq
  <2> QED
    BY <2>1, <2>2, <2>3, <2>4
<1>13. ASSUME r \in Callers, NEW same \in BOOLEAN PROVE Fine(PowersaveReq(r, same))
  <2>1. CASE ~IsConnected(main)
    BY <1>2, <1>4, <1>13, <2>1 DEF PowersaveReq
  <2>2. CASE IsConnected(main) /\ sub = "LOCAL_HIBERNATE"
    BY <1>2, <1>4, <1>13, <2>2 DEF PowersaveReq
  <2>3. CASE IsConnected(main) /\ sub # "LOCAL_HIBERNATE"
    <3>1. pwr = "AWAKE"
      BY <1>0, <2>3 DEF IsConnected
    <3>2. MaySend("C_SLEEP")
      BY <2>3 DEF MaySend, IsConnected, Requesting, IInv, TypeOK, DevTypeOK, SubStates, StateInv
    <3> QED
      BY <1>2, <1>4, <1>5, <1>6, <1>13, <2>3, <3>1, <3>2 DEF PowersaveReq
  <2> QED
    BY <2>1, <2>2, <2>3
<1>14. ASSUME r \in Callers, NEW same \in BOOLEAN PROVE Fine(CtrlRequest(r, same))
  <2>1. req[r].type \in RequestTypes \cup {"NONE"}
    BY <1>14 DEF Requesting, IInv, TypeOK, ReqTypeOK, RequestObject
  <2> QED
    BY <1>3, <1>8, <1>9, <1>10, <1>11, <1>12, <1>13, <1>14, <2>1 DEF CtrlRequest, RequestTypes
<1>15. r \in Callers \/ r = NoReq
  BY DEF Requesting, IInv, TypeOK, ReqTypeOK
<1>16. Fine(o)
  BY <1>3, <1>14, <1>15 DEF CtrlOutcomes
<1> QED
  BY <1>16 DEF Fine

\* What is made of received data, of data to send, and of having nothing to do.
LEMMA FittingIdle ==
  ASSUME Requesting
  PROVE  /\ Fitting(RxRequest) /\ RxRequest.op # "SEND_DATA"
         /\ RxRequest.op = "RECEIVE_DATA" => data.rx > 0
         /\ Fitting(TxRequest) /\ TxRequest.op # "RECEIVE_DATA"
         /\ Fitting(SleepReady) /\ SleepReady.op \notin DataOps
<1>0. /\ main # "SEARCH" /\ sub # "LOCAL_HIBERNATE" => pwr = "AWAKE"
      /\ ~IsConnected(main) <=> sub = "NULL"
  BY DEF Requesting, IInv, PowerInv, StateInv
<1>1. /\ Fitting(RxRequest) /\ RxRequest.op # "SEND_DATA"
      /\ RxRequest.op = "RECEIVE_DATA" => data.rx > 0
  <2> DEFINE a == Action("RECEIVE_DATA", "", NoReq)
  <2>1. a.op = "RECEIVE_DATA" /\ (pwr = "AWAKE" /\ main # "CLOSE" => Fitting(a))
    BY FittingActions
  <2>2. RxRequest = IF RxWanted THEN AwakeFirst(a) ELSE Nop
    BY DEF RxRequest
  <2>3. RxWanted => main # "CLOSE"
    BY DEF RxWanted, IsConnected
  <2> HIDE DEF a
  <2>4. RxWanted => /\ Fitting(AwakeFirst(a))
                    /\ AwakeFirst(a).op \in {"RECEIVE_DATA", "WAKE", "NOP"}
    BY <2>1, <2>3, FittingAwake DEF Requesting
  <2> QED
    BY <2>2, <2>4, FittingActions DEF RxWanted
<1>2. Fitting(TxRequest) /\ TxRequest.op # "RECEIVE_DATA"
  <2> DEFINE a == Action("SEND_DATA", "", NoReq)
  <2>1. CASE ~TxWanted
    BY <2>1, FittingActions DEF TxRequest
  <2>2. CASE TxWanted /\ sub # "CONNECTED"
    BY <2>2, FittingWakeLink DEF TxRequest, TxWanted, Requesting, DataOps
  <2>3. CASE TxWanted /\ sub = "CONNECTED"
    <3>1. a.op = "SEND_DATA" /\ a.arg = "" /\ a \in ActionObject
      BY DEF Action, ActionObject, ActionTypes, ActionArgs
    <3>2. pwr = "AWAKE" /\ IsConnected(main) /\ proc = "NOP"
      BY <1>0, <2>3 DEF TxWanted, IsConnected
    <3>3. TxRequest = a
      BY <2>3 DEF TxRequest
    <3> HIDE DEF a
    <3>4. Fits(a)
      BY <2>3, <3>1, <3>2 DEF Fits, CompFits, FrameFits, TimerFits, OrderFits, ChipFits, OpenFits, StateOps
    <3> QED
      BY <3>1, <3>3, <3>4 DEF Fitting
  <2> QED
    BY <2>1, <2>2, <2>3
<1>3. Fitting(SleepReady) /\ SleepReady.op \notin DataOps
  <2>1. CASE proc = "NOP" /\ sub = "TARGET_SLEEP"
    <3>1. IsConnected(main) /\ pwr = "AWAKE"
      BY <1>0, <2>1 DEF IsConnected
    <3>2. Fitting(Order("POWERSAVE_REQ")) /\ Order("POWERSAVE_REQ").op = "HANDLE_UPPER_ORDER"
      BY <2>1, <3>1, FittingOrders
    <3> QED
      BY <2>1, <3>1, <3>2 DEF SleepReady, DataOps, IsConnected
  <2>2. CASE proc = "NOP" /\ (sub = "LOCAL_HIBERNATE" \/ main = "SEARCH") /\ pwr = "AWAKE"
    <3> DEFINE a == Action("SLEEP", "", NoReq)
    <3>1. a.op = "SLEEP" /\ a.arg = "" /\ a \in ActionObject
      BY DEF Action, ActionObject, ActionTypes, ActionArgs
    <3>2. sub # "TARGET_SLEEP"
      BY <1>0, <2>2 DEF IsConnected
    <3>3. SleepReady = a
      BY <2>2, <3>2 DEF SleepReady
    <3> HIDE DEF a
    <3>4. Fits(a)
      BY <2>2, <3>1 DEF Fits, CompFits, FrameFits, TimerFits, OrderFits, ChipFits, OpenFits, StateOps
    <3> QED
      BY <3>1, <3>3, <3>4 DEF Fitting, DataOps
  <2>3. CASE /\ ~(proc = "NOP" /\ sub = "TARGET_SLEEP")
             /\ ~(proc = "NOP" /\ (sub = "LOCAL_HIBERNATE" \/ main = "SEARCH") /\ pwr = "AWAKE")
    <3>1. SleepReady = Nop
      BY <2>3 DEF SleepReady
    <3> QED
      BY <3>1, FittingActions DEF DataOps
  <2> QED
    BY <2>1, <2>2, <2>3
<1> QED
  BY <1>1, <1>2, <1>3

LEMMA RequestStep ==
  ASSUME IInv, CheckRequests
  PROVE  IInv'
<1>1. /\ Scheduling /\ Requesting
      /\ UNCHANGED <<main, sub, pwr, proc, flags, ev, irq, signaled, sem, view, gate, pmu, tx,
                     sta, bank, phy>>
  BY DEF CheckRequests, Scheduling, Requesting, devVars, evVars
<1>2. ev' \subseteq Events /\ flags' \subseteq Flags
  BY <1>1 DEF IInv, TypeOK, EventTypeOK, DevTypeOK
<1>3. PICK o \in CtrlOutcomes :
        LET a == FirstOf(o.act, FirstOf(RxRequest, FirstOf(TxRequest, SleepReady)))
        IN \/ /\ a # Nop /\ Take(a, o.status)
              /\ IF a.op = "SEND_DATA" THEN ReadReadyBuffer ELSE UNCHANGED <<data, en>>
              /\ UNCHANGED bounds
           \/ /\ \/ a.op = "SEND_DATA"
                 \/ o.act = Nop /\ IsConnected(main) /\ "rxReady" \in flags
              /\ Take(Err, "NONE")
              /\ DeviceFault
              /\ UNCHANGED <<data, en>>
           \/ /\ a = Nop
              /\ act' = Nop
              /\ pc' = IF ev = {} THEN "wait" ELSE "sched"
              /\ UNCHANGED <<queue, req, data, en, bounds>>
  BY Zenon DEF CheckRequests
<1> DEFINE a == FirstOf(o.act, FirstOf(RxRequest, FirstOf(TxRequest, SleepReady)))
<1>4. /\ Fitting(a) /\ o.status \in Statuses
      /\ a.op = "RECEIVE_DATA" => data.rx > 0
  BY <1>1, FittingRequests, FittingIdle DEF FirstOf, DataOps
<1> HIDE DEF a
<1>5. ASSUME NEW b, NEW s \in Statuses, Take(b, s), Fitting(b)
      PROVE  Scheduled /\ act' = b
  <2>1. /\ "COMP_SLEEP" \in ev' \cup {b.arg} <=> "COMP_SLEEP" \in ev
        /\ "COMP_SLEEP" \in ev' => b.arg # "COMP_SLEEP"
    BY <1>1, <1>5 DEF Fitting
  <2> QED
    BY <1>1, <1>2, <1>5, <2>1, TakesFitting DEF Fitting, Take
<1>6. /\ TxCsduNum \in Nat /\ bank \in Nat /\ bank <= TxCsduNum
      /\ data \in DataCounters /\ en \subseteq Sources
  BY BoundsAssumption DEF IInv, BankInv, TypeOK, DataTypeOK, ChipTypeOK
<1>7. CASE /\ a # Nop /\ Take(a, o.status)
           /\ IF a.op = "SEND_DATA" THEN ReadReadyBuffer ELSE UNCHANGED <<data, en>>
           /\ UNCHANGED bounds
  <2>1. Scheduled /\ act' = a
    BY <1>4, <1>5, <1>7
  <2>2. CASE a.op = "SEND_DATA"
    <3>1. data' = [data EXCEPT !.ready = TxCsduNum - bank] /\ en' \subseteq Sources
      BY <1>6, <1>7, <2>2 DEF ReadReadyBuffer, Sources, DataInts
    <3>2. TxCsduNum - bank \in Nat
      BY <1>6
    <3>3. data' \in DataCounters /\ data'.ready = TxCsduNum - bank
      BY <1>6, <3>1, <3>2, Zenon DEF DataCounters
    <3>4. data'.ready + bank' <= TxCsduNum
      BY <1>1, <1>6, <3>3
    <3> QED
      BY <1>1, <1>2, <1>6, <1>7, <2>1, <2>2, <3>1, <3>3, <3>4 DEF Scheduled, IInv, BankInv,
         TypeOK, DevTypeOK, DataTypeOK, EventTypeOK, ChipTypeOK, bounds
  <2>3. CASE a.op # "SEND_DATA"
    BY <1>1, <1>2, <1>4, <1>6, <1>7, <2>1, <2>3 DEF Scheduled, IInv, BankInv,
       TypeOK, DevTypeOK, DataTypeOK, EventTypeOK, ChipTypeOK, bounds
  <2> QED
    BY <2>2, <2>3
<1>8. CASE Take(Err, "NONE") /\ DeviceFault /\ UNCHANGED <<data, en>>
  <2>1. Scheduled /\ act' = Err
    BY <1>5, <1>8, FittingActions DEF Statuses
  <2>2. nFault' \in Nat /\ nTimeout' \in Nat /\ signaled' \in BOOLEAN
    BY <1>1, <1>8 DEF DeviceFault, IInv, TypeOK, EventTypeOK
  <2>3. act'.op \notin {"SEND_DATA", "RECEIVE_DATA"}
    BY <2>1, AlwaysFit
  <2> QED
    BY <1>1, <1>6, <1>8, <2>1, <2>2, <2>3, ScheduledStep DEF Untouched
<1>9. CASE /\ act' = Nop
           /\ pc' = IF ev = {} THEN "wait" ELSE "sched"
           /\ UNCHANGED <<queue, req, data, en, bounds>>
  <2>1. act = Nop
    BY DEF CheckRequests, IInv, TaskInv
  <2>2. ReqTypeOK' /\ TaskTypeOK'
    BY <1>1, <1>9, <2>1 DEF IInv, TypeOK, ReqTypeOK, TaskTypeOK, queue
  <2>3. TaskInv'
    BY <1>9 DEF TaskInv
  <2>4. StateInv' /\ PowerInv'
    BY <1>1, <1>9, <2>1 DEF Requesting, IInv, StateInv, PowerInv
  <2>5. Scheduled
    BY <1>2, <2>2, <2>3, <2>4 DEF Scheduled
  <2> QED
    BY <1>1, <1>6, <1>9, <2>5, ScheduledStep, FittingActions DEF Untouched, IInv, TypeOK,
       EventTypeOK, bounds
<1> QED
  BY <1>3, <1>7, <1>8, <1>9 DEF a

(****************************************************************************)
(* The actions.                                                             *)
(****************************************************************************)
\* An action ends.
LEMMA Ended ==
  ASSUME IInv, pc = "do", Done, UNCHANGED <<main, sub, view, irq>>,
         main # "SEARCH" /\ sub # "LOCAL_HIBERNATE" => pwr' = "AWAKE",
         pwr' = "AWAKE_TO_HIBERNATE" <=> "COMP_SLEEP" \in ev',
         bank' <= TxCsduNum
  PROVE  TaskInv' /\ StateInv' /\ PowerInv' /\ BankInv' /\ TaskTypeOK'
<1>1. pc' = "sched" /\ act' = Nop /\ Nop.arg = ""
  BY DEF Done, Nop, Action
<1>2. TaskInv' /\ StateInv' /\ BankInv'
  BY <1>1 DEF IInv, TaskInv, StateInv, BankInv
<1>3. PowerInv'
  BY <1>1 DEF IInv, PowerInv
<1>4. TaskTypeOK'
  BY <1>1, FittingActions DEF TaskTypeOK, Fitting
<1> QED
  BY <1>2, <1>3, <1>4

\* An action that changes neither the power state nor COMP_SLEEP ends.
LEMMA EndedAwake ==
  ASSUME IInv, pc = "do", Done, UNCHANGED <<main, sub, pwr, view, irq>>,
         act.arg # "COMP_SLEEP", "COMP_SLEEP" \in ev' <=> "COMP_SLEEP" \in ev,
         bank' <= TxCsduNum
  PROVE  TaskInv' /\ StateInv' /\ PowerInv' /\ BankInv' /\ TaskTypeOK'
<1>1. main # "SEARCH" /\ sub # "LOCAL_HIBERNATE" => pwr' = "AWAKE"
  BY DEF IInv, PowerInv
<1>2. pwr' = "AWAKE_TO_HIBERNATE" <=> "COMP_SLEEP" \in ev'
  BY DEF IInv, PowerInv
<1> QED
  BY <1>1, <1>2, Ended

\* An action fails and becomes HANDLE_ERROR.
LEMMA FailedInHand ==
  ASSUME IInv, pc = "do", Failed, UNCHANGED <<main, sub, pwr, view, irq>>,
         act.arg # "COMP_SLEEP", "COMP_SLEEP" \in ev' <=> "COMP_SLEEP" \in ev,
         bank' <= TxCsduNum
  PROVE  /\ TaskInv' /\ StateInv' /\ PowerInv' /\ BankInv' /\ TaskTypeOK'
         /\ nTimeout' \in Nat /\ nFault' \in Nat
<1>1. act \in ActionObject
  BY DEF IInv, TypeOK, TaskTypeOK
<1>2. /\ act' \in ActionObject /\ act'.op = "HANDLE_ERROR" /\ act'.arg = ""
      /\ pc' = "do"
  BY <1>1 DEF Failed, ActionObject, ActionTypes, ActionArgs
<1>3. Fits(act)'
  BY <1>2 DEF Fits, CompFits, FrameFits, TimerFits, OrderFits, ChipFits, OpenFits, StateOps
<1>4. TaskInv'
  BY <1>2, <1>3 DEF TaskInv
<1>5. StateInv' /\ BankInv'
  BY <1>2 DEF IInv, StateInv, BankInv
<1>6. PowerInv'
  BY <1>2 DEF IInv, PowerInv
<1>7. TaskTypeOK' /\ nTimeout' \in Nat /\ nFault' \in Nat
  BY <1>2 DEF TaskTypeOK, Failed, DeviceFault, IInv, TypeOK
<1> QED
  BY <1>4, <1>5, <1>6, <1>7

\* What an action finds (the parts of the invariant it needs most).
LEMMA InHand ==
  ASSUME IInv, pc = "do"
  PROVE  /\ Fits(act) /\ act.op # "SKIP_MNG_FRAME"
         /\ act.op \notin StateOps => act.arg # "COMP_SLEEP"
         /\ bank \in Nat /\ bank <= TxCsduNum
<1>1. Fits(act) /\ act.op # "SKIP_MNG_FRAME"
  BY DEF IInv, TaskInv
<1>2. ASSUME act.op \notin StateOps
      PROVE  act.arg # "COMP_SLEEP"
  <2>1. act.op = "SEND_MNG_FRAME" => act.arg \in Frames
    BY <1>1 DEF Fits, ChipFits, OpenFits
  <2>2. act.op # "SEND_MNG_FRAME" => act.arg = ""
    BY <1>1, <1>2 DEF Fits, ChipFits, OpenFits
  <2> QED
    BY <2>1, <2>2 DEF Frames
<1> QED
  BY <1>1, <1>2 DEF IInv, TypeOK, DataTypeOK, BankInv

\* The types of what an action may change, and of nothing else.
LEMMA TypesOf ==
  ASSUME IInv
  PROVE  /\ main \in MainStates /\ sub \in SubStates /\ flags \subseteq Flags
         /\ pwr \in {"AWAKE", "HIBERNATE"} \cup Transitional
         /\ ev \subseteq Events /\ irq \subseteq Events /\ signaled \in BOOLEAN
         /\ sem \in Nat /\ req \in [Callers -> RequestObject] /\ ctrlQ \in Callers \cup {NoReq}
         /\ ctrlCnt \in Byte
         /\ data \in DataCounters
         /\ en \subseteq Sources /\ sta \subseteq Sources /\ gate \in BOOLEAN
         /\ nTimeout \in Nat /\ nFault \in Nat
  BY DEF IInv, TypeOK, DevTypeOK, EventTypeOK, ReqTypeOK, DataTypeOK, ChipTypeOK

LEMMA InitActionStep ==
  ASSUME IInv, ActionInit \/ InitFails
  PROVE  IInv'
<1>1. /\ UNCHANGED <<main, sub, pwr, flags, evVars, reqVars, data, tx, sta, bank, view>>
      /\ Doing("INIT") /\ pc = "do" /\ proc' \in {proc, "INIT"}
      /\ en' \in {en, en \cup {"SLEEPTOAWAKE", "AWAKEPRIOD"}}
      /\ pmu' \in {pmu, "AWAKE"} /\ phy' \in {phy, "init"} /\ gate' \in BOOLEAN
  <2>1. CASE ActionInit
    BY <2>1, TypesOf DEF ActionInit, Doing
  <2>2. CASE InitFails
    BY <2>2, TypesOf DEF InitFails, Doing, devVars
  <2> QED
    BY <2>1, <2>2
<1>2. TaskInv' /\ StateInv' /\ PowerInv' /\ BankInv' /\ TaskTypeOK' /\ nTimeout' \in Nat /\ nFault' \in Nat
  <2>1. act.arg # "COMP_SLEEP" /\ bank' <= TxCsduNum
    BY <1>1, InHand DEF Doing, StateOps
  <2>2. CASE ActionInit
    BY <1>1, <2>1, <2>2, EndedAwake, TypesOf DEF ActionInit, Succeeded, evVars, bounds
  <2>3. CASE InitFails
    BY <1>1, <2>1, <2>3, FailedInHand DEF InitFails, evVars
  <2> QED
    BY <2>2, <2>3
<1>3. DevTypeOK' /\ ReqTypeOK' /\ DataTypeOK' /\ EventTypeOK' /\ ChipTypeOK'
  BY <1>1 DEF IInv, TypeOK, DevTypeOK, ReqTypeOK, DataTypeOK, EventTypeOK, ChipTypeOK, evVars,
              reqVars, queue, Sources, PhyInts
<1> QED
  BY <1>2, <1>3 DEF IInv, TypeOK

LEMMA WakeStep ==
  ASSUME IInv, ActionWake \/ WakeFails
  PROVE  IInv'
<1>1. /\ UNCHANGED <<main, sub, flags, evVars, reqVars, data, tx, bank, view>>
      /\ Doing("WAKE") /\ pc = "do"
      /\ en' \in {en, en \cup {"AWAKEPRIOD"}} /\ sta' \subseteq sta
      /\ pmu' \in {pmu, "AWAKE"} /\ phy' \in {phy, "wake"} /\ gate' \in BOOLEAN
  <2>1. CASE ActionWake
    BY <2>1 DEF ActionWake, Doing
  <2>2. CASE WakeFails
    BY <2>2, TypesOf DEF WakeFails, Doing, devVars
  <2> QED
    BY <2>1, <2>2
<1>2. pwr = "HIBERNATE" /\ act.arg # "COMP_SLEEP" /\ bank' <= TxCsduNum
  BY <1>1, InHand DEF Doing, StateOps, Fits, ChipFits, OpenFits
<1>3. /\ TaskInv' /\ StateInv' /\ PowerInv' /\ BankInv' /\ TaskTypeOK'
      /\ nTimeout' \in Nat /\ nFault' \in Nat
  <2>1. CASE ActionWake
    <3>1. pwr' = "HIBERNATE_TO_AWAKE" /\ Done /\ UNCHANGED bounds
      BY <2>1 DEF ActionWake, Succeeded
    <3>2. /\ ~(main # "SEARCH" /\ sub # "LOCAL_HIBERNATE")
          /\ "COMP_SLEEP" \notin ev'
      BY <1>1, <1>2 DEF IInv, PowerInv, evVars
    <3> QED
      BY <1>1, <1>2, <3>1, <3>2, Ended, TypesOf DEF evVars, bounds
  <2>2. CASE WakeFails
    BY <1>1, <1>2, <2>2, FailedInHand DEF WakeFails, evVars, devVars
  <2> QED
    BY <2>1, <2>2
<1>4. pwr' \in {pwr, "HIBERNATE_TO_AWAKE"} /\ proc' \in {proc, "WAKE"}
  BY DEF ActionWake, WakeFails, devVars
<1>5. DevTypeOK' /\ ReqTypeOK' /\ DataTypeOK' /\ EventTypeOK' /\ ChipTypeOK'
  BY <1>1, <1>4 DEF IInv, TypeOK, DevTypeOK, ReqTypeOK, DataTypeOK, EventTypeOK, ChipTypeOK, evVars,
              reqVars, queue, Sources, PhyInts, Transitional
<1> QED
  BY <1>3, <1>5 DEF IInv, TypeOK

LEMMA SleepStep ==
  ASSUME IInv, ActionSleep
  PROVE  IInv'
<1>1. /\ UNCHANGED <<main, sub, flags, irq, reqVars, data, en, gate, tx, sta, bank, phy, view>>
      /\ Doing("SLEEP") /\ pc = "do" /\ Done /\ UNCHANGED bounds
      /\ pmu' = "POWERSAVE" /\ ev' = ev \cup {"COMP_SLEEP"} /\ signaled' = TRUE
      /\ pwr' = "AWAKE_TO_HIBERNATE" /\ proc' = "SLEEP"
  BY DEF ActionSleep, Doing, Succeeded
<1>2. ~(main # "SEARCH" /\ sub # "LOCAL_HIBERNATE") /\ bank' <= TxCsduNum
  BY <1>1, InHand DEF Doing, Fits, ChipFits, OpenFits
<1>3. TaskInv' /\ StateInv' /\ PowerInv' /\ BankInv' /\ TaskTypeOK'
  BY <1>1, <1>2, Ended
<1>4. DevTypeOK' /\ ReqTypeOK' /\ DataTypeOK' /\ EventTypeOK' /\ ChipTypeOK'
  BY <1>1 DEF IInv, TypeOK, DevTypeOK, ReqTypeOK, DataTypeOK, EventTypeOK, ChipTypeOK,
              reqVars, queue, Transitional, Events, CompReqs
<1> QED
  BY <1>1, <1>3, <1>4, TypesOf DEF IInv, TypeOK, bounds

\* SLEEP and RECEIVE_DATA that fail leave everything as it was.
LEMMA FailsStep ==
  ASSUME IInv, ActionFails
  PROVE  IInv'
<1>1. /\ UNCHANGED <<devVars, evVars, reqVars, data, chipVars, view>>
      /\ act.op \in {"SLEEP", "RECEIVE_DATA"} /\ pc = "do" /\ Failed
  BY DEF ActionFails, Doing
<1>2. /\ TaskInv' /\ StateInv' /\ PowerInv' /\ BankInv' /\ TaskTypeOK'
      /\ nTimeout' \in Nat /\ nFault' \in Nat
  BY <1>1, InHand, FailedInHand DEF devVars, evVars, chipVars, StateOps
<1>3. DevTypeOK' /\ ReqTypeOK' /\ DataTypeOK' /\ EventTypeOK' /\ ChipTypeOK'
  BY <1>1 DEF IInv, TypeOK, DevTypeOK, ReqTypeOK, DataTypeOK, EventTypeOK, ChipTypeOK,
              reqVars, queue, devVars, evVars, chipVars
<1> QED
  BY <1>2, <1>3 DEF IInv, TypeOK

LEMMA SendFrameStep ==
  ASSUME IInv, ActionSendMngFrame \/ SendMngFrameFails
  PROVE  IInv'
<1>1. /\ UNCHANGED <<main, sub, pwr, irq, reqVars, data, gate, pmu, sta, bank, phy, view>>
      /\ Doing("SEND_MNG_FRAME") /\ pc = "do" /\ act.arg \in Frames
  <2>1. Doing("SEND_MNG_FRAME") /\ pc = "do" /\ act.op = "SEND_MNG_FRAME"
    BY DEF ActionSendMngFrame, SendMngFrameFails, Doing
  <2>2. act.arg \in Frames
    BY <2>1, InHand DEF Fits, ChipFits, OpenFits
  <2> QED
    BY <2>1, <2>2 DEF ActionSendMngFrame, SendMngFrameFails, devVars, evVars
<1>2. /\ FrameUnmask[act.arg] \subseteq Sources
      /\ FrameCompletion[act.arg] \subseteq Events /\ "COMP_SLEEP" \notin FrameCompletion[act.arg]
  BY <1>1 DEF FrameUnmask, FrameCompletion, Frames, Sources, MftxInts, TimInts, Events, CompReqs
<1>3. /\ en' \subseteq Sources /\ ev' \subseteq Events /\ signaled' \in BOOLEAN
      /\ tx' \in DOMAIN TxStatus \cup {"none"} /\ flags' \subseteq Flags
      /\ proc' \in {proc, "SEND_MNG_FRAME"}
      /\ "COMP_SLEEP" \in ev' <=> "COMP_SLEEP" \in ev
  <2>1. tx \in DOMAIN TxStatus \cup {"none"}
    BY DEF IInv, TypeOK, ChipTypeOK
  <2>2. CASE ActionSendMngFrame
    <3>1. en' \subseteq Sources /\ tx' \in DOMAIN TxStatus \cup {"none"}
      BY <1>2, <2>1, <2>2, TypesOf DEF ActionSendMngFrame
    <3>2. /\ ev' = ev \cup FrameCompletion[act.arg]
          /\ signaled' \in BOOLEAN /\ proc' = "SEND_MNG_FRAME"
      BY <2>2 DEF ActionSendMngFrame
    <3>3. flags' \subseteq Flags
      BY <2>2, TypesOf DEF ActionSendMngFrame, Flags
    <3> QED
      BY <1>2, <3>1, <3>2, <3>3, TypesOf
  <2>3. CASE SendMngFrameFails
    BY <2>1, <2>3, TypesOf DEF SendMngFrameFails, devVars, evVars
  <2> QED
    BY <2>2, <2>3
<1>4. /\ TaskInv' /\ StateInv' /\ PowerInv' /\ BankInv' /\ TaskTypeOK'
      /\ nTimeout' \in Nat /\ nFault' \in Nat
  <2>1. act.arg # "COMP_SLEEP" /\ bank' <= TxCsduNum
    BY <1>1, InHand DEF Frames
  <2>2. CASE ActionSendMngFrame
    BY <1>1, <1>3, <2>1, <2>2, EndedAwake, TypesOf DEF ActionSendMngFrame, Succeeded, bounds
  <2>3. CASE SendMngFrameFails
    BY <1>1, <1>3, <2>1, <2>3, FailedInHand DEF SendMngFrameFails
  <2> QED
    BY <2>2, <2>3
<1>5. DevTypeOK' /\ ReqTypeOK' /\ DataTypeOK' /\ EventTypeOK' /\ ChipTypeOK'
  BY <1>1, <1>3 DEF IInv, TypeOK, DevTypeOK, ReqTypeOK, DataTypeOK, EventTypeOK, ChipTypeOK,
              reqVars, queue
<1> QED
  BY <1>4, <1>5 DEF IInv, TypeOK

LEMMA ReceiveStep ==
  ASSUME IInv, ActionReceiveData
  PROVE  IInv'
<1>1. /\ UNCHANGED <<main, sub, pwr, proc, irq, reqVars, gate, pmu, tx, sta, bank, phy, view>>
      /\ Doing("RECEIVE_DATA") /\ pc = "do" /\ Done /\ UNCHANGED bounds
      /\ flags' \subseteq flags /\ data' = [data EXCEPT !.rx = @ - 1]
  BY DEF ActionReceiveData, Doing, Succeeded
<1>2. data.rx > 0 /\ act.arg # "COMP_SLEEP" /\ bank' <= TxCsduNum
  BY <1>1, InHand DEF Doing, StateOps, IInv, BankInv
<1>3. /\ ev' \subseteq Events /\ signaled' \in BOOLEAN /\ en' \subseteq Sources
      /\ "COMP_SLEEP" \in ev' <=> "COMP_SLEEP" \in ev
  BY TypesOf DEF ActionReceiveData, ReceiveDataIntUnmask, Events, DataEvents, Sources, DataInts
<1>4. data' \in DataCounters
  BY <1>1, <1>2, TypesOf DEF DataCounters
<1>5. TaskInv' /\ StateInv' /\ PowerInv' /\ BankInv' /\ TaskTypeOK'
  BY <1>1, <1>2, <1>3, EndedAwake
<1>6. DevTypeOK' /\ ReqTypeOK' /\ DataTypeOK' /\ EventTypeOK' /\ ChipTypeOK'
  BY <1>1, <1>3, <1>4 DEF IInv, TypeOK, DevTypeOK, ReqTypeOK, DataTypeOK, EventTypeOK, ChipTypeOK,
              reqVars, queue
<1> QED
  BY <1>1, <1>5, <1>6, TypesOf DEF IInv, TypeOK, bounds

\* Filling k banks, of those counted as free, keeps the counters in range
\* (CNL_sendData).
LEMMA CountersStay ==
  ASSUME IInv
  PROVE  /\ ToSend \in Nat /\ ToSend <= data.ready
         /\ \A k \in 0 .. ToSend : ExecSendReq(k) \in DataCounters
<1> DEFINE run == Least(Acked, data.txRun)
           new == Least(Acked - run, data.txNew)
           C   == CompSendReq
<1>1. /\ data \in DataCounters /\ data.txNew \in Nat /\ data.txRun \in Nat
      /\ data.sending \in Byte /\ data.ready \in Nat /\ TxCsduNum \in Nat
  BY TypesOf, BoundsAssumption DEF DataCounters
<1>2. Acked \in Nat
  BY <1>1 DEF Acked, Byte
<1>3. run \in Nat /\ run <= data.txRun /\ run <= Acked
  BY <1>1, <1>2 DEF Least
<1>4. new \in Nat /\ new <= data.txNew
  BY <1>1, <1>2, <1>3 DEF Least
<1>0. \A x \in Int : x % 256 \in Byte
  BY DEF Byte
<1>5. (data.sending - Acked) % 256 \in Byte
  <2>1. data.sending - Acked \in Int
    BY <1>1, <1>2 DEF Byte
  <2> QED
    BY <1>0, <2>1
<1>6. C = [data EXCEPT !.txNew = @ - new, !.txRun = @ - run, !.sending = (@ - Acked) % 256,
                       !.ready = 0]
  BY DEF CompSendReq
<1> HIDE DEF run, new, C
<1>7. /\ C \in DataCounters /\ C.txNew \in Nat /\ C.txRun \in Nat /\ C.sending \in Byte
      /\ C.ready = 0
  <2> DEFINE s == (data.sending - Acked) % 256
  <2>1. data.txNew - new \in Nat /\ data.txRun - run \in Nat /\ s \in Byte
    BY <1>1, <1>3, <1>4, <1>5
  <2>2. C = [data EXCEPT !.txNew = data.txNew - new, !.txRun = data.txRun - run,
                         !.sending = s, !.ready = 0]
    BY <1>6
  <2> HIDE DEF s
  <2> QED
    BY <1>1, <2>1, <2>2 DEF DataCounters
<1>8. ToSend \in Nat /\ ToSend <= data.ready /\ ToSend <= C.txNew
  BY <1>1, <1>7 DEF ToSend, Least, C
<1>9. ASSUME NEW k \in 0 .. ToSend
      PROVE  ExecSendReq(k) \in DataCounters
  <2> DEFINE s == (C.sending + k) % 256
  <2>1. C.sending + k \in Int /\ C.txNew - k \in Nat /\ C.txRun + k \in Nat
    BY <1>7, <1>8 DEF Byte
  <2>2. s \in Byte
    BY <1>0, <2>1
  <2>3. ExecSendReq(k) = [C EXCEPT !.txNew = C.txNew - k, !.txRun = C.txRun + k, !.sending = s]
    BY DEF ExecSendReq, C
  <2> HIDE DEF s
  <2> QED
    BY <1>7, <2>1, <2>2, <2>3 DEF DataCounters
<1> QED
  BY <1>8, <1>9

LEMMA SendDataStep ==
  ASSUME IInv, ActionSendData \/ SendDataFails
  PROVE  IInv'
<1>1. /\ UNCHANGED <<main, sub, pwr, proc, evVars, reqVars, gate, pmu, tx, sta, phy, view>>
      /\ Doing("SEND_DATA") /\ pc = "do" /\ flags' \subseteq flags
      /\ en' \in {en, en \cup {"TXDFRAME", "TXBANKEMPT"}}
  BY DEF ActionSendData, SendDataFails, Doing
<1>2. /\ act.arg # "COMP_SLEEP" /\ data.ready + bank <= TxCsduNum
      /\ bank \in Nat /\ data.ready \in Nat /\ TxCsduNum \in Nat
  BY <1>1, InHand, TypesOf, BoundsAssumption DEF Doing, StateOps, IInv, BankInv, DataCounters
<1>3. data' \in DataCounters /\ bank' \in Nat /\ bank' <= TxCsduNum
  <2>1. CASE ActionSendData
    <3>1. data' = ExecSendReq(ToSend) /\ bank' = bank + ToSend
      BY <2>1 DEF ActionSendData
    <3> QED
      BY <1>2, <3>1, CountersStay
  <2>2. CASE SendDataFails
    <3>1. PICK k \in 0 .. ToSend :
            /\ data' = ExecSendReq(k)
            /\ bank' \in {bank + k} \cup IF k < ToSend THEN {bank + k + 1} ELSE {}
      BY <2>2 DEF SendDataFails
    <3>2. data' \in DataCounters
      BY <3>1, CountersStay
    <3>3. bank' \in Nat /\ bank' <= bank + ToSend
      BY <1>2, <3>1, CountersStay
    <3> QED
      BY <1>2, <3>2, <3>3, CountersStay
  <2> QED
    BY <2>1, <2>2
<1>4. /\ TaskInv' /\ StateInv' /\ PowerInv' /\ BankInv' /\ TaskTypeOK'
      /\ nTimeout' \in Nat /\ nFault' \in Nat
  <2>1. CASE ActionSendData
    BY <1>1, <1>2, <1>3, <2>1, EndedAwake, TypesOf DEF ActionSendData, Succeeded, evVars, bounds
  <2>2. CASE SendDataFails
    BY <1>1, <1>2, <1>3, <2>2, FailedInHand DEF SendDataFails, evVars
  <2> QED
    BY <2>1, <2>2
<1>5. DevTypeOK' /\ ReqTypeOK' /\ DataTypeOK' /\ EventTypeOK' /\ ChipTypeOK'
  BY <1>1, <1>3 DEF IInv, TypeOK, DevTypeOK, ReqTypeOK, DataTypeOK, EventTypeOK, ChipTypeOK,
              reqVars, queue, evVars, Sources, DataInts
<1> QED
  BY <1>4, <1>5 DEF IInv, TypeOK

\* What a change of state leaves in the chip and in the events is of the right
\* type and adds or drops no COMP_SLEEP (IZAN_changeState).
LEMMA ChangeTypes ==
  ASSUME IInv, NEW n \in MainStates, NEW ns
  PROVE  /\ IntToEvent(Cleared(n, ns)) \subseteq Events
         /\ "COMP_SLEEP" \notin IntToEvent(Cleared(n, ns))
         /\ NewInten(main, n, ns, en) \subseteq Sources
<1>1. Cleared(n, ns) \in SUBSET Sources
  BY DEF Cleared, ClearInt
<1>2. NewInten(main, n, ns, en) \in SUBSET Sources
  BY NewIntenType, TypesOf
<1> QED
  BY <1>1, <1>2, IntEvents

LEMMA ChangeEventsTypes ==
  ASSUME IInv, NEW n \in MainStates, NEW ns, ChangeEvents(n, ns)
  PROVE  /\ ev' \subseteq Events /\ signaled' \in BOOLEAN
         /\ "COMP_SLEEP" \in ev' <=> "COMP_SLEEP" \in ev
<1>1. "TX_READY" \in Events
  BY DEF Events, DataEvents
<1> QED
  BY <1>1, ChangeTypes, TypesOf DEF ChangeEvents

LEMMA ChangeTransmissionTypes ==
  ASSUME IInv, NEW n \in MainStates, NEW ns, ChangeTransmission(n, ns)
  PROVE  /\ sta' \subseteq Sources /\ tx' \in DOMAIN TxStatus \cup {"none"}
         /\ bank' \in Nat /\ bank' <= TxCsduNum
<1>1. bank \in Nat /\ bank <= TxCsduNum /\ tx \in DOMAIN TxStatus \cup {"none"}
  BY DEF IInv, TypeOK, DataTypeOK, BankInv, ChipTypeOK
<1>2. bank' \in {0, bank} /\ tx' \in {tx, "none"} /\ sta' \subseteq sta
  BY DEF ChangeTransmission
<1> QED
  BY <1>1, <1>2, TypesOf, BoundsAssumption

LEMMA ChangeFailsTypes ==
  ASSUME IInv, NEW n \in MainStates, NEW ns, ChangeFails(n, ns)
  PROVE  /\ ev' \subseteq Events /\ UNCHANGED <<signaled, irq, gate, pmu, phy>>
         /\ "COMP_SLEEP" \in ev' <=> "COMP_SLEEP" \in ev
         /\ sta' \subseteq Sources /\ tx' \in DOMAIN TxStatus \cup {"none"} /\ en' \subseteq Sources
         /\ bank' \in Nat /\ bank' <= TxCsduNum
<1>1. bank \in Nat /\ bank <= TxCsduNum /\ tx \in DOMAIN TxStatus \cup {"none"}
  BY DEF IInv, TypeOK, DataTypeOK, BankInv, ChipTypeOK
<1>2. /\ bank' \in {0, bank} /\ tx' \in {tx, "none"} /\ sta' \subseteq sta
      /\ ev' \in {ev, ev \ IntToEvent(Cleared(n, ns))}
      /\ en' \in {en, {}, NewInten(main, n, ns, en)}
      /\ UNCHANGED <<signaled, irq, gate, pmu, phy>>
  BY DEF ChangeFails
<1> QED
  BY <1>1, <1>2, ChangeTypes, TypesOf, BoundsAssumption

LEMMA CloseStep ==
  ASSUME IInv, ActionClose \/ CloseFails
  PROVE  IInv'
<1>1. /\ UNCHANGED <<main, sub, pwr, flags, irq, reqVars, data, gate, pmu, view>>
      /\ Doing("CLOSE") /\ pc = "do"
      /\ phy' \in {phy, "close"} /\ proc' \in {proc, "CLOSE"}
  <2>1. CASE ActionClose
    BY <2>1 DEF ActionClose, Doing
  <2>2. CASE CloseFails
    BY <2>2 DEF CloseFails, ChangeFails, Doing, devVars
  <2> QED
    BY <2>1, <2>2
<1>2. "SEARCH" \in MainStates
  BY DEF MainStates
<1>3. /\ bank \in Nat /\ bank <= TxCsduNum /\ tx \in DOMAIN TxStatus \cup {"none"}
      /\ "AWAKETOSLEEP" \in Sources
  BY DEF IInv, TypeOK, DataTypeOK, BankInv, ChipTypeOK, Sources, PhyInts
<1>4. /\ ev' \subseteq Events /\ signaled' \in BOOLEAN
      /\ "COMP_SLEEP" \in ev' <=> "COMP_SLEEP" \in ev
      /\ sta' \subseteq Sources /\ tx' \in DOMAIN TxStatus \cup {"none"} /\ en' \subseteq Sources
      /\ bank' \in Nat /\ bank' <= TxCsduNum
  <2>1. CASE /\ ChangeEvents("SEARCH", "NULL") /\ ChangeTransmission("SEARCH", "NULL")
             /\ en' \in {NewInten(main, "SEARCH", "NULL", en),
                         NewInten(main, "SEARCH", "NULL", en) \cup {"AWAKETOSLEEP"}}
    <3>1. en' \subseteq Sources
      BY <1>2, <1>3, <2>1, ChangeTypes
    <3> QED
      BY <1>2, <2>1, <3>1, ChangeEventsTypes, ChangeTransmissionTypes
  <2>2. CASE /\ UNCHANGED <<ev, signaled, sta, tx, bank>>
             /\ en' \in {en, en \cup {"AWAKETOSLEEP"}}
    BY <1>3, <2>2, TypesOf
  <2>3. CASE ChangeFails("SEARCH", "NULL")
    BY <1>2, <2>3, ChangeFailsTypes, TypesOf
  <2>4. CASE ActionClose
    BY <2>1, <2>2, <2>4 DEF ActionClose
  <2>5. CASE CloseFails
    BY <2>1, <2>2, <2>3, <2>5 DEF CloseFails
  <2> QED
    BY <2>4, <2>5
<1>5. /\ TaskInv' /\ StateInv' /\ PowerInv' /\ BankInv' /\ TaskTypeOK'
      /\ nTimeout' \in Nat /\ nFault' \in Nat
  <2>1. act.arg # "COMP_SLEEP"
    BY <1>1, InHand DEF Doing, StateOps
  <2>2. CASE ActionClose
    BY <1>1, <1>4, <2>1, <2>2, EndedAwake, TypesOf DEF ActionClose, Succeeded, bounds
  <2>3. CASE CloseFails
    BY <1>1, <1>4, <2>1, <2>3, FailedInHand DEF CloseFails
  <2> QED
    BY <2>2, <2>3
<1>6. DevTypeOK' /\ ReqTypeOK' /\ DataTypeOK' /\ EventTypeOK' /\ ChipTypeOK'
  BY <1>1, <1>4 DEF IInv, TypeOK, DevTypeOK, ReqTypeOK, DataTypeOK, EventTypeOK, ChipTypeOK,
              reqVars, queue
<1> QED
  BY <1>5, <1>6 DEF IInv, TypeOK

\* WAIT_CONNECT and CANCEL_WAIT_CONNECT answer their request.
LEMMA WaitConnectStep ==
  ASSUME IInv, WaitConnect \/ CancelWaitConnect
  PROVE  IInv'
<1>1. /\ UNCHANGED <<main, sub, pwr, proc, evVars, data, gate, pmu, tx, bank, phy, view>>
      /\ pc = "do" /\ act.op \in {"WAIT_CONNECT", "CANCEL_WAIT_CONNECT"}
      /\ flags' \subseteq flags \cup {"waitConnect"}
      /\ en' \subseteq en \cup {"CREQRCV"} /\ sta' \subseteq sta
      /\ AnswerNow(act.req, "SUCCESS") \/ AnswerNow(act.req, "ERROR")
      /\ UNCHANGED bounds \/ DeviceFault
  BY DEF WaitConnect, CancelWaitConnect, Doing
<1>2. "waitConnect" \in Flags /\ "CREQRCV" \in Sources
  BY DEF Flags, Sources, RcvInts
<1>3. PICK s \in Statuses : AnswerNow(act.req, s)
  BY <1>1 DEF Statuses
<1>4. /\ act' = Complete(act.req) /\ pc' = "do" /\ sem' = sem
      /\ ctrlQ' = NoReq /\ ctrlCnt' \in Byte
      /\ req' = [req EXCEPT ![act.req].status = s]
  BY <1>1, <1>3, RemovesRequest DEF AnswerNow, IInv, TypeOK, ReqTypeOK
<1>5. /\ act' \in ActionObject /\ act'.op = "HANDLE_COMPLETE" /\ act'.arg = "COMP_NULL"
  BY <1>4 DEF IInv, TypeOK, TaskTypeOK, Complete, Action, ActionObject, ActionTypes, ActionArgs
<1>6. req' \in [Callers -> RequestObject]
  <2>1. req \in [Callers -> RequestObject]
    BY DEF IInv, TypeOK, ReqTypeOK
  <2>2. CASE act.req \in Callers
    BY <1>4, <2>1, <2>2, FieldsOfRequest
  <2>3. CASE act.req \notin Callers
    BY <1>4, <2>1, <2>3
  <2> QED
    BY <2>2, <2>3
<1>7. Fits(act)'
  BY <1>5 DEF Fits, CompFits, FrameFits, TimerFits, OrderFits, ChipFits, OpenFits, StateOps
<1>8. TaskInv'
  BY <1>4, <1>5, <1>7 DEF TaskInv
<1>9. StateInv' /\ BankInv'
  BY <1>1, <1>4, <1>5 DEF IInv, StateInv, BankInv
<1>10. PowerInv'
  BY <1>1, <1>5, InHand DEF IInv, PowerInv, evVars, StateOps
<1>11. DevTypeOK' /\ EventTypeOK' /\ ChipTypeOK' /\ DataTypeOK'
  BY <1>1, <1>2 DEF IInv, TypeOK, DevTypeOK, EventTypeOK, ChipTypeOK, DataTypeOK, evVars
<1>12. ReqTypeOK' /\ TaskTypeOK' /\ nTimeout' \in Nat /\ nFault' \in Nat
  BY <1>1, <1>4, <1>5, <1>6, TypesOf DEF ReqTypeOK, TaskTypeOK, bounds, DeviceFault
<1> QED
  BY <1>8, <1>9, <1>10, <1>11, <1>12 DEF IInv, TypeOK

LEMMA ErrorStep ==
  ASSUME IInv, HandleError
  PROVE  IInv'
<1> DEFINE own == IF act.req \in Callers
                  THEN IF req[act.req].state = "COMPLETED" THEN {act.req} ELSE {}
                  ELSE {}
           head == IF ctrlQ = NoReq THEN {} ELSE {ctrlQ}
<1>1. /\ UNCHANGED <<devVars, evVars, chipVars, view, bounds>>
      /\ Doing("HANDLE_ERROR") /\ pc = "do" /\ Done /\ ctrlQ' = NoReq /\ ctrlCnt' = 0
      /\ data' = [data EXCEPT !.txNew = 0, !.txRun = 0, !.rx = 0]
      /\ req' = [c \in Callers |-> IF c \in own \cup head
                                   THEN [req[c] EXCEPT !.status = "ERROR"] ELSE req[c]]
      /\ sem' = sem + (IF own = {} THEN 0 ELSE 1) + (IF head = {} THEN 0 ELSE 1)
  BY DEF HandleError, Doing, Succeeded
<1> HIDE DEF own, head
<1>2. req' \in [Callers -> RequestObject]
  BY <1>1, TypesOf DEF RequestObject, Statuses
<1>3. sem' \in Nat
  BY <1>1, TypesOf
<1>4. data' \in DataCounters
  BY <1>1, TypesOf DEF DataCounters
<1>5. TaskInv' /\ StateInv' /\ PowerInv' /\ BankInv' /\ TaskTypeOK'
  BY <1>1, InHand, EndedAwake DEF Doing, StateOps, devVars, evVars, chipVars
<1>6. DevTypeOK' /\ ReqTypeOK' /\ DataTypeOK' /\ EventTypeOK' /\ ChipTypeOK'
  BY <1>1, <1>2, <1>3, <1>4 DEF IInv, TypeOK, DevTypeOK, ReqTypeOK, DataTypeOK, EventTypeOK,
              ChipTypeOK, devVars, evVars, chipVars, Byte
<1> QED
  BY <1>1, <1>5, <1>6, TypesOf DEF IInv, TypeOK, bounds

(****************************************************************************)
(* The state machine.                                                       *)
(****************************************************************************)
\* A completion that changes no state: of a wake or a sleep of the chip, or the
\* answer to a request.
LEMMA FinishedStep ==
  ASSUME IInv, HandleFinished
  PROVE  IInv'
<1>1. /\ UNCHANGED <<main, sub, flags, evVars, queue, req, data, chipVars, bounds>>
      /\ Doing("HANDLE_COMPLETE") /\ pc = "do" /\ act.op = "HANDLE_COMPLETE"
      /\ act.arg \in {"COMP_NULL", "COMP_WAKE", "COMP_SLEEP"}
      /\ view' = ViewAfter(act) /\ Done
      /\ sem' \in {sem, sem + 1} /\ proc' \in {proc, "NOP"}
      /\ act.arg = "COMP_WAKE" => pwr' = "AWAKE"
      /\ act.arg = "COMP_SLEEP" => pwr' = "HIBERNATE"
      /\ act.arg = "COMP_NULL" => pwr' = pwr
  BY DEF HandleFinished, Doing, Finish, Finished
<1>2. view' = view
  BY <1>1 DEF ViewAfter
<1>3. Fits(act) /\ bank' <= TxCsduNum
  BY <1>1, InHand DEF chipVars
<1>4. /\ main # "SEARCH" /\ sub # "LOCAL_HIBERNATE" => pwr' = "AWAKE"
      /\ pwr' = "AWAKE_TO_HIBERNATE" <=> "COMP_SLEEP" \in ev'
  <2>1. CASE act.arg = "COMP_NULL"
    BY <1>1, <2>1 DEF IInv, PowerInv, evVars
  <2>2. CASE act.arg = "COMP_WAKE"
    <3>1. pwr # "AWAKE_TO_HIBERNATE"
      BY <1>1, <1>3, <2>2 DEF Fits, CompFits
    <3> QED
      BY <1>1, <2>2, <3>1 DEF IInv, PowerInv, evVars
  <2>3. CASE act.arg = "COMP_SLEEP"
    BY <1>1, <2>3 DEF IInv, PowerInv, evVars
  <2> QED
    BY <1>1, <2>1, <2>2, <2>3
<1>5. TaskInv' /\ StateInv' /\ PowerInv' /\ BankInv' /\ TaskTypeOK'
  BY <1>1, <1>2, <1>3, <1>4, Ended DEF evVars
<1>6. DevTypeOK' /\ ReqTypeOK' /\ DataTypeOK' /\ EventTypeOK' /\ ChipTypeOK'
  BY <1>1, <1>2 DEF IInv, TypeOK, DevTypeOK, ReqTypeOK, DataTypeOK, EventTypeOK, ChipTypeOK,
              evVars, chipVars, queue
<1> QED
  BY <1>1, <1>5, <1>6, TypesOf DEF IInv, TypeOK, bounds

\* What the handlers of completions, frames, timers and orders find.
StateAct(a) == a.op \in StateOps /\ Fits(a) /\ a.arg \notin Finished

ChangeArgs == (CompReqs \ {"COMP_PROBE_REQ", "COMP_WAKE", "COMP_SLEEP"}) \cup Timers \cup Frames
                \cup {"CONNECT_REQ", "ACCEPT_REQ", "WAKE_REQ", "POWERSAVE_REQ"}

LEMMA StateActFacts ==
  ASSUME NEW a, StateAct(a)
  PROVE  /\ pwr = "AWAKE" /\ a.arg \in ChangeArgs
         /\ a.arg \in CompReqs => CompValid(a.arg)
         /\ a.arg \in Frames => FrameValid(a.arg)
         /\ a.arg \in Timers => TimerValid(a.arg)
         /\ a.arg = "C_REQ" => main \in {"SEARCH", "CONNECTION_REQUEST"}
         /\ a.arg = "C_ACC" => main = "CONNECTION_REQUEST"
         /\ a.arg = "CONNECT_REQ" => main = "SEARCH"
         /\ a.arg = "ACCEPT_REQ" => main \in {"CONNECTION_REQUEST", "ACCEPT_WAITING"}
         /\ a.arg \in {"WAKE_REQ", "POWERSAVE_REQ"} => IsConnected(main)
<1>1. CASE a.op = "HANDLE_COMPLETE"
  <2>1. /\ a.arg \in CompReqs \ {"COMP_PROBE_REQ", "COMP_WAKE", "COMP_SLEEP"}
        /\ CompValid(a.arg) /\ pwr = "AWAKE"
    BY <1>1 DEF StateAct, Fits, CompFits, Finished
  <2> QED
    BY <2>1 DEF CompReqs, Frames, Timers, ChangeArgs
<1>2. CASE a.op = "HANDLE_MNG_FRAME"
  <2>1. /\ a.arg \in Frames /\ FrameValid(a.arg) /\ pwr = "AWAKE"
        /\ a.arg = "C_REQ" => main \in {"SEARCH", "CONNECTION_REQUEST"}
        /\ a.arg = "C_ACC" => main = "CONNECTION_REQUEST"
    BY <1>2 DEF StateAct, Fits, FrameFits
  <2> QED
    BY <2>1 DEF CompReqs, Frames, Timers, ChangeArgs
<1>3. CASE a.op = "HANDLE_TIMEOUT"
  <2>1. a.arg \in Timers /\ TimerValid(a.arg) /\ pwr = "AWAKE"
    BY <1>3 DEF StateAct, Fits, TimerFits
  <2> QED
    BY <2>1 DEF CompReqs, Frames, Timers, ChangeArgs
<1>4. CASE a.op = "HANDLE_UPPER_ORDER"
  <2>1. /\ pwr = "AWAKE"
        /\ \/ a.arg = "CONNECT_REQ" /\ main = "SEARCH"
           \/ a.arg = "ACCEPT_REQ" /\ main \in {"CONNECTION_REQUEST", "ACCEPT_WAITING"}
           \/ a.arg \in {"WAKE_REQ", "POWERSAVE_REQ"} /\ IsConnected(main)
    BY <1>4 DEF StateAct, Fits, OrderFits
  <2> QED
    BY <2>1 DEF CompReqs, Frames, Timers, ChangeArgs
<1> QED
  BY <1>1, <1>2, <1>3, <1>4 DEF StateAct, StateOps

\* Where a change of state leads to (HandleComplete, HandleMngFrame, HandleTimeout,
\* HandleUpperOrder), and that the upper layer is told of every link that comes.
LEMMA TargetFacts ==
  ASSUME NEW a, StateAct(a), main \in MainStates, sub \in SubStates,
         sub = "NULL" <=> ~IsConnected(main), view \in {"up", "down"},
         view = "up" <=> IsConnected(main)
  PROVE  \E m \in MainStates, s \in SubStates :
           /\ Target(a) = <<m, s>>
           /\ s = "NULL" <=> ~IsConnected(m)
           /\ m \in {"SEARCH", "CLOSE"} => \/ a.arg \in Downs
                                           \/ a.arg = "COMP_INIT" /\ view = "down"
           /\ m \notin {"SEARCH", "CLOSE"} => (ViewAfter(a) = "up" <=> IsConnected(m))
           /\ m = main /\ s = sub => m \notin {"SEARCH", "CLOSE"}
           /\ ViewAfter(a) \in {"up", "down"}
<1> DEFINE P(m, s) ==
             /\ Target(a) = <<m, s>>
             /\ s = "NULL" <=> ~IsConnected(m)
             /\ m \in {"SEARCH", "CLOSE"} => \/ a.arg \in Downs
                                             \/ a.arg = "COMP_INIT" /\ view = "down"
             /\ m \notin {"SEARCH", "CLOSE"} => (ViewAfter(a) = "up" <=> IsConnected(m))
             /\ m = main /\ s = sub => m \notin {"SEARCH", "CLOSE"}
             /\ ViewAfter(a) \in {"up", "down"}
<1>0. /\ \A m, s : m \in MainStates /\ s \in SubStates /\ P(m, s)
           => \E mm \in MainStates, ss \in SubStates : P(mm, ss)
  OBVIOUS
<1>1. "CONNECTED" \in SubStates /\ "NULL" \in SubStates /\ "TARGET_SLEEP" \in SubStates
      /\ "LOCAL_HIBERNATE" \in SubStates
  BY DEF SubStates
<1>2. CASE a.arg \in {"COMP_INIT", "COMP_RELEASE_REQ", "C_RLS", "T_CONNECT", "T_ACCEPT", "T_RETRY"}
  <2>1. P("SEARCH", "NULL")
    BY <1>2, StateActFacts DEF Target, ViewAfter, IsConnected, Downs, CompValid, FrameValid,
       TimerValid, CompReqs, Frames, Timers
  <2> QED
    BY <1>1, <2>1 DEF MainStates
<1>3. CASE a.arg = "COMP_CLOSE"
  <2>1. P("CLOSE", "NULL")
    BY <1>3, StateActFacts DEF Target, ViewAfter, IsConnected, Downs, CompValid, CompReqs
  <2> QED
    BY <1>1, <2>1 DEF MainStates
<1>4. CASE a.arg \in {"COMP_CONNECT_REQ", "CONNECT_REQ"}
  <2>1. P("CONNECTION_REQUEST", "NULL")
    BY <1>4, StateActFacts DEF Target, ViewAfter, IsConnected, CompValid, CompReqs
  <2> QED
    BY <1>1, <2>1 DEF MainStates
<1>5. CASE a.arg \in {"COMP_ACCEPT_REQ", "ACCEPT_REQ"}
  <2>1. P("RESPONDER_RESPONSE", "NULL")
    BY <1>5, StateActFacts DEF Target, ViewAfter, IsConnected, CompValid, CompReqs
  <2> QED
    BY <1>1, <2>1 DEF MainStates
<1>6. CASE a.arg = "COMP_ACCEPT_RES"
  <2>1. P("INITIATOR_CONNECTED", "CONNECTED")
    BY <1>6, StateActFacts DEF Target, ViewAfter, IsConnected, CompValid, CompReqs
  <2> QED
    BY <1>1, <2>1 DEF MainStates
<1>7. CASE a.arg = "ACK_FOR_C_ACC"
  <2>1. P("RESPONDER_CONNECTED", "CONNECTED")
    BY <1>7, StateActFacts DEF Target, ViewAfter, IsConnected, FrameValid, Frames
  <2> QED
    BY <1>1, <2>1 DEF MainStates
<1>8. CASE a.arg = "C_ACC"
  <2>1. P("RESPONSE_WAITING", "NULL")
    BY <1>8, StateActFacts DEF Target, ViewAfter, IsConnected, FrameValid, Frames
  <2> QED
    BY <1>1, <2>1 DEF MainStates
<1>9. CASE a.arg = "C_REQ"
  <2>1. CASE main = "SEARCH"
    <3>1. P("ACCEPT_WAITING", "NULL")
      BY <1>9, <2>1 DEF Target, ViewAfter, IsConnected
    <3> QED
      BY <1>1, <3>1 DEF MainStates
  <2>2. CASE main = "CONNECTION_REQUEST"
    <3>1. P(main, sub)
      BY <1>9, <2>2 DEF Target, ViewAfter, IsConnected
    <3> QED
      BY <3>1
  <2> QED
    BY <1>9, <2>1, <2>2, StateActFacts
<1>10. CASE a.arg \in {"COMP_SLEEP_REQ", "POWERSAVE_REQ"}
  <2>1. P(main, "LOCAL_HIBERNATE")
    BY <1>10, StateActFacts DEF Target, ViewAfter, IsConnected, CompValid, CompReqs
  <2> QED
    BY <1>1, <2>1
<1>11. CASE a.arg = "COMP_WAKE_REQ"
  <2>1. P(main, "CONNECTED")
    BY <1>11, StateActFacts DEF Target, ViewAfter, IsConnected, CompValid, CompReqs
  <2> QED
    BY <1>1, <2>1
<1>12. CASE a.arg \in {"T_RESEND", "WAKE_REQ"}
  <2>1. P(main, "TARGET_SLEEP")
    BY <1>12, StateActFacts DEF Target, ViewAfter, IsConnected, TimerValid, Timers
  <2> QED
    BY <1>1, <2>1
<1>13. CASE a.arg \in {"C_SLEEP", "C_WAKE"}
  <2>1. main = "RESPONDER_RESPONSE" \/ IsConnected(main)
    BY <1>13, StateActFacts DEF FrameValid, Frames
  <2>2. CASE main = "RESPONDER_RESPONSE"
    <3>1. P("RESPONDER_CONNECTED", IF a.arg = "C_SLEEP" THEN "TARGET_SLEEP" ELSE "CONNECTED")
      BY <1>13, <2>2 DEF Target, ViewAfter, IsConnected
    <3> QED
      BY <1>1, <3>1 DEF MainStates
  <2>3. CASE IsConnected(main) /\ a.arg = "C_SLEEP"
    <3>1. P(main, IF sub = "LOCAL_HIBERNATE" THEN sub ELSE "TARGET_SLEEP")
      BY <2>3 DEF Target, ViewAfter, IsConnected
    <3> QED
      BY <1>1, <3>1
  <2>4. CASE IsConnected(main) /\ a.arg = "C_WAKE"
    <3>1. P(main, "CONNECTED")
      BY <2>4 DEF Target, ViewAfter, IsConnected
    <3> QED
      BY <1>1, <3>1
  <2> QED
    BY <1>13, <2>1, <2>2, <2>3, <2>4
<1> QED
  <2>1. a.arg \in ChangeArgs
    BY StateActFacts
  <2> QED
    BY <1>2, <1>3, <1>4, <1>5, <1>6, <1>7, <1>8, <1>9, <1>10, <1>11, <1>12, <1>13, <2>1
       DEF ChangeArgs, CompReqs, Frames, Timers

\* What the theorem above says of the action in hand.
LEMMA TargetInHand ==
  ASSUME IInv, pc \in {"do", "commit"}, act.op \in StateOps, act.arg \notin Finished
  PROVE  /\ StateAct(act) /\ act.arg # "COMP_SLEEP"
         /\ \E m \in MainStates, s \in SubStates :
              /\ Target(act) = <<m, s>>
              /\ s = "NULL" <=> ~IsConnected(m)
              /\ m \in {"SEARCH", "CLOSE"} => \/ act.arg \in Downs
                                              \/ act.arg = "COMP_INIT" /\ view = "down"
              /\ m \notin {"SEARCH", "CLOSE"} => (ViewAfter(act) = "up" <=> IsConnected(m))
              /\ m = main /\ s = sub => m \notin {"SEARCH", "CLOSE"}
              /\ ViewAfter(act) \in {"up", "down"}
<1>1. StateAct(act) /\ act.arg # "COMP_SLEEP"
  BY DEF IInv, TaskInv, StateAct, Finished
<1>2. /\ main \in MainStates /\ sub \in SubStates /\ view \in {"up", "down"}
      /\ sub = "NULL" <=> ~IsConnected(main)
      /\ view = "up" <=> IsConnected(main)
  BY DEF IInv, TypeOK, DevTypeOK, StateInv
<1> QED
  BY <1>1, <1>2, TargetFacts

\* The chip is told of the new state, or there is none.
LEMMA StateChangeStep ==
  ASSUME IInv, HandleStateChange
  PROVE  IInv'
<1>1. /\ UNCHANGED <<main, sub, pwr, queue, req, data>>
      /\ pc = "do" /\ act.op \in StateOps /\ act.arg \notin Finished
      /\ proc' \in {proc, "NOP"} /\ flags' \subseteq flags
  BY DEF HandleStateChange, Doing
<1>2. StateAct(act) /\ act.arg # "COMP_SLEEP"
  BY <1>1, TargetInHand
<1>3. PICK m \in MainStates, s \in SubStates :
        /\ Target(act) = <<m, s>>
        /\ m \notin {"SEARCH", "CLOSE"} => (ViewAfter(act) = "up" <=> IsConnected(m))
        /\ m = main /\ s = sub => m \notin {"SEARCH", "CLOSE"}
        /\ ViewAfter(act) \in {"up", "down"}
  BY <1>1, TargetInHand
<1>4. Target(act)[1] = m /\ Target(act)[2] = s
  BY <1>3
<1>5. bank \in Nat /\ bank <= TxCsduNum
  BY <1>1, InHand
<1>6. CASE Target(act) = <<main, sub>> /\ Finish /\ UNCHANGED <<evVars, chipVars, bounds>>
  <2>1. m = main /\ s = sub
    BY <1>3, <1>6
  <2>2. /\ view' = ViewAfter(act) /\ Done /\ sem' \in {sem, sem + 1}
    BY <1>6 DEF Finish
  <2>3. view' = view
    <3>1. /\ view = "up" <=> IsConnected(main)
          /\ view' = "up" <=> IsConnected(main)
          /\ view \in {"up", "down"} /\ view' \in {"up", "down"}
      BY <1>1, <1>3, <2>1, <2>2 DEF IInv, StateInv, TypeOK, DevTypeOK
    <3> QED
      BY <3>1
  <2>4. TaskInv' /\ StateInv' /\ PowerInv' /\ BankInv' /\ TaskTypeOK'
    BY <1>1, <1>2, <1>5, <1>6, <2>2, <2>3, EndedAwake DEF evVars, chipVars
  <2>5. DevTypeOK' /\ ReqTypeOK' /\ DataTypeOK' /\ EventTypeOK' /\ ChipTypeOK'
    BY <1>1, <1>6, <2>2, <2>3 DEF IInv, TypeOK, DevTypeOK, ReqTypeOK, DataTypeOK, EventTypeOK,
       ChipTypeOK, evVars, chipVars, queue
  <2> QED
    BY <1>6, <2>4, <2>5, TypesOf DEF IInv, TypeOK, bounds
<1>7. CASE ChangeChip(m, s) /\ pc' = "commit" /\ UNCHANGED <<act, sem, view, bounds>>
  <2>1. /\ ChangeEvents(m, s) /\ ChangeTransmission(m, s)
        /\ en' = NewInten(main, m, s, en)
        /\ pmu' \in {pmu, "DEEP_SLEEP"} /\ phy' \in {phy, "none"} /\ UNCHANGED <<irq, gate>>
    BY <1>7 DEF ChangeChip
  <2>2. /\ ev' \subseteq Events /\ signaled' \in BOOLEAN
        /\ "COMP_SLEEP" \in ev' <=> "COMP_SLEEP" \in ev
        /\ sta' \subseteq Sources /\ tx' \in DOMAIN TxStatus \cup {"none"} /\ en' \subseteq Sources
        /\ bank' \in Nat /\ bank' <= TxCsduNum
    BY <2>1, ChangeTypes, ChangeEventsTypes, ChangeTransmissionTypes
  <2>3. Fits(act)'
    BY <1>1, <1>2, <1>7 DEF StateAct, Fits, CompFits, FrameFits, TimerFits, OrderFits, ChipFits, OpenFits,
       CompValid, FrameValid, TimerValid, StateOps
  <2>4. TaskInv'
    BY <1>1, <1>7, <2>3 DEF TaskInv, StateOps
  <2>5. StateInv' /\ BankInv'
    BY <1>1, <1>7, <2>2 DEF IInv, StateInv, BankInv
  <2>6. PowerInv'
    BY <1>1, <1>2, <1>7, <2>1, <2>2 DEF IInv, PowerInv
  <2>7. DevTypeOK' /\ EventTypeOK' /\ ChipTypeOK' /\ DataTypeOK'
    BY <1>1, <1>7, <2>1, <2>2 DEF IInv, TypeOK, DevTypeOK, DataTypeOK, EventTypeOK, ChipTypeOK
  <2>8. ReqTypeOK' /\ TaskTypeOK' /\ nTimeout' \in Nat /\ nFault' \in Nat
    BY <1>1, <1>7 DEF IInv, TypeOK, ReqTypeOK, TaskTypeOK, bounds, queue
  <2> QED
    BY <2>4, <2>5, <2>6, <2>7, <2>8 DEF IInv, TypeOK
<1>8. CASE ChangeFails(m, s) /\ Failed /\ UNCHANGED <<sem, view>>
  <2>1. /\ ev' \subseteq Events /\ UNCHANGED <<signaled, irq, gate, pmu, phy>>
        /\ "COMP_SLEEP" \in ev' <=> "COMP_SLEEP" \in ev
        /\ sta' \subseteq Sources /\ tx' \in DOMAIN TxStatus \cup {"none"} /\ en' \subseteq Sources
        /\ bank' \in Nat /\ bank' <= TxCsduNum
    BY <1>8, ChangeFailsTypes
  <2>2. /\ TaskInv' /\ StateInv' /\ PowerInv' /\ BankInv' /\ TaskTypeOK'
        /\ nTimeout' \in Nat /\ nFault' \in Nat
    BY <1>1, <1>2, <1>8, <2>1, FailedInHand
  <2>3. DevTypeOK' /\ ReqTypeOK' /\ DataTypeOK' /\ EventTypeOK' /\ ChipTypeOK'
    BY <1>1, <1>8, <2>1 DEF IInv, TypeOK, DevTypeOK, ReqTypeOK, DataTypeOK, EventTypeOK, ChipTypeOK,
       queue
  <2> QED
    BY <2>2, <2>3 DEF IInv, TypeOK
<1> QED
  BY <1>4, <1>6, <1>7, <1>8 DEF HandleStateChange

\* cnlState itself is written.
LEMMA CommitStep ==
  ASSUME IInv, CommitState
  PROVE  IInv'
<1>1. /\ UNCHANGED <<pwr, proc, flags, evVars, queue, req, data, chipVars, bounds>>
      /\ main' = Target(act)[1] /\ sub' = Target(act)[2]
      /\ pc = "commit" /\ act.op \in StateOps /\ act.arg \notin Finished
  BY DEF CommitState, IInv, TaskInv
<1>2. pwr = "AWAKE" /\ act.arg # "COMP_SLEEP"
  BY <1>1, TargetInHand, StateActFacts
<1>3. PICK m \in MainStates, s \in SubStates :
        /\ Target(act) = <<m, s>>
        /\ s = "NULL" <=> ~IsConnected(m)
        /\ m \in {"SEARCH", "CLOSE"} => \/ act.arg \in Downs
                                        \/ act.arg = "COMP_INIT" /\ view = "down"
        /\ m \notin {"SEARCH", "CLOSE"} => (ViewAfter(act) = "up" <=> IsConnected(m))
        /\ ViewAfter(act) \in {"up", "down"}
  BY <1>1, TargetInHand
<1>4. main' = m /\ sub' = s
  BY <1>1, <1>3
<1>5. "COMP_SLEEP" \notin ev /\ "COMP_SLEEP" \notin irq
  BY <1>2 DEF IInv, PowerInv
<1>6. bank' <= TxCsduNum
  BY <1>1 DEF IInv, BankInv, chipVars
<1>7. DataTypeOK' /\ EventTypeOK' /\ ChipTypeOK'
  BY <1>1 DEF IInv, TypeOK, DataTypeOK, EventTypeOK, ChipTypeOK, evVars, chipVars
<1>8. nTimeout' \in Nat /\ nFault' \in Nat
  BY <1>1, TypesOf DEF bounds
<1>9. CASE main' \in {"SEARCH", "CLOSE"}
  <2>1. pc' = "reset" /\ UNCHANGED <<act, sem, view>>
    BY <1>9 DEF CommitState
  <2>2. /\ act.arg \in Downs \/ (act.arg = "COMP_INIT" /\ view = "down")
        /\ act.op # "SKIP_MNG_FRAME"
    BY <1>1, <1>3, <1>4, <1>9 DEF StateOps
  <2>3. TaskInv'
    BY <2>1, <2>2 DEF TaskInv
  <2>4. StateInv'
    BY <1>1, <1>2, <1>3, <1>4, <1>9, <2>1 DEF StateInv
  <2>5. PowerInv' /\ BankInv'
    BY <1>1, <1>2, <1>5, <1>6, <2>1 DEF PowerInv, BankInv, evVars
  <2>6. DevTypeOK' /\ ReqTypeOK' /\ TaskTypeOK'
    BY <1>1, <1>4, <2>1 DEF IInv, TypeOK, DevTypeOK, ReqTypeOK, TaskTypeOK, queue
  <2> QED
    BY <1>7, <1>8, <2>3, <2>4, <2>5, <2>6 DEF IInv, TypeOK
<1>10. CASE main' \notin {"SEARCH", "CLOSE"}
  <2>1. /\ view' = ViewAfter(act) /\ sem' \in {sem, sem + 1}
        /\ pc' = "sched" /\ act' = Nop /\ Nop.arg = ""
    BY <1>10 DEF CommitState, Finish, Done, Nop, Action
  <2>2. TaskInv' /\ BankInv'
    BY <1>6, <2>1 DEF TaskInv, BankInv
  <2>3. StateInv'
    BY <1>3, <1>4, <1>10, <2>1 DEF StateInv
  <2>4. PowerInv'
    BY <1>1, <1>2, <1>5, <2>1 DEF PowerInv, evVars
  <2>5. DevTypeOK' /\ ReqTypeOK' /\ TaskTypeOK'
    <3>1. Nop \in ActionObject
      BY FittingActions DEF Fitting
    <3>2. sem' \in Nat
      <4>1. sem \in Nat /\ sem' \in {sem, sem + 1}
        BY <2>1, TypesOf
      <4> QED
        BY <4>1
    <3>3. DevTypeOK'
      BY <1>1, <1>3, <1>4, <2>1 DEF IInv, TypeOK, DevTypeOK
    <3> QED
      BY <1>1, <2>1, <3>1, <3>2, <3>3 DEF IInv, TypeOK, ReqTypeOK, TaskTypeOK, queue
  <2> QED
    BY <1>7, <1>8, <2>2, <2>3, <2>4, <2>5 DEF IInv, TypeOK
<1> QED
  BY <1>9, <1>10

\* The end of a link, or of the device, is reported (CNL_closeReset, CNL_releaseReset).
LEMMA ResetStep ==
  ASSUME IInv, ResetClosed \/ ResetReleased
  PROVE  IInv'
<1>1. /\ UNCHANGED <<main, sub, signaled, irq, chipVars, bounds>>
      /\ pc = "reset" /\ pwr' = "AWAKE" /\ flags' = {}
      /\ ev' \subseteq {"ERROR_OCCURRED", "TX_READY"}
      /\ proc' \in {proc, "NOP"} /\ data' = NoData
      /\ view' = ViewAfter(act) /\ pc' = "sched" /\ act' = Nop /\ Nop.arg = ""
  BY DEF ResetClosed, ResetReleased, Finish, Done, Nop, Action
<1>2. view' = "down"
  <2>1. act.arg \in Downs \/ (act.arg = "COMP_INIT" /\ view = "down")
    BY <1>1 DEF IInv, TaskInv
  <2> QED
    BY <1>1, <2>1 DEF ViewAfter, Downs
<1>3. /\ ctrlQ' \in Callers \cup {NoReq} /\ req' \in [Callers -> RequestObject]
      /\ sem' \in Nat /\ ctrlCnt' \in Byte
  <2>1. CASE ResetClosed
    BY <2>1, TypesOf DEF ResetClosed, Finish, queue
  <2>2. CASE ResetReleased
    <3>1. /\ ctrlQ' \in {ctrlQ, NoReq} /\ ctrlCnt' \in Byte
          /\ req' \in {req, [req EXCEPT ![ctrlQ].status = "INVSTAT"]}
      BY <2>2, TypesOf, RemovesRequest DEF ResetReleased, queue
    <3>2. [req EXCEPT ![ctrlQ].status = "INVSTAT"] \in [Callers -> RequestObject]
      BY TypesOf DEF RequestObject, Statuses
    <3>3. sem' \in {sem, sem + 1, sem + 2}
      BY <2>2, TypesOf DEF ResetReleased
    <3> QED
      BY <3>1, <3>2, <3>3, TypesOf
  <2> QED
    BY <2>1, <2>2
<1>4. data' \in DataCounters
  <2>1. /\ data' = [data EXCEPT !.txNew = 0, !.txRun = 0, !.sending = 0, !.rx = 0]
        /\ data \in DataCounters
    BY <1>1, TypesOf DEF NoData
  <2>2. 0 \in Nat /\ 0 \in Byte
    BY DEF Byte
  <2> QED
    BY <2>1, <2>2 DEF DataCounters
<1>5. TaskInv'
  BY <1>1 DEF TaskInv
<1>6. StateInv'
  BY <1>1, <1>2 DEF IInv, StateInv, IsConnected
<1>7. PowerInv' /\ BankInv'
  BY <1>1 DEF IInv, PowerInv, BankInv, chipVars
<1>8. DevTypeOK' /\ EventTypeOK'
  BY <1>1, <1>2 DEF IInv, TypeOK, DevTypeOK, EventTypeOK, Events, DataEvents
<1>9. ReqTypeOK' /\ ChipTypeOK' /\ DataTypeOK'
  BY <1>1, <1>3, <1>4 DEF IInv, TypeOK, ReqTypeOK, ChipTypeOK, DataTypeOK, chipVars
<1>10. TaskTypeOK' /\ nTimeout' \in Nat /\ nFault' \in Nat
  BY <1>1, FittingActions, TypesOf DEF TaskTypeOK, Fitting, bounds
<1> QED
  BY <1>5, <1>6, <1>7, <1>8, <1>9, <1>10 DEF IInv, TypeOK

(****************************************************************************)
(* The theorems.                                                            *)
(****************************************************************************)
LEMMA InitInv ==
  Init => IInv
<1> SUFFICES ASSUME Init
             PROVE  IInv
  OBVIOUS
<1> USE DEF Init
<1>1. /\ main = "CLOSE" /\ sub = "NULL" /\ pwr = "AWAKE" /\ proc = "NOP" /\ view = "down"
      /\ pc = "wait" /\ act = Nop /\ Nop.arg = "" /\ ev = {} /\ irq = {} /\ bank = 0
  BY DEF Nop, Action
<1>2. TaskInv /\ BankInv
  <2>1. TaskInv
    BY <1>1 DEF TaskInv
  <2>2. BankInv
    <3>1. 0 <= TxCsduNum
      BY BoundsAssumption
    <3>2. bank = 0 /\ pc = "wait"
      BY <1>1
    <3> QED
      BY <3>1, <3>2 DEF BankInv
  <2> QED
    BY <2>1, <2>2
<1>3. StateInv /\ PowerInv
  BY <1>1 DEF StateInv, PowerInv, IsConnected
<1>4. DevTypeOK /\ EventTypeOK /\ ChipTypeOK
  BY DEF DevTypeOK, EventTypeOK, ChipTypeOK, MainStates, SubStates
<1>5. ReqTypeOK /\ DataTypeOK
  BY DEF ReqTypeOK, DataTypeOK, DataCounters, RequestObject, Statuses, Byte
<1>6. TaskTypeOK
  BY <1>1, FittingActions DEF TaskTypeOK, Fitting
<1> QED
  BY <1>2, <1>3, <1>4, <1>5, <1>6 DEF IInv, TypeOK

LEMMA NextInv ==
  IInv /\ [Next]_vars => IInv'
<1> SUFFICES ASSUME IInv, [Next]_vars
             PROVE  IInv'
  OBVIOUS
<1>1. CASE \E c \in Callers : Caller(c)
  BY <1>1, CallerStep
<1>2. CASE DataCaller
  BY <1>2, DataCallerStep
<1>3. CASE Chip
  BY <1>3, ChipStep
<1>4. CASE Interrupt
  BY <1>4, InterruptStep
<1>5. CASE Schedule
  BY <1>5, WaitStep, InitCloseStep, EventStep, ReadStep, RequestStep DEF Schedule
<1>6. CASE Execute
  BY <1>6, InitActionStep, CloseStep, WakeStep, SleepStep, SendFrameStep, SendDataStep,
     ReceiveStep, FailsStep, WaitConnectStep, FinishedStep, StateChangeStep, CommitStep,
     ResetStep, ErrorStep DEF Execute
<1>7. CASE UNCHANGED vars
  <2>1. UNCHANGED <<main, sub, pwr, proc, flags, ev, signaled, irq, ctrlQ, ctrlCnt, req, sem, data, pc,
                    act, en, gate, pmu, tx, sta, bank, phy, view, nTimeout, nFault>>
    BY <1>7 DEF vars, devVars, evVars, reqVars, queue, taskVars, chipVars, bounds
  <2>2. TaskInv' /\ StateInv' /\ PowerInv'
    BY <2>1, TaskUndisturbed DEF IInv, PowerInv, devVars, taskVars
  <2>3. TypeOK' /\ BankInv'
    BY <2>1 DEF IInv, TypeOK, BankInv, DevTypeOK, ReqTypeOK, DataTypeOK, TaskTypeOK, EventTypeOK,
       ChipTypeOK
  <2> QED
    BY <2>2, <2>3 DEF IInv
<1> QED
  BY <1>1, <1>2, <1>3, <1>4, <1>5, <1>6, <1>7 DEF Next, Task

\* The inductive invariant holds of every behaviour of the core.
THEOREM Inductive == Spec => []IInv
  BY InitInv, NextInv, PTL DEF Spec

\* Every variable keeps its type: no state change, no failure of the chip and no
\* count of banks leads out of the states the code has names for.
THEOREM Types == Spec => []TypeOK
<1>1. IInv => TypeOK
  BY DEF IInv
<1> QED
  BY <1>1, Inductive, PTL

\* Whenever the CNL task has nothing in hand, the upper layer has been told of the
\* link the device has: no connection set-up, release, timeout or reset goes
\* unreported, whatever the peer, the callers and failing operations do
\* (cnl_sm.c).
THEOREM LinkReported == Spec => []ViewMatchesLink
<1>1. IInv => ViewMatchesLink
  BY DEF IInv, StateInv, ViewMatchesLink
<1> QED
  BY <1>1, Inductive, PTL

\* Data goes out only over an awake link with no management frame under way,
\* although the locks are given up between the decision and the sending
\* (CNL_getSendRequestAction, actionSendData).
THEOREM SendsOverAwakeLink == Spec => []SendsOnlyWhenConnected
<1>1. IInv => SendsOnlyWhenConnected
  BY DEF IInv, TaskInv, Fits, ChipFits, OpenFits, SendsOnlyWhenConnected
<1> QED
  BY <1>1, Inductive, PTL

(****************************************************************************)
(* The core implements LinkService.  Only where cnlState is written and     *)
(* where the end of a link is reported does a step mean anything to it.     *)
(****************************************************************************)
LEMMA PhasesOf ==
  /\ Phase["CLOSE"] = "closed" /\ Phase["SEARCH"] = "idle"
  /\ Phase["CONNECTION_REQUEST"] = "outgoing" /\ Phase["ACCEPT_WAITING"] = "incoming"
  /\ Phase["RESPONSE_WAITING"] = "answering" /\ Phase["RESPONDER_RESPONSE"] = "accepting"
  /\ Phase["INITIATOR_CONNECTED"] = "up" /\ Phase["RESPONDER_CONNECTED"] = "up"
  /\ DozeOf["NULL"] = "none" /\ DozeOf["CONNECTED"] = "active"
  /\ DozeOf["TARGET_SLEEP"] = "peer" /\ DozeOf["LOCAL_HIBERNATE"] = "local"
BY DEF Phase, DozeOf

LEMMA QuietStep ==
  ASSUME IInv, [Next]_vars, ~CommitState, ~ResetClosed, ~ResetReleased
  PROVE  UNCHANGED <<main, sub, view>>
<1>1. CASE \E c \in Callers : Caller(c)
  BY <1>1 DEF Caller, CheckRequest, AddRequest, Return, CmdTimeout, devVars
<1>2. CASE DataCaller \/ Chip \/ Interrupt
  BY <1>2 DEF DataCaller, CheckSend, AddSend, CheckReceive, AddReceive, Chip, FrameSent, DataAcked, PhyDone,
              Interrupt, IrqMask, IrqAddEvent, devVars
<1>3. CASE Schedule
  BY <1>3 DEF Schedule, TaskWait, CheckInitClose, CheckEvent, ReadMngBody, CheckRequests, devVars
<1>4. CASE \/ ActionInit \/ ActionClose \/ ActionWake \/ ActionSleep
           \/ ActionSendMngFrame \/ ActionSendData \/ ActionReceiveData
  BY <1>4 DEF ActionInit, ActionClose, ActionWake, ActionSleep, ActionSendMngFrame,
              ActionSendData, ActionReceiveData
<1>5. CASE \/ ActionFails \/ InitFails \/ CloseFails \/ WakeFails
           \/ SendMngFrameFails \/ SendDataFails
  BY <1>5 DEF ActionFails, InitFails, CloseFails, WakeFails, SendMngFrameFails, SendDataFails,
              devVars
<1>6. CASE WaitConnect \/ CancelWaitConnect \/ HandleError
  BY <1>6 DEF WaitConnect, CancelWaitConnect, HandleError, devVars
<1>7. CASE HandleFinished
  BY <1>7 DEF HandleFinished, Finish, ViewAfter, Finished
<1>8. CASE HandleStateChange
  <2>1. /\ UNCHANGED <<main, sub>>
        /\ pc = "do" /\ act.op \in StateOps /\ act.arg \notin Finished
        /\ UNCHANGED view \/ (Target(act) = <<main, sub>> /\ view' = ViewAfter(act))
    BY <1>8 DEF HandleStateChange, Doing, Finish
  <2>2. CASE Target(act) = <<main, sub>> /\ view' = ViewAfter(act)
    <3>1. PICK m \in MainStates, s \in SubStates :
            /\ Target(act) = <<m, s>>
            /\ m \notin {"SEARCH", "CLOSE"} => (ViewAfter(act) = "up" <=> IsConnected(m))
            /\ m = main /\ s = sub => m \notin {"SEARCH", "CLOSE"}
            /\ ViewAfter(act) \in {"up", "down"}
      BY <2>1, TargetInHand
    <3>2. m = main /\ s = sub
      BY <2>2, <3>1
    <3>3. view \in {"up", "down"} /\ (view = "up" <=> IsConnected(main))
      BY <2>1 DEF IInv, TypeOK, DevTypeOK, StateInv
    <3>4. ViewAfter(act) = "up" <=> IsConnected(main)
      BY <3>1, <3>2
    <3>5. view' = view
      BY <2>2, <3>1, <3>3, <3>4
    <3> QED
      BY <2>1, <3>5
  <2> QED
    BY <2>1, <2>2
<1>9. CASE UNCHANGED vars
  BY <1>9 DEF vars, devVars
<1> QED
  BY <1>1, <1>2, <1>3, <1>4, <1>5, <1>6, <1>7, <1>8, <1>9 DEF Next, Task, Execute

\* The report of the end of a link.
LEMMA ResetIsReport ==
  ASSUME IInv, ResetClosed \/ ResetReleased
  PROVE  Link!Report \/ UNCHANGED Link!linkVars
<1>1. /\ UNCHANGED <<main, sub>> /\ main \in {"SEARCH", "CLOSE"} /\ pc = "reset"
      /\ view' = ViewAfter(act)
  BY DEF ResetClosed, ResetReleased, Finish
<1>2. view' = "down"
  <2>1. act.arg \in Downs \/ (act.arg = "COMP_INIT" /\ view = "down")
    BY <1>1 DEF IInv, TaskInv
  <2> QED
    BY <1>1, <2>1 DEF ViewAfter, Downs
<1>3. view \in {"up", "down"}
  BY DEF IInv, TypeOK, DevTypeOK
<1>4. Phase[main] \in {"closed", "idle"}
  BY <1>1, PhasesOf
<1> QED
  BY <1>1, <1>2, <1>3, <1>4 DEF Link!Report, Link!linkVars

\* Every change of cnlState is one the service knows.
LEMMA CommitIsLinkStep ==
  ASSUME IInv, CommitState
  PROVE  [Link!LinkNext]_(Link!linkVars)
<1>1. /\ main' = Target(act)[1] /\ sub' = Target(act)[2]
      /\ pc = "commit" /\ act.op \in StateOps /\ act.arg \notin Finished
      /\ IF main' \in {"SEARCH", "CLOSE"} THEN view' = view ELSE view' = ViewAfter(act)
  BY DEF CommitState, Finish, IInv, TaskInv
<1>2. /\ main \in MainStates /\ sub \in SubStates /\ view \in {"up", "down"}
      /\ sub = "NULL" <=> ~IsConnected(main)
      /\ view = "up" <=> IsConnected(main)
  BY <1>1 DEF IInv, TypeOK, DevTypeOK, StateInv
<1>3. /\ act.arg \in ChangeArgs
      /\ act.arg \in CompReqs => CompValid(act.arg)
      /\ act.arg \in Frames => FrameValid(act.arg)
      /\ act.arg \in Timers => TimerValid(act.arg)
      /\ act.arg = "C_REQ" => main \in {"SEARCH", "CONNECTION_REQUEST"}
      /\ act.arg = "C_ACC" => main = "CONNECTION_REQUEST"
      /\ act.arg = "CONNECT_REQ" => main = "SEARCH"
      /\ act.arg = "ACCEPT_REQ" => main \in {"CONNECTION_REQUEST", "ACCEPT_WAITING"}
      /\ act.arg \in {"WAKE_REQ", "POWERSAVE_REQ"} => IsConnected(main)
  <2>1. StateAct(act)
    BY <1>1, TargetInHand
  <2> QED
    BY <2>1, StateActFacts
<1>4. CASE act.arg = "COMP_INIT"
  <2>1. main = "CLOSE" /\ main' = "SEARCH" /\ sub = "NULL" /\ sub' = "NULL" /\ view = "down" /\ view' = view
    BY <1>1, <1>2, <1>3, <1>4 DEF Target, CompValid, CompReqs, IsConnected
  <2>2. Link!Open
    BY <2>1, PhasesOf DEF Link!Open, Link!Move
  <2> QED
    BY <2>2 DEF Link!LinkNext
<1>5. CASE act.arg \in {"COMP_RELEASE_REQ", "C_RLS", "T_CONNECT", "T_ACCEPT", "T_RETRY"}
  <2>1. main \notin {"CLOSE", "SEARCH"} /\ main' = "SEARCH" /\ sub' = "NULL" /\ view' = view
    BY <1>1, <1>3, <1>5 DEF Target, CompValid, FrameValid, TimerValid, CompReqs, Frames, Timers,
       IsConnected
  <2>2. Phase[main] \in Link!SettingUp \cup {"up"}
    BY <1>2, <2>1, PhasesOf DEF MainStates, Link!SettingUp
  <2>3. Link!Drop
    BY <2>1, <2>2, PhasesOf DEF Link!Drop
  <2> QED
    BY <2>3 DEF Link!LinkNext
<1>6. CASE act.arg = "COMP_CLOSE"
  <2>1. main # "CLOSE" /\ main' = "CLOSE" /\ sub' = "NULL" /\ view' = view
    BY <1>1, <1>3, <1>6 DEF Target, CompValid, CompReqs
  <2>2. Phase[main] # "closed"
    BY <1>2, <2>1, PhasesOf DEF MainStates
  <2>3. Link!Close
    BY <2>1, <2>2, PhasesOf DEF Link!Close
  <2> QED
    BY <2>3 DEF Link!LinkNext
<1>7. CASE act.arg \in {"COMP_CONNECT_REQ", "CONNECT_REQ"}
  <2>1. /\ main' = "CONNECTION_REQUEST" /\ sub' = "NULL" /\ view' = view
        /\ main \in {"SEARCH", "CONNECTION_REQUEST"} /\ sub = "NULL" /\ view = "down"
    BY <1>1, <1>2, <1>3, <1>7 DEF Target, ViewAfter, CompValid, CompReqs, IsConnected
  <2>2. CASE main = "SEARCH"
    <3>1. Link!Dial
      BY <2>1, <2>2, PhasesOf DEF Link!Dial, Link!Move
    <3> QED
      BY <3>1 DEF Link!LinkNext
  <2>3. CASE main = "CONNECTION_REQUEST"
    BY <2>1, <2>3 DEF Link!linkVars
  <2> QED
    BY <2>1, <2>2, <2>3
<1>8. CASE act.arg \in {"COMP_ACCEPT_REQ", "ACCEPT_REQ"}
  <2>1. /\ main' = "RESPONDER_RESPONSE" /\ sub' = "NULL" /\ view' = view
        /\ main \in {"RESPONDER_RESPONSE", "CONNECTION_REQUEST", "ACCEPT_WAITING"} /\ sub = "NULL"
    BY <1>1, <1>2, <1>3, <1>8 DEF Target, ViewAfter, CompValid, CompReqs, IsConnected
  <2>2. CASE main # "RESPONDER_RESPONSE"
    <3>1. Link!Accept
      BY <2>1, <2>2, PhasesOf DEF Link!Accept, Link!Move
    <3> QED
      BY <3>1 DEF Link!LinkNext
  <2>3. CASE main = "RESPONDER_RESPONSE"
    BY <2>1, <2>3 DEF Link!linkVars
  <2> QED
    BY <2>2, <2>3
<1>9. CASE act.arg \in {"COMP_ACCEPT_RES", "ACK_FOR_C_ACC"}
  <2>1. /\ main' \in {"INITIATOR_CONNECTED", "RESPONDER_CONNECTED"} /\ sub' = "CONNECTED"
        /\ main \in {"RESPONSE_WAITING", "RESPONDER_RESPONSE"}
        /\ view = "down" /\ view' = "up"
    BY <1>1, <1>2, <1>3, <1>9 DEF Target, ViewAfter, CompValid, FrameValid, CompReqs, Frames,
       IsConnected
  <2>2. Link!Establish
    BY <2>1, PhasesOf DEF Link!Establish
  <2> QED
    BY <2>2 DEF Link!LinkNext
<1>10. CASE act.arg = "C_ACC"
  <2>1. /\ main' = "RESPONSE_WAITING" /\ sub' = "NULL" /\ view' = view
        /\ main = "CONNECTION_REQUEST" /\ sub = "NULL"
    BY <1>1, <1>2, <1>3, <1>10 DEF Target, ViewAfter, IsConnected
  <2>2. Link!Answer
    BY <2>1, PhasesOf DEF Link!Answer, Link!Move
  <2> QED
    BY <2>2 DEF Link!LinkNext
<1>11. CASE act.arg = "C_REQ"
  <2>1. CASE main = "SEARCH"
    <3>1. main' = "ACCEPT_WAITING" /\ sub' = "NULL" /\ view' = view /\ sub = "NULL" /\ view = "down"
      BY <1>1, <1>2, <1>11, <2>1 DEF Target, ViewAfter, IsConnected
    <3>2. Link!Called
      BY <2>1, <3>1, PhasesOf DEF Link!Called, Link!Move
    <3> QED
      BY <3>2 DEF Link!LinkNext
  <2>2. CASE main = "CONNECTION_REQUEST"
    <3>1. main' = main /\ sub' = sub /\ view' = view
      BY <1>1, <1>11, <2>2 DEF Target, ViewAfter
    <3> QED
      BY <3>1 DEF Link!linkVars
  <2> QED
    BY <1>3, <1>11, <2>1, <2>2
<1>12. ASSUME IsConnected(main), main' = main, view' = view, sub' \in SubStates \ {"NULL"}
       PROVE  Link!Doze
  <2>1. Phase[main] = "up" /\ DozeOf[sub'] \in {"active", "peer", "local"}
    BY <1>12, PhasesOf DEF IsConnected, SubStates
  <2> QED
    BY <1>12, <2>1 DEF Link!Doze
<1>13. CASE /\ act.arg \in {"COMP_SLEEP_REQ", "POWERSAVE_REQ", "COMP_WAKE_REQ", "T_RESEND", "WAKE_REQ"}
  <2>1. IsConnected(main)
    BY <1>3, <1>13 DEF CompValid, TimerValid, CompReqs, Timers
  <2>2. main' = main /\ sub' \in SubStates \ {"NULL"}
    BY <1>1, <1>13 DEF Target, SubStates
  <2>3. view' = view
    BY <1>1, <1>13, <2>1, <2>2 DEF ViewAfter, IsConnected
  <2> QED
    BY <1>12, <2>1, <2>2, <2>3 DEF Link!LinkNext
<1>14. CASE act.arg \in {"C_SLEEP", "C_WAKE"}
  <2>1. CASE main = "RESPONDER_RESPONSE"
    <3>1. /\ main' = "RESPONDER_CONNECTED" /\ sub' \in {"CONNECTED", "TARGET_SLEEP"}
          /\ view = "down" /\ view' = "up"
      BY <1>1, <1>2, <1>14, <2>1 DEF Target, ViewAfter, IsConnected
    <3>2. Link!Establish
      BY <2>1, <3>1, PhasesOf DEF Link!Establish
    <3> QED
      BY <3>2 DEF Link!LinkNext
  <2>2. CASE main # "RESPONDER_RESPONSE"
    <3>1. IsConnected(main) /\ sub # "NULL"
      BY <1>2, <1>3, <1>14, <2>2 DEF FrameValid, Frames
    <3>2. main' = main /\ sub' \in SubStates \ {"NULL"}
      BY <1>1, <1>2, <1>14, <2>2, <3>1 DEF Target, SubStates
    <3>3. view' = view
      BY <1>1, <1>14, <2>2, <3>1, <3>2 DEF ViewAfter, IsConnected
    <3> QED
      BY <1>12, <3>1, <3>2, <3>3 DEF Link!LinkNext
  <2> QED
    BY <2>1, <2>2
<1> QED
  BY <1>3, <1>4, <1>5, <1>6, <1>7, <1>8, <1>9, <1>10, <1>11, <1>13, <1>14
     DEF ChangeArgs, CompReqs, Timers, Frames

\* The core implements what it promises of a link: the order of set-up, use and
\* tear-down that LinkService allows, with a link reported as down before the
\* device is used for another one (cnl_sm.c).
THEOREM ImplementsLink == Spec => LinkRefined
<1>1. Init => Link!LinkInit
  BY PhasesOf DEF Init, Link!LinkInit
<1>2. IInv /\ [Next]_vars => [Link!LinkNext]_(Link!linkVars)
  <2> SUFFICES ASSUME IInv, [Next]_vars
               PROVE  [Link!LinkNext]_(Link!linkVars)
    OBVIOUS
  <2>1. CASE CommitState
    BY <2>1, CommitIsLinkStep
  <2>2. CASE ResetClosed \/ ResetReleased
    BY <2>2, ResetIsReport DEF Link!LinkNext
  <2>3. CASE ~CommitState /\ ~ResetClosed /\ ~ResetReleased
    BY <2>3, QuietStep DEF Link!linkVars
  <2> QED
    BY <2>1, <2>2, <2>3
<1> QED
  BY <1>1, <1>2, Inductive, PTL DEF Spec, LinkRefined, Link!LinkSpec
=============================================================================

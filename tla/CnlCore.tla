------------------------------- MODULE CnlCore -------------------------------
(****************************************************************************)
(* The CNL core on the IZAN chip: one device, its scheduler (cnl_schd.c),   *)
(* state machine (cnl_sm.c), task (cnl_task.c), request entry (cnl_if.c)    *)
(* and the parts of the device driver (cnl_izan.c) that decide which        *)
(* interrupts and events exist.                                             *)
(*                                                                          *)
(* Four parties share the device structure: callers that check the state,   *)
(* queue a control request and wait; senders of data requests; the          *)
(* interrupt handler, which masks what fired under the interrupt lock and   *)
(* adds the event only after it released that lock; and the one CNL task,   *)
(* which looks for an action and performs it.  A step of the task is what   *)
(* it does while it holds a lock, or between two lock operations:           *)
(*                                                                          *)
(*  wait -> sched -> event -> [read] -> request -> do -> [commit -> reset]  *)
(*            ^                                                     |       *)
(*            +-----------------------------------------------------+       *)
(*                                                                          *)
(* Data is abstract: a data request is one CSDU and has no identity.        *)
(****************************************************************************)
EXTENDS IzanInt, Integers, FiniteSets

CONSTANTS
  Callers,       \* threads that issue control requests
  ReqTypes,      \* the request types they issue
  Air,           \* chip sources the peer, the timers or the hardware may raise
  TxCsduNum,     \* transmit banks of the chip
  MaxData,       \* bound: data requests of each direction outstanding
  MaxTimeout,    \* bound: expiries of the command alarm
  MaxFault       \* bound: failing device operations

RequestTypes == {"INIT_REQ", "CLOSE_REQ", "CONNECT_REQ", "WAIT_CONNECT_REQ",
                 "ACCEPT_REQ", "ACCEPT_RES", "RELEASE_REQ", "POWERSAVE_REQ"}

SpontaneousInts == RcvInts \cup TimInts \cup {"CPROBETX", "HWERROR", "RXBANKNOTEMPT"}

NoReq  == "none"   \* no request, NULL
PwrReq == "pwrReq" \* the request object inside the device structure

ASSUME CallersAssumption == {NoReq, PwrReq} \cap Callers = {}
ASSUME TypesAssumption   == ReqTypes \subseteq RequestTypes
ASSUME AirAssumption     == Air \subseteq SpontaneousInts
ASSUME BoundsAssumption  == /\ TxCsduNum \in Nat \ {0}
                            /\ MaxData \in Nat
                            /\ MaxTimeout \in Nat
                            /\ MaxFault \in Nat

VARIABLES
  main, sub,     \* cnlState
  pwr,           \* pwrState
  proc,          \* procAction: the action whose completion is awaited
  flags,         \* the BOOLEAN fields that are TRUE; "filter" is eventFilter
  ev,            \* event: the pending events
  signaled,      \* the device is in the list of signaled devices
  ctrlQ,         \* ctrlQueue, which holds one request at most
  ctrlCnt,       \* ctrlReqCnt, an unsigned byte
  req,           \* the control request object of each caller
  sem,           \* count of the semaphore that blocked callers wait on
  data,          \* counters of the data requests
  pc, act,       \* where the CNL task is, and the action it handles
  en,            \* currIntEnable
  gate,          \* the CNL interrupt of the SDIO function is enabled
  pmu,           \* pmuState
  tx,            \* management frame the chip is transmitting
  sta,           \* statuses latched in the INT register
  bank,          \* transmit banks in use
  phy,           \* power transition the chip has been asked for
  irq,           \* events the interrupt handler is about to add
  view,          \* the link as the upper layer has been told of it
  nTimeout, nFault

devVars  == <<main, sub, pwr, proc, flags>>
queue    == <<ctrlQ, ctrlCnt>>
reqVars  == <<queue, req, sem>>
taskVars == <<pc, act>>
chipVars == <<en, gate, pmu, tx, sta, bank, phy>>
evVars   == <<ev, signaled, irq>>
bounds   == <<nTimeout, nFault>>
vars == <<devVars, evVars, reqVars, data, taskVars, chipVars, view, bounds>>

Flags == {"waitConnect", "crossover", "missCaccAck", "txReady", "txComp",
          "rxReady", "filter"}

\* The frames whose transmission the chip reports, and the source it uses.
TxStatus == [f \in {"C_RLS", "C_ACC", "C_SLEEP", "C_WAKE"} |->
               CASE f = "C_RLS"   -> "CRLSTX"
                 [] f = "C_ACC"   -> "CACCTX"
                 [] f = "C_SLEEP" -> "CSLEEPTX"
                 [] f = "C_WAKE"  -> "CWAKETX"]

(****************************************************************************)
(* Actions of the task.  arg is the frame, timer, completed request or      *)
(* order the action is about, req the request it carries.                   *)
(****************************************************************************)
Action(op, arg, r) == [op |-> op, arg |-> arg, req |-> r]
Nop  == Action("NOP", "", NoReq)
Wake == Action("WAKE", "", NoReq)
Err  == Action("HANDLE_ERROR", "", NoReq)
Complete(r) == Action("HANDLE_COMPLETE", "COMP_NULL", r)
Order(t)    == Action("HANDLE_UPPER_ORDER", t, NoReq)
Send(f, r)  == Action("SEND_MNG_FRAME", f, r)

ActionTypes == {"NOP", "INIT", "CLOSE", "WAKE", "SLEEP", "SEND_MNG_FRAME",
                "SEND_DATA", "RECEIVE_DATA", "HANDLE_COMPLETE",
                "HANDLE_MNG_FRAME", "SKIP_MNG_FRAME", "HANDLE_TIMEOUT",
                "HANDLE_UPPER_ORDER", "HANDLE_ERROR", "WAIT_CONNECT",
                "CANCEL_WAIT_CONNECT"}
ActionArgs == {"", "COMP_NULL"} \cup Events \cup RequestTypes \cup {"WAKE_REQ"}

Transitional == {"AWAKE_TO_HIBERNATE", "HIBERNATE_TO_AWAKE"}

Byte == 0 .. 255

DevTypeOK ==
  /\ main \in MainStates
  /\ sub \in SubStates
  /\ pwr \in {"AWAKE", "HIBERNATE"} \cup Transitional
  /\ proc \in {"NOP", "INIT", "CLOSE", "WAKE", "SLEEP", "SEND_MNG_FRAME"}
  /\ flags \subseteq Flags
  /\ view \in {"down", "up"}

Statuses == {"NONE", "SUCCESS", "INVSTAT", "CANCELLED", "ERROR", "TIMEOUT", "QOVR"}

RequestObject == [type   : RequestTypes \cup {"NONE"},
                  caller : {"idle", "checked", "waiting"},
                  state  : {"NONE", "QUEUED", "PROCESSING", "COMPLETED"},
                  status : Statuses]

ReqTypeOK ==
  /\ ctrlQ \in Callers \cup {NoReq}
  /\ ctrlCnt \in Byte
  /\ req \in [Callers -> RequestObject]
  /\ sem \in Nat

DataCounters == [checked : BOOLEAN, txNew : Nat, txRun : Nat, sending : Byte,
                 ready : Nat, rxChecked : BOOLEAN, rx : Nat]

DataTypeOK == data \in DataCounters /\ bank \in Nat

ActionObject ==
  [op : ActionTypes, arg : ActionArgs, req : Callers \cup {NoReq, PwrReq}]

TaskTypeOK ==
  /\ pc \in {"wait", "sched", "event", "read", "request", "do", "commit", "reset"}
  /\ act \in ActionObject

EventTypeOK == ev \subseteq Events /\ irq \subseteq Events /\ signaled \in BOOLEAN

ChipTypeOK ==
  /\ en \subseteq Sources
  /\ sta \subseteq Sources
  /\ gate \in BOOLEAN
  /\ pmu \in {"SLEEP", "AWAKE", "POWERSAVE", "DEEP_SLEEP"}
  /\ tx \in (DOMAIN TxStatus) \cup {"none"}
  /\ phy \in {"none", "init", "wake", "close"}

TypeOK ==
  /\ DevTypeOK /\ ReqTypeOK /\ DataTypeOK /\ TaskTypeOK /\ EventTypeOK /\ ChipTypeOK
  /\ nTimeout \in Nat /\ nFault \in Nat

Init ==
  /\ main = "CLOSE" /\ sub = "NULL"
  /\ pwr = "AWAKE" /\ proc = "NOP"
  /\ flags = {} /\ ev = {} /\ signaled = FALSE
  /\ ctrlQ = NoReq /\ ctrlCnt = 0
  /\ req = [c \in Callers |-> [type |-> "NONE", caller |-> "idle",
                               state |-> "NONE", status |-> "NONE"]]
  /\ sem = 0
  /\ data = [checked |-> FALSE, txNew |-> 0, txRun |-> 0, sending |-> 0, ready |-> 0,
             rxChecked |-> FALSE, rx |-> 0]
  /\ pc = "wait" /\ act = Nop
  /\ en = {} /\ gate = TRUE /\ pmu = "SLEEP"
  /\ tx = "none" /\ sta = {} /\ bank = 0 /\ phy = "none"
  /\ irq = {} /\ view = "down"
  /\ nTimeout = 0 /\ nFault = 0

(****************************************************************************)
(* CALLERS.  CNL_request reads the state with no lock held, takes the mutex *)
(* that serialises blocking requests, queues the request and waits.         *)
(****************************************************************************)
StateAllows(t) ==
  CASE t = "INIT_REQ"                           -> main = "CLOSE"
    [] t = "CLOSE_REQ"                          -> main # "CLOSE"
    [] t \in {"CONNECT_REQ", "WAIT_CONNECT_REQ"} -> main = "SEARCH"
    [] t = "ACCEPT_REQ"     -> main \in {"CONNECTION_REQUEST", "ACCEPT_WAITING"}
    [] t = "ACCEPT_RES"     -> main = "RESPONSE_WAITING"
    [] t = "RELEASE_REQ"    -> IF main = "SEARCH" THEN "waitConnect" \in flags
                                                  ELSE main # "CLOSE"
    [] t = "POWERSAVE_REQ"  -> IsConnected(main)

CheckRequest(c, t) ==
  /\ req[c].caller = "idle"
  /\ StateAllows(t)
  /\ req' = [req EXCEPT ![c].caller = "checked", ![c].type = t]
  /\ UNCHANGED <<devVars, evVars, queue, sem, data, taskVars, chipVars, view, bounds>>

MutexFree == \A c \in Callers : req[c].caller # "waiting"

\* What is removed is not looked for.  The links of a request that was removed
\* before still lead to the head of the queue, so that removing it again empties
\* the queue of whatever it holds; and the count goes down in any case.
RemoveRequest == ctrlQ' = NoReq /\ ctrlCnt' = (ctrlCnt - 1) % 256

AddRequest(c) ==
  /\ req[c].caller = "checked"
  /\ MutexFree
  /\ IF ctrlCnt < 1
     THEN /\ req' = [req EXCEPT ![c].caller = "waiting", ![c].state = "QUEUED",
                                ![c].status = "NONE"]
          /\ ctrlQ' = c /\ ctrlCnt' = ctrlCnt + 1
          /\ signaled' = TRUE
     ELSE /\ req' = [req EXCEPT ![c].caller = "idle", ![c].status = "QOVR"]
          /\ UNCHANGED <<queue, signaled>>
  /\ UNCHANGED <<devVars, ev, irq, sem, data, taskVars, chipVars, view, bounds>>

\* The semaphore is up: the caller returns and its request object is gone.
Return(c) ==
  /\ req[c].caller = "waiting"
  /\ sem > 0
  /\ sem' = sem - 1
  /\ req' = [req EXCEPT ![c].caller = "idle", ![c].state = "NONE", ![c].type = "NONE"]
  /\ UNCHANGED <<devVars, evVars, queue, data, taskVars, chipVars, view, bounds>>

\* The command alarm finds the request still queued and answers it itself.
CmdTimeout(c) ==
  /\ nTimeout < MaxTimeout
  /\ req[c].caller = "waiting"
  /\ ctrlQ = c
  /\ RemoveRequest
  /\ req' = [req EXCEPT ![c].status = "TIMEOUT"]
  /\ sem' = sem + 1
  /\ nTimeout' = nTimeout + 1
  /\ UNCHANGED <<devVars, evVars, data, taskVars, chipVars, view, nFault>>

(****************************************************************************)
(* Data requests are asynchronous: the caller checks, queues and goes on.   *)
(****************************************************************************)
CheckSend ==
  /\ ~data.checked
  /\ data.txNew + data.txRun < MaxData
  /\ IsConnected(main)
  /\ data' = [data EXCEPT !.checked = TRUE]
  /\ UNCHANGED <<devVars, evVars, reqVars, taskVars, chipVars, view, bounds>>

\* Mutant: the request is queued and the device not signalled.
MutAddSend ==
  /\ data.checked
  /\ data' = [data EXCEPT !.checked = FALSE, !.txNew = @ + 1]
  /\ UNCHANGED <<devVars, evVars, reqVars, taskVars, chipVars, view, bounds>>
AddSend ==
  /\ data.checked
  /\ data' = [data EXCEPT !.checked = FALSE, !.txNew = @ + 1]
  /\ signaled' = TRUE
  /\ UNCHANGED <<devVars, ev, irq, reqVars, taskVars, chipVars, view, bounds>>

CheckReceive ==
  /\ ~data.rxChecked
  /\ data.rx < MaxData
  /\ IsConnected(main)
  /\ data' = [data EXCEPT !.rxChecked = TRUE]
  /\ UNCHANGED <<devVars, evVars, reqVars, taskVars, chipVars, view, bounds>>

AddReceive ==
  /\ data.rxChecked
  /\ data' = [data EXCEPT !.rxChecked = FALSE, !.rx = @ + 1]
  /\ signaled' = TRUE
  /\ UNCHANGED <<devVars, ev, irq, reqVars, taskVars, chipVars, view, bounds>>

(****************************************************************************)
(* THE CHIP AND ITS INTERRUPT HANDLER.                                      *)
(****************************************************************************)
\* The chip reports a frame as sent; C-Sleep, C-Wake and C-Acc need an ACK.
FrameSent ==
  /\ tx # "none"
  /\ pmu = "AWAKE"
  /\ sta' = sta \cup {TxStatus[tx]}
  /\ tx' = "none"
  /\ UNCHANGED <<devVars, evVars, reqVars, data, taskVars, en, gate, pmu, bank, phy,
                 view, bounds>>

\* The peer acknowledges a data frame, which frees its bank.
DataAcked ==
  /\ bank > 0
  /\ pmu = "AWAKE"
  /\ bank' = bank - 1
  /\ sta' = sta \cup {"TXDFRAME"} \cup (IF bank = 1 THEN {"TXBANKEMPT"} ELSE {})
  /\ UNCHANGED <<devVars, evVars, reqVars, data, taskVars, en, gate, pmu, tx, phy,
                 view, bounds>>

\* The power transition the chip was asked for is over.
PhyInt == [init |-> {"SLEEPTOAWAKE", "AWAKEPRIOD"}, wake |-> {"AWAKEPRIOD"},
           close |-> {"AWAKETOSLEEP"}, none |-> {}]

PhyDone ==
  /\ phy # "none"
  /\ sta' = sta \cup PhyInt[phy]
  /\ phy' = "none"
  /\ UNCHANGED <<devVars, evVars, reqVars, data, taskVars, en, gate, pmu, tx, bank,
                 view, bounds>>

\* First half of irqHandler, under the interrupt lock: every enabled source
\* that is up, A among them, is cleared and masked.  In power save the handler
\* only shuts the interrupt off.
IrqMask(A) ==
  /\ irq = {} /\ gate
  /\ LET bits == (sta \cup A) \cap en
     IN /\ bits # {}
        /\ IF pmu = "POWERSAVE"
           THEN /\ gate' = FALSE
                /\ irq' = {"WAKE_REQUIRED"}
                /\ UNCHANGED <<en, sta>>
           ELSE /\ en' = en \ bits
                /\ sta' = sta \ bits
                /\ irq' = IntToEvent(bits)
                /\ UNCHANGED gate
  /\ UNCHANGED <<devVars, ev, signaled, reqVars, data, taskVars, pmu, tx, bank, phy,
                 view, bounds>>

\* Second half, after the interrupt lock is released: add the event.
IrqAddEvent ==
  /\ irq # {}
  /\ ev' = ev \cup irq
  /\ irq' = {}
  /\ signaled' = TRUE
  /\ UNCHANGED <<devVars, reqVars, data, taskVars, chipVars, view, bounds>>

(****************************************************************************)
(* THE SCHEDULER.  It looks for one action: first an INIT or CLOSE request, *)
(* then the pending event of highest priority, then the control request,    *)
(* received data, data to send, and sleep.                                  *)
(****************************************************************************)
TaskWait ==
  /\ pc = "wait" /\ signaled
  /\ signaled' = FALSE
  /\ pc' = "sched"
  /\ UNCHANGED <<devVars, ev, irq, reqVars, data, act, chipVars, view, bounds>>

\* An action that completes or answers its request takes it out of the queue.
\* Mutant: only requests answered at once leave it.
MutLeavesQueue(a) == a.op = "HANDLE_COMPLETE" /\ a.arg = "COMP_NULL"
LeavesQueue(a) == a.op = "HANDLE_COMPLETE"

\* The task takes action a.  A completed or answered request leaves the queue;
\* one that is about to be executed is marked.
Take(a, status) ==
  /\ act' = a
  /\ pc' = "do"
  /\ IF a.req \notin Callers
     THEN UNCHANGED <<queue, req>>
     ELSE \/ /\ a.op = "HANDLE_COMPLETE"
             /\ IF LeavesQueue(a) THEN RemoveRequest ELSE UNCHANGED queue
             /\ req' = [req EXCEPT ![a.req].status = status,
                                   ![a.req].state = IF a.arg = "COMP_NULL" THEN @
                                                    ELSE "COMPLETED"]
          \/ /\ a.op \in {"INIT", "CLOSE", "SEND_MNG_FRAME"}
             /\ req' = [req EXCEPT ![a.req].state = "PROCESSING"]
             /\ UNCHANGED queue
          \/ /\ a.op \in {"WAIT_CONNECT", "CANCEL_WAIT_CONNECT"}
             /\ UNCHANGED <<queue, req>>

Queued(T) == ctrlQ # NoReq /\ req[ctrlQ].state = "QUEUED" /\ req[ctrlQ].type \in T

CheckInitClose ==
  /\ pc = "sched"
  /\ \/ Queued({"INIT_REQ"}) /\ main # "CLOSE" /\ Take(Complete(ctrlQ), "INVSTAT")
     \/ Queued({"INIT_REQ"}) /\ main = "CLOSE" /\ Take(Action("INIT", "", ctrlQ), "NONE")
     \/ Queued({"CLOSE_REQ"}) /\ main = "CLOSE" /\ Take(Complete(ctrlQ), "INVSTAT")
     \/ Queued({"CLOSE_REQ"}) /\ main # "CLOSE" /\ pwr = "HIBERNATE" /\ Take(Wake, "NONE")
     \/ Queued({"CLOSE_REQ"}) /\ main # "CLOSE" /\ pwr = "AWAKE"
          /\ Take(Action("CLOSE", "", ctrlQ), "NONE")
     \/ /\ ~Queued({"INIT_REQ"})
        /\ Queued({"CLOSE_REQ"}) => main # "CLOSE" /\ pwr \in Transitional
        /\ pc' = "event"
        /\ UNCHANGED <<act, queue, req>>
  /\ UNCHANGED <<devVars, evVars, sem, data, chipVars, view, bounds>>

(****************************************************************************)
(* Events.                                                                  *)
(****************************************************************************)
\* Classes of events in the order of their bits, and the bits of each class.
Priority == <<"WAKE_REQUIRED", "ERROR_OCCURRED",
  "COMP_INIT", "COMP_CLOSE", "COMP_CONNECT_REQ", "COMP_ACCEPT_REQ", "COMP_ACCEPT_RES",
  "COMP_RELEASE_REQ", "COMP_SLEEP_REQ", "COMP_WAKE_REQ", "COMP_PROBE_REQ",
  "COMP_WAKE", "COMP_SLEEP",
  "T_CONNECT", "T_ACCEPT", "T_RETRY", "T_RESEND",
  "C_RLS", "C_REQ", "C_ACC", "ACK_FOR_C_ACC", "C_SLEEP", "C_WAKE">>

\* The event of E the scheduler looks at; eventFilter hides C-Sleep and C-Wake.
Unfiltered(E) ==
  (E \ DataEvents) \ IF "filter" \in flags THEN {"C_SLEEP", "C_WAKE"} ELSE {}

Prior(e, E) ==
  \E i \in DOMAIN Priority :
     /\ e = Priority[i] /\ e \in Unfiltered(E)
     /\ \A j \in 1 .. (i - 1) : Priority[j] \notin Unfiltered(E)

\* No action comes of the events: note the data events E holds and go on.
Settle(E, F) ==
  /\ ev' = E \ DataEvents
  /\ flags' = F \cup (IF "RX_READY" \in E THEN {"rxReady"} ELSE {})
               \cup (IF "TX_READY" \in E THEN {"txReady"} ELSE {})
               \cup (IF "TX_COMP" \in E THEN {"txComp"} ELSE {})
  /\ act' = Nop
  /\ pc' = "request"
  /\ UNCHANGED <<queue, req>>

\* An action comes of them: E stay pending, F are the flags.
Handle(a, status, E, F) == Take(a, status) /\ ev' = E /\ flags' = F

FrameValid(f) ==
  CASE f = "C_RLS"                  -> main \notin {"CLOSE", "SEARCH"}
    [] f = "C_REQ"                  -> main \in {"SEARCH", "CONNECTION_REQUEST",
                                                 "ACCEPT_WAITING", "RESPONDER_RESPONSE"}
    [] f = "C_ACC"                  -> main \in {"CONNECTION_REQUEST", "RESPONSE_WAITING",
                                                 "INITIATOR_CONNECTED"}
    [] f = "ACK_FOR_C_ACC"          -> main = "RESPONDER_RESPONSE"
    [] f \in {"C_SLEEP", "C_WAKE"}  -> main = "RESPONDER_RESPONSE" \/ IsConnected(main)

FrameSkipped(f, F) ==
  \/ f = "C_REQ" /\ main \in {"ACCEPT_WAITING", "RESPONDER_RESPONSE"}
  \/ f = "C_REQ" /\ main = "CONNECTION_REQUEST" /\ "crossover" \in F
  \/ f = "C_ACC" /\ main # "CONNECTION_REQUEST"

FrameFlags(f, F) ==
  CASE f = "C_REQ" /\ main = "CONNECTION_REQUEST" -> F \cup {"crossover"}
    [] f \in {"C_SLEEP", "C_WAKE"} /\ main = "RESPONDER_RESPONSE" -> F \cup {"missCaccAck"}
    [] OTHER -> F

\* Mutant: the end of a change of the power state is not waited for.
MutReady == pwr # "HIBERNATE"
\* Frames and timers are handled in this power state; in HIBERNATE the chip is
\* woken first, and during a change they stay pending.
Ready == pwr = "AWAKE"

\* The handler of received frames finds f first among the events E.  A frame
\* it accepts stays pending until its body has been read.
RecvdMngFrame(f, E, F) ==
  \/ ~FrameValid(f) /\ Handle(Err, "NONE", E \ {f}, F)
  \/ FrameValid(f) /\ pwr = "HIBERNATE" /\ Handle(Wake, "NONE", E, FrameFlags(f, F))
  \/ /\ FrameValid(f) /\ Ready
     /\ act' = Action(IF FrameSkipped(f, F) THEN "SKIP_MNG_FRAME" ELSE "HANDLE_MNG_FRAME",
                      f, NoReq)
     /\ pc' = "read"
     /\ ev' = E
     /\ flags' = FrameFlags(f, F)
     /\ UNCHANGED <<queue, req>>
  \/ FrameValid(f) /\ pwr # "HIBERNATE" /\ ~Ready /\ Settle(E, FrameFlags(f, F))

\* Data in RESPONDER_RESPONSE proves that the peer had our C-Acc: the handler
\* of received frames is called for an ACK that was missed.
NoAction(E, F) ==
  IF "RX_READY" \in E /\ main = "RESPONDER_RESPONSE"
  THEN LET A == (E \ DataEvents) \cup {"ACK_FOR_C_ACC"}
           G == F \cup {"missCaccAck", "rxReady"}
                  \cup (IF "TX_READY" \in E THEN {"txReady"} ELSE {})
                  \cup (IF "TX_COMP" \in E THEN {"txComp"} ELSE {})
       IN \E f \in Frames : Prior(f, A \cap Frames) /\ RecvdMngFrame(f, A, G)
  ELSE Settle(E, F)

WakeRequired ==
  LET E == ev \ {"WAKE_REQUIRED"}
  IN \/ pwr = "HIBERNATE" /\ Handle(Wake, "NONE", E, flags)
     \/ pwr = "HIBERNATE_TO_AWAKE" /\ NoAction(E, flags)
     \/ pwr \in {"AWAKE", "AWAKE_TO_HIBERNATE"} /\ Handle(Err, "NONE", E, flags)

TimerValid(t) ==
  CASE t = "T_CONNECT" -> main = "CONNECTION_REQUEST"
    [] t = "T_ACCEPT"  -> main = "RESPONDER_RESPONSE"
    [] t = "T_RETRY"   -> IsConnected(main)
    [] t = "T_RESEND"  -> IsConnected(main) /\ sub = "CONNECTED"

Timeout(t) ==
  \/ ~TimerValid(t) /\ Handle(Err, "NONE", ev \ {t}, flags)
  \/ TimerValid(t) /\ pwr = "HIBERNATE" /\ Handle(Wake, "NONE", ev, flags)
  \/ TimerValid(t) /\ pwr # "HIBERNATE" /\ ~Ready /\ NoAction(ev, flags)
  \/ TimerValid(t) /\ Ready
       /\ Handle(Action("HANDLE_TIMEOUT", t, NoReq), "NONE", ev \ {t}, flags)

CompValid(e) ==
  CASE e = "COMP_INIT"        -> main = "CLOSE"
    [] e = "COMP_CLOSE"       -> main # "CLOSE"
    [] e = "COMP_CONNECT_REQ" -> main = "CONNECTION_REQUEST"
    [] e = "COMP_ACCEPT_REQ"  -> main = "RESPONDER_RESPONSE"
    [] e = "COMP_ACCEPT_RES"  -> main = "RESPONSE_WAITING"
    [] e = "COMP_RELEASE_REQ" -> main \notin {"RESPONDER_RESPONSE", "SEARCH", "CLOSE"}
    [] e \in {"COMP_SLEEP_REQ", "COMP_WAKE_REQ", "COMP_PROBE_REQ"} -> IsConnected(main)
    [] e \in {"COMP_WAKE", "COMP_SLEEP"} -> TRUE

\* Completions of what the core itself started, which answer no caller.
Internal(e) ==
  \/ e \in {"COMP_WAKE", "COMP_SLEEP", "COMP_WAKE_REQ"}
  \/ e = "COMP_SLEEP_REQ" /\ (ctrlQ = NoReq \/ req[ctrlQ].type # "POWERSAVE_REQ")

\* Mutant: the completion that ends the change waits for its end.
MutCompDeferred(e) == pwr \in Transitional /\ e \in CompReqs
CompDeferred(e) ==
  \/ pwr = "AWAKE_TO_HIBERNATE" /\ e # "COMP_SLEEP"
  \/ pwr = "HIBERNATE_TO_AWAKE" /\ e # "COMP_WAKE"

NoTxRequest == data.txNew + data.txRun = 0

\* A probe has been answered: with nothing else to do, go to power save.
ProbeCompleted ==
  LET E == ev \ {"COMP_PROBE_REQ"}
  IN IF sub = "CONNECTED" /\ ctrlCnt = 0 /\ NoTxRequest
     THEN Handle(Send("C_SLEEP", PwrReq), "NONE", E, flags)
     ELSE NoAction(E, flags)

CompRequest(e) ==
  \/ ~CompValid(e) /\ Handle(Err, "NONE", ev \ {e}, flags)
  \/ CompValid(e) /\ e = "COMP_PROBE_REQ" /\ ProbeCompleted
  \/ /\ CompValid(e) /\ e # "COMP_PROBE_REQ"
     /\ \/ CompDeferred(e) /\ NoAction(ev, flags)
        \/ pwr = "HIBERNATE" /\ Handle(Wake, "NONE", ev, flags)
        \/ /\ ~CompDeferred(e) /\ pwr # "HIBERNATE"
           /\ IF Internal(e)
              THEN Handle(Action("HANDLE_COMPLETE", e, NoReq), "NONE", ev \ {e}, flags)
              ELSE IF ctrlQ = NoReq
              THEN NoAction(ev \ {e}, flags)
              ELSE Handle(Action("HANDLE_COMPLETE", e, ctrlQ), "SUCCESS", ev \ {e}, flags)

CheckEvent ==
  /\ pc = "event"
  /\ \/ Unfiltered(ev) = {} /\ NoAction(ev, flags)
     \/ Prior("WAKE_REQUIRED", ev) /\ WakeRequired
     \/ Prior("ERROR_OCCURRED", ev) /\ Handle(Err, "NONE", ev \ {"ERROR_OCCURRED"}, flags)
     \/ \E e \in CompReqs : Prior(e, ev) /\ CompRequest(e)
     \/ \E t \in Timers : Prior(t, ev) /\ Timeout(t)
     \/ \E f \in Frames : Prior(f, ev) /\ RecvdMngFrame(f, ev, flags)
  /\ UNCHANGED <<main, sub, pwr, proc, signaled, irq, sem, data, chipVars, view, bounds>>

DeviceFault == nFault < MaxFault /\ nFault' = nFault + 1 /\ UNCHANGED nTimeout

\* The body of the frame is read with no lock held, which lets the chip report
\* the next frame of its kind; the event is cleared afterwards.
ReadMngBody ==
  /\ pc = "read"
  /\ LET f       == act.arg
         E       == ev \ {f}
         refused == f = "C_REQ" /\ main \notin {"SEARCH", "CONNECTION_REQUEST"}
     IN \/ /\ \/ refused /\ UNCHANGED bounds
              \/ ~refused /\ f \in {"C_RLS", "C_REQ", "C_ACC", "C_SLEEP"} /\ DeviceFault
           /\ Handle(Err, "NONE", E, flags)
           /\ UNCHANGED en
        \/ /\ ~refused
           /\ en' = en \cup (IF f = "C_ACC" /\ main = "INITIATOR_CONNECTED"
                             THEN {"CACCRCV"} ELSE {})
                       \cup (IF f = "C_SLEEP" THEN {"CSLEEPRCV"} ELSE {})
           /\ \/ act.op = "HANDLE_MNG_FRAME" /\ Handle(act, "NONE", E, flags)
              \/ act.op = "SKIP_MNG_FRAME" /\ NoAction(E, flags)
           /\ UNCHANGED bounds
  /\ UNCHANGED <<main, sub, pwr, proc, signaled, irq, sem, data, gate, pmu, tx, sta,
                 bank, phy, view>>

(****************************************************************************)
(* Requests.  A control request is looked at only while no action of the    *)
(* task awaits its completion.  Each of the following is the action the     *)
(* scheduler makes of the queued request r, with the status if it is        *)
(* answered at once.                                                        *)
(****************************************************************************)
Perform(a)   == [act |-> a, status |-> "NONE"]
Answer(r, s) == [act |-> Complete(r), status |-> s]

\* Mutant: the chip is not woken first.
MutAwakeFirst(a) == a
AwakeFirst(a) == CASE pwr = "HIBERNATE"     -> Wake
                   [] pwr = "AWAKE"         -> a
                   [] pwr \in Transitional  -> Nop

\* From TARGET_SLEEP or LOCAL_HIBERNATE the link must be woken first.
WakeLink == IF sub = "TARGET_SLEEP" THEN Send("C_WAKE", PwrReq)
                                    ELSE AwakeFirst(Order("WAKE_REQ"))

ConnectReq(r) ==
  CASE main = "SEARCH"             -> Perform(AwakeFirst(Order("CONNECT_REQ")))
    [] main = "CONNECTION_REQUEST" -> Perform(Send("C_REQ", r))
    [] OTHER                       -> Answer(r, "INVSTAT")

WconnectReq(r) ==
  IF main # "SEARCH" \/ "waitConnect" \in flags
  THEN Answer(r, "INVSTAT")
  ELSE Perform(AwakeFirst(Action("WAIT_CONNECT", "", r)))

AcceptReq(r) ==
  CASE main \in {"CONNECTION_REQUEST", "ACCEPT_WAITING"} -> Perform(Order("ACCEPT_REQ"))
    [] main = "RESPONDER_RESPONSE" -> Perform(Send("C_ACC", r))
    [] OTHER                       -> Answer(r, "INVSTAT")

AcceptRes(r) ==
  IF main = "RESPONSE_WAITING" THEN Perform(Send("ACK_FOR_C_ACC", r))
                               ELSE Answer(r, "INVSTAT")

ReleaseReq(r) ==
  CASE \/ main \in {"CONNECTION_REQUEST", "ACCEPT_WAITING", "RESPONSE_WAITING"}
       \/ IsConnected(main) /\ sub = "CONNECTED" -> Perform(Send("C_RLS", r))
    [] IsConnected(main) /\ sub # "CONNECTED"   -> Perform(WakeLink)
    [] main = "SEARCH" /\ "waitConnect" \in flags ->
         Perform(AwakeFirst(Action("CANCEL_WAIT_CONNECT", "", r)))
    [] OTHER                                    -> Answer(r, "INVSTAT")

\* same: the parameters are the ones in force already.
PowersaveReq(r, same) ==
  CASE ~IsConnected(main)                     -> Answer(r, "INVSTAT")
    [] IsConnected(main) /\ sub = "LOCAL_HIBERNATE" ->
         Answer(r, IF same THEN "SUCCESS" ELSE "CANCELLED")
    [] IsConnected(main) /\ sub # "LOCAL_HIBERNATE" ->
         IF ctrlCnt <= 1 /\ NoTxRequest /\ "txReady" \in flags /\ "rxReady" \notin flags
         THEN Perform(Send("C_SLEEP", r))
         ELSE Answer(r, "CANCELLED")

\* INIT and CLOSE requests are for checkInitClose: none is expected here.
CtrlRequest(r, same) ==
  CASE req[r].type = "CONNECT_REQ"      -> ConnectReq(r)
    [] req[r].type = "WAIT_CONNECT_REQ" -> WconnectReq(r)
    [] req[r].type = "ACCEPT_REQ"       -> AcceptReq(r)
    [] req[r].type = "ACCEPT_RES"       -> AcceptRes(r)
    [] req[r].type = "RELEASE_REQ"      -> ReleaseReq(r)
    [] req[r].type = "POWERSAVE_REQ"    -> PowersaveReq(r, same)
    [] req[r].type \in {"INIT_REQ", "CLOSE_REQ", "NONE"} -> Perform(Nop)

CtrlOutcomes ==
  IF proc # "NOP" \/ ctrlQ = NoReq THEN {Perform(Nop)}
  ELSE IF req[ctrlQ].state = "PROCESSING" THEN {Perform(Nop)}
  ELSE {CtrlRequest(ctrlQ, same) : same \in BOOLEAN}

\* Mutant: data is fetched without a request to put it in.
MutRxWanted == IsConnected(main) /\ "rxReady" \in flags
RxWanted == IsConnected(main) /\ "rxReady" \in flags /\ data.rx > 0

RxRequest == IF RxWanted THEN AwakeFirst(Action("RECEIVE_DATA", "", NoReq)) ELSE Nop

\* Mutant: data is sent while a management frame is.
MutTxWanted == IsConnected(main) /\ "txReady" \in flags /\ data.txNew > 0
TxWanted ==
  /\ IsConnected(main) /\ proc = "NOP"
  /\ \/ "txComp" \in flags
     \/ "txReady" \in flags /\ data.txNew > 0
     \/ ~NoTxRequest /\ sub \in {"TARGET_SLEEP", "LOCAL_HIBERNATE"}

TxRequest == IF ~TxWanted THEN Nop
             ELSE IF sub = "CONNECTED" THEN Action("SEND_DATA", "", NoReq)
             ELSE WakeLink

SleepReady ==
  CASE proc = "NOP" /\ sub = "TARGET_SLEEP" -> Order("POWERSAVE_REQ")
    [] proc = "NOP" /\ (sub = "LOCAL_HIBERNATE" \/ main = "SEARCH") /\ pwr = "AWAKE" ->
         Action("SLEEP", "", NoReq)
    [] OTHER -> Nop

\* Mutant: their completion stays masked.
MutReadReadyBuffer == data' = [data EXCEPT !.ready = TxCsduNum - bank] /\ UNCHANGED en

\* The free banks are counted; while others are in use, their completion is
\* to be reported.
ReadReadyBuffer ==
  /\ data' = [data EXCEPT !.ready = TxCsduNum - bank]
  /\ en' = en \cup (IF bank > 0 THEN {"TXDFRAME"} ELSE {})

FirstOf(a, b) == IF a # Nop THEN a ELSE b

\* Counting the free banks fails, or the reading of the profile of received data,
\* which is read before anything else is asked of it.
CheckRequests ==
  /\ pc = "request"
  /\ \E o \in CtrlOutcomes :
       LET a == FirstOf(o.act, FirstOf(RxRequest, FirstOf(TxRequest, SleepReady)))
       IN \/ /\ a # Nop /\ Take(a, o.status)
             /\ IF a.op = "SEND_DATA" THEN ReadReadyBuffer ELSE UNCHANGED <<data, en>>
             /\ UNCHANGED bounds
          \/ /\ \/ a.op = "SEND_DATA"
                \/ o.act = Nop /\ IsConnected(main) /\ "rxReady" \in flags
             /\ Take(Err, "NONE")
             /\ DeviceFault
             /\ UNCHANGED <<data, en>>
          \/ /\ a = Nop
             /\ act' = Nop
             /\ pc' = IF ev = {} THEN "wait" ELSE "sched"
             /\ UNCHANGED <<queue, req, data, en, bounds>>
  /\ UNCHANGED <<devVars, evVars, sem, gate, pmu, tx, sta, bank, phy, view>>

(****************************************************************************)
(* THE ACTIONS.  An action that fails becomes HANDLE_ERROR, keeps its       *)
(* request and leaves behind the steps it had taken, k of them.             *)
(****************************************************************************)
Doing(op) == pc = "do" /\ act.op = op
Done      == pc' = "sched" /\ act' = Nop
Failed    == /\ DeviceFault
             /\ act' = [act EXCEPT !.op = "HANDLE_ERROR", !.arg = ""]
             /\ UNCHANGED pc
Succeeded == Done /\ UNCHANGED bounds

\* Going to sleep and reading data fail before they have changed anything.
ActionFails ==
  /\ Doing("SLEEP") \/ Doing("RECEIVE_DATA")
  /\ Failed
  /\ UNCHANGED <<devVars, evVars, reqVars, data, chipVars, view>>

\* A chip in deep sleep is initialised anew, which enables its interrupt.
ActionInit ==
  /\ Doing("INIT")
  /\ gate' = (gate \/ pmu = "DEEP_SLEEP")
  /\ pmu' = "AWAKE"
  /\ en' = en \cup {"SLEEPTOAWAKE", "AWAKEPRIOD"}
  /\ phy' = "init"
  /\ proc' = "INIT"
  /\ Succeeded
  /\ UNCHANGED <<main, sub, pwr, flags, evVars, reqVars, data, tx, sta, bank, view>>

InitFails ==
  /\ Doing("INIT")
  /\ \E k \in 0 .. 3 :
       /\ gate' = (gate \/ (k > 0 /\ pmu = "DEEP_SLEEP"))
       /\ pmu'  = IF k > 1 THEN "AWAKE" ELSE pmu
       /\ phy'  = IF k > 2 THEN "init" ELSE phy
  /\ Failed
  /\ UNCHANGED <<devVars, evVars, reqVars, data, en, tx, sta, bank, view>>

(****************************************************************************)
(* What IZAN_changeState to n / ns leaves in the chip and in the events.    *)
(* A change to SEARCH from an open state aborts transmission; one to SEARCH *)
(* readies the transmit banks; one to CLOSE resets the chip.                *)
(****************************************************************************)
Released(n) == n = "SEARCH" /\ main # "CLOSE"

StopsFrame(n) ==
  \/ Released(n)
  \/ main = "CONNECTION_REQUEST" /\ n = "RESPONDER_RESPONSE"
  \/ main = "RESPONDER_RESPONSE" /\ n = "RESPONDER_CONNECTED" /\ "missCaccAck" \in flags

Cleared(n, ns) == ClearInt(main, sub, n, ns, en)

ChangeEvents(n, ns) ==
  /\ ev' = (ev \ IntToEvent(Cleared(n, ns)))
             \cup (IF n = "SEARCH" THEN {"TX_READY"} ELSE {})
  /\ signaled' = (signaled \/ n = "SEARCH")

ChangeTransmission(n, ns) ==
  /\ sta'  = IF n = "CLOSE" THEN {} ELSE sta \ Cleared(n, ns)
  /\ tx'   = IF StopsFrame(n) THEN "none" ELSE tx
  /\ bank' = IF Released(n) THEN 0 ELSE bank

ChangeChip(n, ns) ==
  /\ ChangeEvents(n, ns)
  /\ ChangeTransmission(n, ns)
  /\ en'  = NewInten(main, n, ns, en)
  /\ pmu' = IF n = "CLOSE" THEN "DEEP_SLEEP" ELSE pmu
  /\ phy' = IF n = "CLOSE" THEN "none" ELSE phy
  /\ UNCHANGED <<irq, gate>>

\* The steps of a change that fails: transmission is stopped, the mask emptied,
\* statuses and events are cleared, the new mask is set, the banks are cleared.
ChangeFails(n, ns) ==
  \E k \in 0 .. 6 :
    /\ tx'   = IF k > 0 /\ Released(n) THEN "none" ELSE tx
    /\ en'   = CASE k < 2       -> en
                 [] k \in 2 .. 4 -> {}
                 [] k > 4       -> NewInten(main, n, ns, en)
    /\ sta'  = IF k > 2 THEN sta \ Cleared(n, ns) ELSE sta
    /\ ev'   = IF k > 3 THEN ev \ IntToEvent(Cleared(n, ns)) ELSE ev
    /\ bank' = IF k > 5 /\ Released(n) THEN 0 ELSE bank
    /\ UNCHANGED <<signaled, irq, gate, pmu, phy>>

\* Closing first takes the chip, but not cnlState, to SEARCH.
ActionClose ==
  /\ Doing("CLOSE")
  /\ IF main = "SEARCH"
     THEN /\ en' = en \cup {"AWAKETOSLEEP"}
          /\ UNCHANGED <<ev, signaled, sta, tx, bank>>
     ELSE /\ ChangeEvents("SEARCH", "NULL")
          /\ ChangeTransmission("SEARCH", "NULL")
          /\ en' = NewInten(main, "SEARCH", "NULL", en) \cup {"AWAKETOSLEEP"}
  /\ phy' = "close"
  /\ proc' = "CLOSE"
  /\ Succeeded
  /\ UNCHANGED <<main, sub, pwr, flags, irq, reqVars, data, gate, pmu, view>>

CloseFails ==
  /\ Doing("CLOSE")
  /\ \/ main # "SEARCH" /\ ChangeFails("SEARCH", "NULL")
     \/ /\ phy' \in {phy, "close"}
        /\ IF main = "SEARCH"
           THEN UNCHANGED <<ev, signaled, en, sta, tx, bank>>
           ELSE /\ ChangeEvents("SEARCH", "NULL")
                /\ ChangeTransmission("SEARCH", "NULL")
                /\ en' = NewInten(main, "SEARCH", "NULL", en)
        /\ UNCHANGED <<irq, gate, pmu>>
  /\ Failed
  /\ UNCHANGED <<devVars, reqVars, data, view>>

\* The interrupt is shut off while the chip is woken.
ActionWake ==
  /\ Doing("WAKE")
  /\ pmu' = "AWAKE"
  /\ en' = en \cup {"AWAKEPRIOD"}
  /\ sta' = sta \ {"SLEEPTOAWAKE", "AWAKETOSLEEP"}
  /\ gate' = TRUE
  /\ phy' = "wake"
  /\ pwr' = "HIBERNATE_TO_AWAKE"
  /\ proc' = "WAKE"
  /\ Succeeded
  /\ UNCHANGED <<main, sub, flags, evVars, reqVars, data, tx, bank, view>>

\* It stays shut off when that fails.
WakeFails ==
  /\ Doing("WAKE")
  /\ \E k \in 0 .. 4 :
       /\ gate' = (gate /\ k = 0)
       /\ phy'  = IF k > 1 THEN "wake" ELSE phy
       /\ pmu'  = IF k > 1 THEN "AWAKE" ELSE pmu
       /\ sta'  = IF k > 2 THEN sta \ {"SLEEPTOAWAKE", "AWAKETOSLEEP"} ELSE sta
       /\ en'   = IF k > 3 THEN en \cup {"AWAKEPRIOD"} ELSE en
  /\ Failed
  /\ UNCHANGED <<devVars, evVars, reqVars, data, tx, bank, view>>

\* Going to sleep completes at once.
ActionSleep ==
  /\ Doing("SLEEP")
  /\ pmu' = "POWERSAVE"
  /\ ev' = ev \cup {"COMP_SLEEP"}
  /\ signaled' = TRUE
  /\ pwr' = "AWAKE_TO_HIBERNATE"
  /\ proc' = "SLEEP"
  /\ Succeeded
  /\ UNCHANGED <<main, sub, flags, irq, reqVars, data, en, gate, tx, sta, bank, phy, view>>

\* Sources a frame unmasks, and completions that do not wait for the chip.
FrameUnmask ==
  [C_RLS |-> {"CRLSTX"}, C_REQ |-> {"TCONNTOUT"}, C_ACC |-> {"CACCTX", "TACCTOUT"},
   ACK_FOR_C_ACC |-> {}, C_SLEEP |-> {"CSLEEPTX"}, C_WAKE |-> {"CWAKETX"}]

FrameCompletion ==
  [C_REQ |-> {"COMP_CONNECT_REQ"}, C_ACC |-> {"COMP_ACCEPT_REQ"},
   ACK_FOR_C_ACC |-> {"COMP_ACCEPT_RES"}, C_RLS |-> {}, C_SLEEP |-> {}, C_WAKE |-> {}]

ActionSendMngFrame ==
  /\ Doing("SEND_MNG_FRAME")
  /\ LET f == act.arg
     IN /\ en' = en \cup FrameUnmask[f]
        /\ ev' = ev \cup FrameCompletion[f]
        /\ signaled' = (signaled \/ FrameCompletion[f] # {})
        /\ tx' = IF f \in DOMAIN TxStatus THEN f ELSE tx
        /\ flags' = IF f \in {"C_SLEEP", "C_WAKE"} THEN flags \cup {"filter"} ELSE flags
  /\ proc' = "SEND_MNG_FRAME"
  /\ Succeeded
  /\ UNCHANGED <<main, sub, pwr, irq, reqVars, data, gate, pmu, sta, bank, phy, view>>

SendMngFrameFails ==
  /\ Doing("SEND_MNG_FRAME")
  /\ tx' \in {tx} \cup ({act.arg} \cap DOMAIN TxStatus)
  /\ Failed
  /\ UNCHANGED <<devVars, evVars, reqVars, data, en, gate, pmu, sta, bank, phy, view>>

Least(m, n) == IF m < n THEN m ELSE n

\* The CSDUs that have left their banks, counted in a byte.
\* Mutant: the banks still in use are taken for acknowledged.
MutAcked == IF "txComp" \in flags THEN data.sending ELSE 0
Acked == IF "txComp" \in flags THEN (data.sending - (TxCsduNum - data.ready)) % 256
                                ELSE 0

\* They complete requests from the head of the queue, the ones being sent first.
CompSendReq ==
  LET ran    == Least(Acked, data.txRun)
      unsent == Least(Acked - ran, data.txNew)
  IN [data EXCEPT !.txNew = @ - unsent, !.txRun = @ - ran,
                  !.sending = (@ - Acked) % 256, !.ready = 0]

\* Then the free banks are filled with n CSDUs of requests not yet begun.
ToSend   == Least(data.ready, CompSendReq.txNew)
ExecSendReq(n) == [CompSendReq EXCEPT !.txNew = @ - n, !.txRun = @ + n,
                                      !.sending = (@ + n) % 256]

ActionSendData ==
  /\ Doing("SEND_DATA")
  /\ data' = ExecSendReq(ToSend)
  /\ bank' = bank + ToSend
  /\ flags' = flags \ ({"txComp"} \cup IF ToSend = data.ready THEN {"txReady"} ELSE {})
  /\ en' = IF ToSend > 0 THEN en \cup {"TXDFRAME", "TXBANKEMPT"} ELSE en
  /\ Succeeded
  /\ UNCHANGED <<main, sub, pwr, proc, evVars, reqVars, gate, pmu, tx, sta, phy, view>>

\* The CSDU whose writing failed may be in a bank, and is not counted.
SendDataFails ==
  /\ Doing("SEND_DATA")
  /\ \E k \in 0 .. ToSend :
       /\ data' = ExecSendReq(k)
       /\ bank' \in {bank + k} \cup IF k < ToSend THEN {bank + k + 1} ELSE {}
  /\ flags' = flags \ {"txComp"}
  /\ Failed
  /\ UNCHANGED <<main, sub, pwr, proc, evVars, reqVars, en, gate, pmu, tx, sta, phy, view>>

\* Either another CSDU is ready already or the chip will say so.
ReceiveDataIntUnmask ==
  \/ ev' = ev \cup {"RX_READY"} /\ signaled' = TRUE /\ UNCHANGED en
  \/ ev' = ev \ {"RX_READY"} /\ en' = en \cup {"RXBANKNOTEMPT"} /\ UNCHANGED signaled

\* One CSDU is read.
ActionReceiveData ==
  /\ Doing("RECEIVE_DATA")
  /\ data' = [data EXCEPT !.rx = @ - 1]
  /\ flags' = flags \ {"rxReady"}
  /\ ReceiveDataIntUnmask
  /\ Succeeded
  /\ UNCHANGED <<main, sub, pwr, proc, irq, reqVars, gate, pmu, tx, sta, bank, phy, view>>

\* These two run inside the scheduler, which gives up its lock meanwhile and
\* then removes and answers the request it started with, whether or not the alarm
\* has done so before.
MutAnswerNow(r, status) ==   \* mutant: the request stays queued
  /\ act' = Complete(r)
  /\ req' = [req EXCEPT ![r].status = status]
  /\ UNCHANGED <<queue, pc, sem>>

AnswerNow(r, status) ==
  /\ act' = Complete(r)
  /\ RemoveRequest
  /\ req' = [req EXCEPT ![r].status = status]
  /\ UNCHANGED <<pc, sem>>

WaitConnect ==
  /\ Doing("WAIT_CONNECT")
  /\ \/ /\ sta' = {}
        /\ en' = en \cup {"CREQRCV"}
        /\ flags' = flags \cup {"waitConnect"}
        /\ AnswerNow(act.req, "SUCCESS")
        /\ UNCHANGED bounds
     \/ /\ AnswerNow(act.req, "ERROR")
        /\ DeviceFault
        /\ UNCHANGED <<sta, en, flags>>
  /\ UNCHANGED <<main, sub, pwr, proc, evVars, data, gate, pmu, tx, bank, phy, view>>

\* Mutant: C-Req stays unmasked.
MutCancelWaitConnect ==
  /\ Doing("CANCEL_WAIT_CONNECT")
  /\ flags' = flags \ {"waitConnect"}
  /\ AnswerNow(act.req, "SUCCESS")
  /\ UNCHANGED <<main, sub, pwr, proc, evVars, data, chipVars, view, bounds>>

CancelWaitConnect ==
  /\ Doing("CANCEL_WAIT_CONNECT")
  /\ \/ /\ en' = en \ {"CREQRCV"}
        /\ flags' = flags \ {"waitConnect"}
        /\ AnswerNow(act.req, "SUCCESS")
        /\ UNCHANGED bounds
     \/ /\ AnswerNow(act.req, "ERROR")
        /\ DeviceFault
        /\ UNCHANGED <<en, flags>>
  /\ UNCHANGED <<main, sub, pwr, proc, evVars, data, gate, pmu, tx, sta, bank, phy, view>>

(****************************************************************************)
(* THE STATE MACHINE.  The state each completion, frame, timer or order     *)
(* leads to; most change only one part of it.                               *)
(****************************************************************************)
Target(a) ==
  CASE a.arg \in {"COMP_INIT", "COMP_RELEASE_REQ", "C_RLS",
                  "T_CONNECT", "T_ACCEPT", "T_RETRY"}  -> <<"SEARCH", "NULL">>
    [] a.arg = "COMP_CLOSE"                            -> <<"CLOSE", "NULL">>
    [] a.arg \in {"COMP_CONNECT_REQ", "CONNECT_REQ"}   -> <<"CONNECTION_REQUEST", "NULL">>
    [] a.arg \in {"COMP_ACCEPT_REQ", "ACCEPT_REQ"}     -> <<"RESPONDER_RESPONSE", "NULL">>
    [] a.arg = "COMP_ACCEPT_RES"              -> <<"INITIATOR_CONNECTED", "CONNECTED">>
    [] a.arg = "ACK_FOR_C_ACC"                -> <<"RESPONDER_CONNECTED", "CONNECTED">>
    [] a.arg = "C_ACC"                        -> <<"RESPONSE_WAITING", "NULL">>
    [] a.arg = "C_REQ"        -> IF main = "SEARCH" THEN <<"ACCEPT_WAITING", "NULL">>
                                                    ELSE <<main, sub>>
    [] a.arg \in {"COMP_SLEEP_REQ", "POWERSAVE_REQ"}   -> <<main, "LOCAL_HIBERNATE">>
    [] a.arg = "COMP_WAKE_REQ"                         -> <<main, "CONNECTED">>
    [] a.arg \in {"T_RESEND", "WAKE_REQ"}              -> <<main, "TARGET_SLEEP">>
    [] a.arg = "C_SLEEP" /\ main = "RESPONDER_RESPONSE" ->
         <<"RESPONDER_CONNECTED", "TARGET_SLEEP">>
    [] a.arg = "C_SLEEP" /\ main # "RESPONDER_RESPONSE" ->
         IF sub = "LOCAL_HIBERNATE" THEN <<main, sub>> ELSE <<main, "TARGET_SLEEP">>
    [] a.arg = "C_WAKE" ->
         IF main = "RESPONDER_RESPONSE" THEN <<"RESPONDER_CONNECTED", "CONNECTED">>
                                        ELSE <<main, "CONNECTED">>

\* Mutant: a release is not reported.
MutViewAfter(a) ==
  CASE a.arg \in {"COMP_ACCEPT_RES", "ACK_FOR_C_ACC"}              -> "up"
    [] a.arg \in {"C_SLEEP", "C_WAKE"} /\ main = "RESPONDER_RESPONSE" -> "up"
    [] a.arg \in {"COMP_CLOSE", "T_CONNECT", "T_ACCEPT", "T_RETRY"} -> "down"
    [] OTHER                                                       -> view

\* What the upper layer is told: the end of connection set-up, of the link.
ViewAfter(a) ==
  CASE a.arg \in {"COMP_ACCEPT_RES", "ACK_FOR_C_ACC"}              -> "up"
    [] a.arg \in {"C_SLEEP", "C_WAKE"} /\ main = "RESPONDER_RESPONSE" -> "up"
    [] a.arg \in {"COMP_RELEASE_REQ", "COMP_CLOSE", "C_RLS", "T_CONNECT",
                  "T_ACCEPT", "T_RETRY"}                           -> "down"
    [] OTHER                                                       -> view

\* Mutant: only requests completed by the chip are answered.
MutFinish ==
  /\ view' = ViewAfter(act)
  /\ sem' = IF act.req \in Callers /\ act.arg # "COMP_NULL" THEN sem + 1 ELSE sem
  /\ Done

\* The request of the action is answered and the upper layer is notified.
Finish ==
  /\ view' = ViewAfter(act)
  /\ sem' = IF act.req \in Callers THEN sem + 1 ELSE sem
  /\ Done

Finished == {"COMP_NULL", "COMP_WAKE", "COMP_SLEEP"}

HandleFinished ==
  /\ Doing("HANDLE_COMPLETE") /\ act.arg \in Finished
  /\ pwr' = CASE act.arg = "COMP_WAKE"  -> "AWAKE"
              [] act.arg = "COMP_SLEEP" -> "HIBERNATE"
              [] act.arg = "COMP_NULL"  -> pwr
  /\ proc' = IF act.arg = "COMP_NULL" THEN proc ELSE "NOP"
  /\ Finish
  /\ UNCHANGED <<main, sub, flags, evVars, queue, req, data, chipVars, bounds>>

StateOps == {"HANDLE_COMPLETE", "HANDLE_MNG_FRAME", "HANDLE_TIMEOUT", "HANDLE_UPPER_ORDER"}

\* Mutant: the filter stays after the link went to sleep.
MutUnfilters == {"COMP_WAKE_REQ"}
\* Completions that end the hiding of received C-Sleep and C-Wake.
Unfilters == {"COMP_SLEEP_REQ", "COMP_WAKE_REQ"}

\* A state change programs the chip before cnlState itself is written.
HandleStateChange ==
  /\ \E op \in StateOps : Doing(op)
  /\ act.arg \notin Finished
  /\ proc' = IF act.op = "HANDLE_COMPLETE" THEN "NOP" ELSE proc
  /\ flags' = IF act.arg \in Unfilters THEN flags \ {"filter"} ELSE flags
  /\ \/ /\ Target(act) = <<main, sub>>
        /\ Finish
        /\ UNCHANGED <<evVars, chipVars, bounds>>
     \/ /\ Target(act) # <<main, sub>>
        /\ ChangeChip(Target(act)[1], Target(act)[2])
        /\ pc' = "commit"
        /\ UNCHANGED <<act, sem, view, bounds>>
     \/ /\ Target(act) # <<main, sub>>
        /\ ChangeFails(Target(act)[1], Target(act)[2])
        /\ Failed
        /\ UNCHANGED <<sem, view>>
  /\ UNCHANGED <<main, sub, pwr, queue, req, data>>

CommitState ==
  /\ pc = "commit"
  /\ main' = Target(act)[1]
  /\ sub' = Target(act)[2]
  /\ IF main' \in {"SEARCH", "CLOSE"}
     THEN pc' = "reset" /\ UNCHANGED <<act, sem, view>>
     ELSE Finish
  /\ UNCHANGED <<pwr, proc, flags, evVars, queue, req, data, chipVars, bounds>>

\* Mutant: requests with CSDUs in the banks survive.
MutNoData == [data EXCEPT !.txNew = 0, !.sending = 0, !.rx = 0]
NoData == [data EXCEPT !.txNew = 0, !.txRun = 0, !.sending = 0, !.rx = 0]

\* CNL_closeReset
ResetClosed ==
  /\ pc = "reset" /\ main = "CLOSE"
  /\ ev' = {}
  /\ flags' = {}
  /\ pwr' = "AWAKE"
  /\ data' = NoData
  /\ Finish
  /\ UNCHANGED <<main, sub, proc, signaled, irq, queue, req, chipVars, bounds>>

\* CNL_releaseReset: a request that waits for the link is answered.
ResetReleased ==
  /\ pc = "reset" /\ main = "SEARCH"
  /\ ev' = ev \cap {"ERROR_OCCURRED", "TX_READY"}
  /\ flags' = {}
  /\ pwr' = "AWAKE"
  /\ proc' = IF proc = "SEND_MNG_FRAME" THEN "NOP" ELSE proc
  /\ data' = NoData
  /\ view' = ViewAfter(act)
  /\ Done
  /\ LET dropped == /\ ctrlQ # NoReq
                    /\ req[ctrlQ].type \in {"RELEASE_REQ", "ACCEPT_REQ", "ACCEPT_RES"}
         own     == IF act.req \in Callers THEN 1 ELSE 0
     IN /\ IF dropped THEN RemoveRequest ELSE UNCHANGED queue
        /\ req' = IF dropped THEN [req EXCEPT ![ctrlQ].status = "INVSTAT"] ELSE req
        /\ sem' = sem + own + (IF dropped THEN 1 ELSE 0)
  /\ UNCHANGED <<main, sub, signaled, irq, chipVars, bounds>>

\* Errors purge every request; the action's own one is answered if it had left
\* the queue.  The count of CSDUs in the banks stays.
HandleError ==
  /\ Doing("HANDLE_ERROR")
  /\ data' = [data EXCEPT !.txNew = 0, !.txRun = 0, !.rx = 0]
  /\ LET own  == IF act.req \in Callers
                 THEN IF req[act.req].state = "COMPLETED" THEN {act.req} ELSE {}
                 ELSE {}
         head == IF ctrlQ = NoReq THEN {} ELSE {ctrlQ}
     IN /\ req' = [c \in Callers |-> IF c \in own \cup head
                                     THEN [req[c] EXCEPT !.status = "ERROR"] ELSE req[c]]
        /\ sem' = sem + (IF own = {} THEN 0 ELSE 1) + (IF head = {} THEN 0 ELSE 1)
  /\ ctrlQ' = NoReq /\ ctrlCnt' = 0
  /\ Succeeded
  /\ UNCHANGED <<devVars, evVars, chipVars, view>>

(****************************************************************************)
Caller(c) == \/ \E t \in ReqTypes : CheckRequest(c, t)
             \/ AddRequest(c) \/ Return(c) \/ CmdTimeout(c)

DataCaller == CheckSend \/ AddSend \/ CheckReceive \/ AddReceive

Chip == FrameSent \/ DataAcked \/ PhyDone

\* The handler fetches every enabled source that is up at once; what is masked makes no
\* difference to it.
Interrupt == IrqAddEvent \/ \E A \in SUBSET (Air \cap en) : IrqMask(A)

Schedule == TaskWait \/ CheckInitClose \/ CheckEvent \/ ReadMngBody \/ CheckRequests

Execute == \/ ActionInit \/ ActionClose \/ ActionWake \/ ActionSleep
           \/ ActionSendMngFrame \/ ActionSendData \/ ActionReceiveData
           \/ ActionFails \/ InitFails \/ CloseFails \/ WakeFails
           \/ SendMngFrameFails \/ SendDataFails
           \/ WaitConnect \/ CancelWaitConnect
           \/ HandleFinished \/ HandleStateChange \/ CommitState
           \/ ResetClosed \/ ResetReleased \/ HandleError

Task == Schedule \/ Execute

Next == \/ \E c \in Callers : Caller(c)
        \/ DataCaller \/ Chip \/ Interrupt \/ Task

Spec == Init /\ [][Next]_vars

(****************************************************************************)
(* Fairness.  The CNL task and the interrupt handler are threads of the     *)
(* kernel that run whenever they can, a caller whose semaphore is up goes   *)
(* on, and the chip ends what it was asked for: it raises an enabled status *)
(* it has latched, finishes a power transition and reports a frame.  That a *)
(* peer acknowledges data is assumed while the link is up.                  *)
(****************************************************************************)
Fairness ==
  /\ WF_vars(Task)
  /\ WF_vars(IrqAddEvent) /\ WF_vars(IrqMask({}))
  /\ WF_vars(FrameSent) /\ WF_vars(DataAcked) /\ WF_vars(PhyDone)
  /\ \A c \in Callers : WF_vars(Return(c))

FairSpec == Spec /\ Fairness
=============================================================================

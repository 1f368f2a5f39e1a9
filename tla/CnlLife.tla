------------------------------- MODULE CnlLife -------------------------------
(****************************************************************************)
(* The life of the device in the core (cnl.c) and in the fitting above it     *)
(* (cnlfit.c): the bus registers and unregisters it, applications open and    *)
(* close it, everybody signals it and the CNL task takes the signalled device *)
(* in hand.  There is one device, one entry of the fitting's table and one    *)
(* mutex in each layer; a thread waits for the mutex of one layer while it    *)
(* holds that of the other.                                                   *)
(****************************************************************************)
EXTENDS Integers, FiniteSets

CONSTANTS
  Threads,  \* threads of the applications
  Bus,      \* the thread that probes and removes the card
  Irq,      \* the interrupt handler
  MaxWake,  \* bound: wakeups of the task that are not consumed
  None      \* nobody

Actors == Threads \cup {Bus, Irq}

ASSUME LifeAssumption ==
  /\ Bus \notin Threads \cup {Irq} /\ Irq \notin Threads
  /\ None \notin Actors
  /\ MaxWake \in Nat \ {0}

VARIABLES
  dev,      \* devState of the device, "none" when it is released
  fit,      \* state in the fitting's table, "none" when the entry is empty
  devMtx,   \* who holds g_cnlDevMtxId
  ctrlMtx,  \* who holds g_ctrlDevMtxId
  pc,       \* where everybody is
  sig,      \* is the device in g_sigDevList?
  waking,   \* who has put it there and not yet woken the task
  wakes,    \* wakeups of the task
  cur,      \* is the device g_pCurrentCnlDev?
  task      \* the CNL task

vars == <<dev, fit, devMtx, ctrlMtx, pc, sig, waking, wakes, cur, task>>
layers  == <<dev, fit, devMtx, ctrlMtx>>
signals == <<sig, waking, wakes>>
tasks   == <<cur, task>>

Init ==
  /\ dev = "none" /\ fit = "none"
  /\ devMtx = None /\ ctrlMtx = None
  /\ pc = [a \in Actors |-> "idle"]
  /\ sig = FALSE /\ waking = {} /\ wakes = 0
  /\ cur = FALSE /\ task = "sleep"

At(a, p) == pc[a] = p
Goto(a, p) == pc' = [pc EXCEPT ![a] = p]

\* A mutex that is taken and released within one step is only waited for.
Free(mtx) == mtx = None

(****************************************************************************)
(* Signalling (CNL_signalDev) in two steps.                                 *)
(****************************************************************************)
Signal(a) ==
  /\ wakes + Cardinality(waking) < MaxWake
  /\ sig' = TRUE
  /\ waking' = waking \cup {a}
  /\ UNCHANGED wakes

\* Mutant: the task is not woken.
MutWakeupTask(a) == waking' = waking \ {a} /\ UNCHANGED <<sig, wakes>>
WakeupTask(a) ==
  /\ waking' = waking \ {a}
  /\ wakes' = wakes + 1
  /\ UNCHANGED sig

\* The card interrupts.
Interrupt ==
  /\ At(Irq, "idle") /\ dev # "none"
  /\ Signal(Irq)
  /\ Goto(Irq, "wake")
  /\ UNCHANGED <<layers, tasks>>

InterruptWake ==
  /\ At(Irq, "wake")
  /\ WakeupTask(Irq)
  /\ Goto(Irq, "idle")
  /\ UNCHANGED <<layers, tasks>>

(****************************************************************************)
(* The bus: CNL_registerDevice and CNL_unregisterDevice.                    *)
(****************************************************************************)
\* There is memory for one device: a probe waits until the last one is released.  The
\* memory is cleared and its list entry initialised (cnl.c:414, 235) though the device
\* released before may still be in g_sigDevList (see ReleasedUntouched); what becomes of
\* the list is not followed, sig stays as it is.
Probe ==
  /\ At(Bus, "idle") /\ dev = "none"
  /\ dev' = "READY"
  /\ Goto(Bus, "probed")
  /\ UNCHANGED <<fit, devMtx, ctrlMtx, signals, tasks>>

Register ==
  /\ At(Bus, "probed") /\ Free(devMtx)
  /\ devMtx' = Bus
  /\ Goto(Bus, "register")
  /\ UNCHANGED <<dev, fit, ctrlMtx, signals, tasks>>

\* CNLUP_registerCNL; its failure is ignored.
RegisterCNL ==
  /\ At(Bus, "register") /\ Free(ctrlMtx)
  /\ fit' = IF fit = "none" THEN "READY" ELSE fit
  /\ devMtx' = None
  /\ Goto(Bus, "registered")
  /\ UNCHANGED <<dev, ctrlMtx, signals, tasks>>

\* Mutant: a device in use is released at once.
MutUnregister ==
  /\ At(Bus, "registered") /\ Free(devMtx)
  /\ devMtx' = Bus
  /\ Goto(Bus, "unregister")
  /\ UNCHANGED <<dev, fit, ctrlMtx, signals, tasks>>
\* A device in use is told that it is gone; one that is not is released.
Unregister ==
  /\ At(Bus, "registered") /\ Free(devMtx)
  /\ devMtx' = Bus
  /\ IF dev = "READY"
     THEN Goto(Bus, "unregister") /\ UNCHANGED <<dev, signals>>
     ELSE Signal(Bus) /\ dev' = "GONE" /\ Goto(Bus, "gone")
  /\ UNCHANGED <<fit, ctrlMtx, tasks>>

\* CNLUP_unregisterCNL
FitUnregistered == CASE fit = "READY"  -> "none"
                     [] fit = "ACTIVE" -> "GONE"
                     [] OTHER          -> fit

\* CNL_unregisterCnlOps, then CNL_releaseDevice; nobody looks at what the task does.
ReleaseDevice(a, p) ==
  /\ Free(ctrlMtx)
  /\ fit' = FitUnregistered
  /\ dev' = "none"
  /\ devMtx' = None
  /\ Goto(a, p)
  /\ UNCHANGED <<ctrlMtx, signals, tasks>>

UnregisterCNL == At(Bus, "unregister") /\ ReleaseDevice(Bus, "drain")

NotifyRemoved ==
  /\ At(Bus, "gone")
  /\ WakeupTask(Bus)
  /\ devMtx' = None
  /\ Goto(Bus, "drain")
  /\ UNCHANGED <<dev, fit, ctrlMtx, tasks>>

\* The task is waited for until it is idle, but not for ever.
Drained ==
  /\ At(Bus, "drain")
  /\ Goto(Bus, "idle")
  /\ UNCHANGED <<layers, signals, tasks>>

(****************************************************************************)
(* The applications: CNLFIT_openCtrl, requests and CNLFIT_closeCtrl.        *)
(****************************************************************************)
OpenCtrl(t) ==
  /\ At(t, "idle") /\ Free(ctrlMtx)
  /\ fit = "READY"
  /\ ctrlMtx' = t
  /\ Goto(t, "open")
  /\ UNCHANGED <<dev, fit, devMtx, signals, tasks>>

\* CNL_open
OpenDev(t) ==
  /\ At(t, "open") /\ Free(devMtx)
  /\ IF dev = "READY"
     THEN dev' = "ACTIVE" /\ fit' = "ACTIVE" /\ Goto(t, "opened")
     ELSE UNCHANGED <<dev, fit>> /\ Goto(t, "idle")
  /\ ctrlMtx' = None
  /\ UNCHANGED <<devMtx, signals, tasks>>

Request(t) ==
  /\ At(t, "opened") /\ dev = "ACTIVE"
  /\ Signal(t)
  /\ Goto(t, "ask")
  /\ UNCHANGED <<layers, tasks>>

RequestWake(t) ==
  /\ At(t, "ask")
  /\ WakeupTask(t)
  /\ Goto(t, "asked")
  /\ UNCHANGED <<layers, tasks>>

\* Mutant: the entry of the fitting stays active.
MutCloseCtrl(t) ==
  /\ At(t, "opened") /\ Free(ctrlMtx)
  /\ Goto(t, "close")
  /\ UNCHANGED <<dev, fit, devMtx, ctrlMtx, signals, tasks>>
\* The request CLOSE that goes first is a Request, or is refused at once.
CloseCtrl(t) ==
  /\ At(t, "opened") /\ Free(ctrlMtx)
  /\ fit' = CASE fit = "ACTIVE" -> "READY" [] fit = "GONE" -> "none" [] OTHER -> fit
  /\ Goto(t, IF fit \in {"ACTIVE", "GONE"} THEN "close" ELSE "idle")
  /\ UNCHANGED <<dev, devMtx, ctrlMtx, signals, tasks>>

\* CNL_close
CloseDev(t) ==
  /\ At(t, "close") /\ Free(devMtx)
  /\ IF dev = "GONE"
     THEN devMtx' = t /\ Goto(t, "release") /\ UNCHANGED dev
     ELSE /\ dev' = IF dev = "ACTIVE" THEN "READY" ELSE dev
          /\ Goto(t, "idle") /\ UNCHANGED devMtx
  /\ UNCHANGED <<fit, ctrlMtx, signals, tasks>>

CloseGone(t) == At(t, "release") /\ ReleaseDevice(t, "idle")

(****************************************************************************)
(* The CNL task: CNL_task and CNL_getSignaledDev.                           *)
(****************************************************************************)
SleepTask ==
  /\ task = "sleep" /\ wakes > 0
  /\ wakes' = wakes - 1
  /\ task' = "take"
  /\ UNCHANGED <<layers, pc, sig, waking, cur>>

\* Mutant: the device stays in the list of signalled devices.
MutGetSignaledDev ==
  /\ task = "take"
  /\ IF sig THEN cur' = TRUE /\ task' = "run" ELSE UNCHANGED cur /\ task' = "sleep"
  /\ UNCHANGED <<layers, pc, sig, waking, wakes>>
GetSignaledDev ==
  /\ task = "take"
  /\ IF sig THEN sig' = FALSE /\ cur' = TRUE /\ task' = "run"
            ELSE UNCHANGED <<sig, cur>> /\ task' = "sleep"
  /\ UNCHANGED <<layers, pc, waking, wakes>>

\* A request of the device in hand is answered.
Answer(t) ==
  /\ task = "run" /\ At(t, "asked")
  /\ Goto(t, "opened")
  /\ UNCHANGED <<layers, signals, tasks>>

\* Nothing is left to do: the device is put down.
PutDown ==
  /\ task = "run"
  /\ cur' = FALSE /\ task' = "sleep"
  /\ UNCHANGED <<layers, pc, signals>>

BusNext == Probe \/ Register \/ RegisterCNL \/ Unregister \/ UnregisterCNL
           \/ NotifyRemoved \/ Drained
IrqNext == Interrupt \/ InterruptWake
ThreadNext(t) == OpenCtrl(t) \/ OpenDev(t) \/ Request(t) \/ RequestWake(t)
                 \/ CloseCtrl(t) \/ CloseDev(t) \/ CloseGone(t) \/ Answer(t)
TaskNext == SleepTask \/ GetSignaledDev \/ PutDown

Next == BusNext \/ IrqNext \/ TaskNext \/ \E t \in Threads : ThreadNext(t)

\* Who has signalled goes on to wake the task, and the task runs.
Fairness ==
  /\ WF_vars(InterruptWake) /\ WF_vars(NotifyRemoved)
  /\ \A t \in Threads : WF_vars(RequestWake(t))
  /\ WF_vars(SleepTask) /\ WF_vars(GetSignaledDev) /\ WF_vars(PutDown)

Spec == Init /\ [][Next]_vars
FairSpec == Spec /\ Fairness

(****************************************************************************)
(* What is asked of the life of the device.                                 *)
(****************************************************************************)
Using == {"opened", "ask", "asked"}
Holds == Using \cup {"close", "release"}

ThreadPcs == {"idle", "open"} \cup Holds
BusPcs == {"idle", "probed", "register", "registered", "unregister", "gone", "drain"}

TypeOK ==
  /\ dev \in {"none", "READY", "ACTIVE", "GONE"}
  /\ fit \in {"none", "READY", "ACTIVE", "GONE"}
  /\ devMtx \in Actors \cup {None} /\ ctrlMtx \in Actors \cup {None}
  /\ pc \in [Actors -> ThreadPcs \cup BusPcs \cup {"wake"}]
  /\ pc[Bus] \in BusPcs /\ pc[Irq] \in {"idle", "wake"}
  /\ \A t \in Threads : pc[t] \in ThreadPcs
  /\ sig \in BOOLEAN /\ waking \subseteq Actors /\ wakes \in Nat
  /\ cur \in BOOLEAN /\ task \in {"sleep", "take", "run"}

\* A device that has been opened is not released before it is closed, and it is open
\* once, though the two layers change their states under different mutexes
\* (CNL_open, CNL_close, CNL_unregisterDevice).
DeviceOutlivesFile ==
  /\ \A t \in Threads : pc[t] \in Holds => dev \in {"ACTIVE", "GONE"}
  /\ \A t, u \in Threads : pc[t] \in Holds /\ pc[u] \in Holds => t = u

\* When the core takes a device out of the fitting's table it is there and no file uses
\* it: CTRL_DEV_GONE is never needed and the table is never searched in vain
\* (CNLUP_unregisterCNL).
UnregisteredUnused ==
  At(Bus, "unregister") \/ (\E t \in Threads : At(t, "release")) => fit = "READY"

\* A signalled device is not forgotten: the task has a wakeup for it or is about to look
\* (CNL_signalDev, CNL_getSignaledDev).
NoLostSignal == sig => wakes > 0 \/ waking # {} \/ task = "take"

\* Whatever signals the device, the task takes it in hand.
SignalHandled == sig ~> ~sig

\* cnl.c:759, "no more access to this device.": a device that is gone is released by the
\* close of its file only when the task has it neither in hand nor in the list of
\* signalled devices (CNL_close).
ReleasedUntouched == [][dev = "GONE" /\ dev' = "none" => ~cur /\ ~sig]_vars
=============================================================================

---------------------------- MODULE CnlLifeProofs ----------------------------
(****************************************************************************)
(* Theorems about the life of the device, for any number of threads.        *)
(*                                                                          *)
(* Each layer keeps a state of its own under a mutex of its own.  The        *)
(* argument is that, whoever holds which mutex, the two states and the place *)
(* of the thread that uses the device go together (LifeInv): the fitting     *)
(* says ACTIVE exactly while a thread uses the device, and it has an entry   *)
(* exactly when the core has a device that it has registered.                *)
(****************************************************************************)
EXTENDS CnlLife, TLAPS

\* The thread that holds the device.
HolderInv ==
  /\ \A t, u \in Threads : pc[t] \in Holds /\ pc[u] \in Holds => t = u
  /\ \A t \in Threads : pc[t] \in Holds => dev \in {"ACTIVE", "GONE"}
  /\ \A t \in Threads : pc[t] \in Using => fit = "ACTIVE"
  /\ fit = "ACTIVE" => \E t \in Threads : pc[t] \in Using
  /\ \A t \in Threads : pc[t] = "open" => ctrlMtx = t /\ fit = "READY"
  /\ \A t \in Threads : pc[t] = "release" => dev = "GONE" /\ devMtx = t

\* The entry of the fitting follows the device.
EntryInv ==
  /\ fit # "GONE"
  /\ fit = "none" <=> dev = "none" \/ pc[Bus] \in {"probed", "register"}
  /\ pc[Bus] \in {"probed", "register"} => dev = "READY"

\* The bus.
BusInv ==
  /\ pc[Bus] = "unregister" => dev = "READY"
  /\ pc[Bus] \in {"register", "unregister", "gone"} => devMtx = Bus
  /\ pc[Bus] = "registered" => dev \in {"READY", "ACTIVE"}
  /\ pc[Bus] = "gone" => dev = "GONE"

LifeInv == TypeOK /\ HolderInv /\ EntryInv /\ BusInv

LEMMA InitLife == Init => LifeInv
<1> SUFFICES ASSUME Init PROVE LifeInv
  OBVIOUS
<1>1. \A a \in Actors : pc[a] = "idle"
  BY DEF Init
<1>2. TypeOK
  BY <1>1 DEF Init, TypeOK, ThreadPcs, BusPcs, Actors
<1>3. HolderInv
  BY <1>1 DEF Init, HolderInv, Actors, Holds, Using
<1>4. EntryInv /\ BusInv
  BY <1>1 DEF Init, EntryInv, BusInv, Actors
<1> QED
  BY <1>2, <1>3, <1>4 DEF LifeInv

USE LifeAssumption
USE DEF Actors, At, Goto, Free, layers, signals, tasks, Holds, Using, ThreadPcs, BusPcs,
        LifeInv, TypeOK, HolderInv, EntryInv, BusInv

\* The steps of the interrupt handler and of the task leave both layers alone.
LEMMA IrqStep == ASSUME LifeInv, IrqNext PROVE LifeInv'
<1>1. CASE Interrupt
  BY <1>1 DEF Interrupt, Signal
<1>2. CASE InterruptWake
  BY <1>2 DEF InterruptWake, WakeupTask
<1> QED
  BY <1>1, <1>2 DEF IrqNext

LEMMA TaskStep == ASSUME LifeInv, TaskNext PROVE LifeInv'
<1>1. UNCHANGED <<layers, pc>>
  BY DEF TaskNext, SleepTask, GetSignaledDev, PutDown
<1>2. waking' = waking /\ wakes' \in Nat
  BY DEF TaskNext, SleepTask, GetSignaledDev, PutDown
<1>3. sig' \in BOOLEAN
  BY Zenon DEF TaskNext, SleepTask, GetSignaledDev, PutDown
<1>4. cur' \in BOOLEAN
  BY Zenon DEF TaskNext, SleepTask, GetSignaledDev, PutDown
<1>5. task' \in {"sleep", "take", "run"}
  BY Zenon DEF TaskNext, SleepTask, GetSignaledDev, PutDown
<1> QED
  BY <1>1, <1>2, <1>3, <1>4, <1>5

\* Whoever releases the device, the fitting has it as unused.
LEMMA ReleaseFindsReady ==
  ASSUME LifeInv
  PROVE  UnregisteredUnused
<1>1. CASE At(Bus, "unregister")
  BY <1>1 DEF UnregisteredUnused
<1>2. ASSUME NEW t \in Threads, At(t, "release")
      PROVE  fit = "READY"
  BY <1>2
<1> QED
  BY <1>1, <1>2 DEF UnregisteredUnused

LEMMA BusStep == ASSUME LifeInv, BusNext PROVE LifeInv'
<1>1. CASE Probe
  BY <1>1 DEF Probe
<1>2. CASE Register
  BY <1>2 DEF Register
<1>3. CASE RegisterCNL
  BY <1>3 DEF RegisterCNL
<1>4. CASE Unregister
  <2>1. CASE dev = "READY"
    BY <1>4, <2>1 DEF Unregister
  <2>2. CASE dev # "READY"
    <3>1. sig' \in BOOLEAN
      BY <1>4, <2>2 DEF Unregister, Signal
    <3> QED
      BY <1>4, <2>2, <3>1 DEF Unregister, Signal
  <2> QED
    BY <2>1, <2>2
<1>5. CASE UnregisterCNL
  BY <1>5, ReleaseFindsReady
     DEF UnregisterCNL, ReleaseDevice, FitUnregistered, UnregisteredUnused
<1>6. CASE NotifyRemoved
  BY <1>6 DEF NotifyRemoved, WakeupTask
<1>7. CASE Drained
  BY <1>7 DEF Drained
<1> QED
  BY <1>1, <1>2, <1>3, <1>4, <1>5, <1>6, <1>7 DEF BusNext

LEMMA ThreadStep == ASSUME LifeInv, NEW t \in Threads, ThreadNext(t) PROVE LifeInv'
<1>1. CASE OpenCtrl(t)
  BY <1>1 DEF OpenCtrl
<1>2. CASE OpenDev(t)
  BY <1>2 DEF OpenDev
<1>3. CASE Request(t)
  BY <1>3 DEF Request, Signal
<1>4. CASE RequestWake(t)
  BY <1>4 DEF RequestWake, WakeupTask
<1>5. CASE CloseCtrl(t)
  BY <1>5 DEF CloseCtrl
<1>6. CASE CloseDev(t)
  BY <1>6 DEF CloseDev
<1>7. CASE CloseGone(t)
  BY <1>7, ReleaseFindsReady
     DEF CloseGone, ReleaseDevice, FitUnregistered, UnregisteredUnused
<1>8. CASE Answer(t)
  BY <1>8 DEF Answer
<1> QED
  BY <1>1, <1>2, <1>3, <1>4, <1>5, <1>6, <1>7, <1>8 DEF ThreadNext

LEMMA NextLife == ASSUME LifeInv, [Next]_vars PROVE LifeInv'
<1>1. CASE UNCHANGED vars
  BY <1>1 DEF vars
<1> QED
  BY <1>1, BusStep, IrqStep, TaskStep, ThreadStep DEF Next

\* The inductive invariant: the states of the two layers, the place of the thread that
\* uses the device and that of the bus go together (cnl.c, cnlfit.c).
THEOREM Together == Spec => []LifeInv
  BY InitLife, NextLife, PTL DEF Spec

\* Every variable keeps its type (cnl.c, cnlfit.c).
THEOREM LifeTypes == Spec => []TypeOK
  BY Together, PTL

\* A device that was opened is not released before it is closed, and it is open once
\* (CNL_open, CNL_close, CNL_unregisterDevice).
THEOREM OutlivesFile == Spec => []DeviceOutlivesFile
<1>1. LifeInv => DeviceOutlivesFile
  BY DEF DeviceOutlivesFile
<1> QED
  BY <1>1, Together, PTL

\* The entry of the fitting that is taken out is there and unused (CNLUP_unregisterCNL).
THEOREM UnusedWhenReleased == Spec => []UnregisteredUnused
  BY ReleaseFindsReady, Together, PTL

\* A signal is never lost between the list of signalled devices and the wakeups of the
\* task (CNL_signalDev, CNL_getSignaledDev, CMN_wakeupTask).
THEOREM SignalKept == Spec => []NoLostSignal
<1>1. Init => NoLostSignal
  BY DEF Init, NoLostSignal
<1>2. ASSUME LifeInv, NoLostSignal, [Next]_vars PROVE NoLostSignal'
  <2>1. ASSUME NEW a \in Actors, Signal(a), UNCHANGED tasks PROVE NoLostSignal'
    BY <2>1 DEF Signal, NoLostSignal
  <2>2. ASSUME NEW a \in Actors, WakeupTask(a) PROVE NoLostSignal'
    BY <1>2, <2>2 DEF WakeupTask, NoLostSignal
  <2>3. ASSUME UNCHANGED <<signals, tasks>> PROVE NoLostSignal'
    BY <1>2, <2>3 DEF NoLostSignal
  <2>4. CASE BusNext
    BY <2>4, <2>1, <2>2, <2>3
       DEF BusNext, Probe, Register, RegisterCNL, Unregister, UnregisterCNL,
           ReleaseDevice, NotifyRemoved, Drained
  <2>5. CASE IrqNext
    BY <2>5, <2>1, <2>2 DEF IrqNext, Interrupt, InterruptWake
  <2>6. CASE TaskNext
    BY <1>2, <2>6 DEF TaskNext, SleepTask, GetSignaledDev, PutDown, NoLostSignal
  <2>7. ASSUME NEW t \in Threads, ThreadNext(t) PROVE NoLostSignal'
    BY <2>7, <2>1, <2>2, <2>3
       DEF ThreadNext, OpenCtrl, OpenDev, Request, RequestWake, CloseCtrl, CloseDev,
           CloseGone, ReleaseDevice, Answer
  <2>8. CASE UNCHANGED vars
    BY <2>8, <2>3 DEF vars
  <2> QED
    BY <1>2, <2>4, <2>5, <2>6, <2>7, <2>8 DEF Next
<1> QED
  BY <1>1, <1>2, Together, PTL DEF Spec
=============================================================================

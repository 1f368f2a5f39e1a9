----------------------------- MODULE CnlFitProofs -----------------------------
(****************************************************************************)
(* Theorems about the fitting, for any number of threads, files and         *)
(* containers and any size of the queues of the core.                        *)
(*                                                                          *)
(* Two arguments that have nothing to do with each other: containers go from *)
(* one owner to the next until a call gives back one that it queued          *)
(* (OwnerInv), and who changes the state of the port after waiting for a     *)
(* container has kept the mutex (PortInv).                                   *)
(****************************************************************************)
EXTENDS CnlFit, TLAPS

Window  == {"added", "look"}

\* Which containers the threads have, and whom the task answers after purging.
ThreadInv ==
  /\ \A t \in Threads : th[t].pc \in Holding \cup Window => th[t].cont \in Conts
  /\ \A t \in Threads : th[t].pc \notin Holding \cup Window => th[t].cont = None
  /\ \A t \in Threads : th[t].pc \in {"check", "add"} => th[t].file \in Files
  /\ \A t \in Threads : th[t].cmd = "CLOSE_CTRL" => th[t].file \in CtrlFiles
  /\ \A t \in Threads : th[t].pc = "lock" => th[t].cmd = "CLOSE_CTRL"
  /\ task.caller # None =>
       task.pc = "purge" /\ task.caller \in Threads /\ th[task.caller].pc = "wait"

Lists == list["ctrl"] \cup list["adpt"]

\* A container has one owner.  Nothing is said of the container that a call queued and will
\* look at: whoever has it by then, the call frees it only by setting twice.
OwnerInv ==
  ~twice =>
  /\ free \cap (Queued \cup Lists) = {}
  /\ Queued \cap Lists = {}
  /\ queue["ctrl"] \cap queue["adpt"] = {}
  /\ list["ctrl"] \cap list["adpt"] = {}
  /\ \A t \in Threads :
       th[t].pc \in Holding => th[t].cont \notin free \cup Queued \cup Lists
  /\ \A t, u \in Threads :
       th[t].pc \in Holding /\ th[u].pc \in Holding /\ th[t].cont = th[u].cont => t = u

\* The port changes only under the mutex, which is kept while a container is waited for.
PortInv ==
  /\ \A t \in Threads : th[t].pc = "alloc" /\ th[t].cmd \in PortCmds =>
       /\ mutex = t
       /\ port \in IF th[t].cmd = "DISABLE_PORT" THEN {"READY", "ACTIVE"} ELSE {"SUSPENDING"}
  /\ \A t \in Threads : th[t].pc = "clear" =>
       mutex = t /\ port \in {"SUSPENDING", "DISABLED"}
  /\ DisablingToldOnce
  /\ PortInUse

IInv == TypeOK /\ ThreadInv /\ OwnerInv /\ PortInv

LEMMA InitInv == Init => IInv
<1> SUFFICES ASSUME Init PROVE IInv
  OBVIOUS
<1>1. \A t \in Threads : th[t] = Idle
  BY DEF Init
<1>2. TypeOK
  BY DEF Init, TypeOK, Idle, TaskIdle, Sides, Pcs
<1>3. ThreadInv
  BY <1>1 DEF Init, ThreadInv, Idle, TaskIdle, Holding, Window
<1>4. OwnerInv
  BY <1>1 DEF Init, OwnerInv, Queued, Lists, Idle, Holding, Window, Sides
<1>5. PortInv
  BY <1>1 DEF Init, PortInv, Idle, DisablingToldOnce, PortInUse
<1> QED
  BY <1>2, <1>3, <1>4, <1>5 DEF IInv

USE FitAssumption
USE DEF At, Goto, Done, Enter, Idle, TaskIdle, MutexFree, Free, Alloc, Append, pool, hist, dev,
        Holding, Window, Queued, Lists, Sides

(****************************************************************************)
(* One lemma for each action.                                               *)
(****************************************************************************)

LEMMA OpenCtrlStep ==
  ASSUME IInv, NEW f \in Files, OpenCtrl(f)
  PROVE  IInv'
<1>1. TypeOK'
  BY DEF IInv, TypeOK, ThreadInv, OpenCtrl, OpenMgr, Pcs, Allowed, AnyCmds, CtrlCmds, AdptCmds, SyncCmds, DataCmds, Releases
<1>2. ThreadInv'
  BY DEF IInv, TypeOK, ThreadInv, OpenCtrl, OpenMgr
<1>3. OwnerInv'
  BY DEF IInv, TypeOK, ThreadInv, OwnerInv, OpenCtrl, OpenMgr, SideOf
<1>4. PortInv'
  BY DEF IInv, TypeOK, ThreadInv, PortInv, OpenCtrl, OpenMgr, PortCmds, DisablingToldOnce, PortInUse
<1> QED
  BY <1>1, <1>2, <1>3, <1>4 DEF IInv

LEMMA OpenAdptStep ==
  ASSUME IInv, NEW f \in Files, OpenAdpt(f)
  PROVE  IInv'
<1>1. TypeOK'
  BY DEF IInv, TypeOK, ThreadInv, OpenAdpt, OpenMgr, Pcs, Allowed, AnyCmds, CtrlCmds, AdptCmds, SyncCmds, DataCmds, Releases
<1>2. ThreadInv'
  BY DEF IInv, TypeOK, ThreadInv, OpenAdpt, OpenMgr
<1>3. OwnerInv'
  BY DEF IInv, TypeOK, ThreadInv, OwnerInv, OpenAdpt, OpenMgr, SideOf
<1>4. PortInv'
  BY DEF IInv, TypeOK, ThreadInv, PortInv, OpenAdpt, OpenMgr, PortCmds, DisablingToldOnce, PortInUse
<1> QED
  BY <1>1, <1>2, <1>3, <1>4 DEF IInv

LEMMA CloseCtrlStep ==
  ASSUME IInv, NEW t \in Threads, NEW f \in files, CloseCtrl(t, f)
  PROVE  IInv'
<1>1. TypeOK'
  BY DEF IInv, TypeOK, ThreadInv, CloseCtrl, MayRelease, Pcs, Allowed, AnyCmds, CtrlCmds, AdptCmds, SyncCmds, DataCmds, Releases
<1>2. ThreadInv'
  BY DEF IInv, TypeOK, ThreadInv, CloseCtrl, MayRelease
<1>3. OwnerInv'
  BY DEF IInv, TypeOK, ThreadInv, OwnerInv, CloseCtrl, MayRelease, SideOf
<1>4. PortInv'
  BY DEF IInv, TypeOK, ThreadInv, PortInv, CloseCtrl, MayRelease, PortCmds, DisablingToldOnce, PortInUse
<1> QED
  BY <1>1, <1>2, <1>3, <1>4 DEF IInv

LEMMA CtrlClosedStep ==
  ASSUME IInv, NEW t \in Threads, CtrlClosed(t)
  PROVE  IInv'
<1>1. TypeOK'
  BY DEF IInv, TypeOK, ThreadInv, CtrlClosed, Pcs, Allowed, AnyCmds, CtrlCmds, AdptCmds, SyncCmds, DataCmds, Releases
<1>2. ThreadInv'
  BY DEF IInv, TypeOK, ThreadInv, CtrlClosed
<1>3. OwnerInv'
  BY DEF IInv, TypeOK, ThreadInv, OwnerInv, CtrlClosed, SideOf
<1>4. PortInv'
  BY DEF IInv, TypeOK, ThreadInv, PortInv, CtrlClosed, PortCmds, DisablingToldOnce, PortInUse
<1> QED
  BY <1>1, <1>2, <1>3, <1>4 DEF IInv

LEMMA CloseAdptStep ==
  ASSUME IInv, NEW t \in Threads, NEW f \in files, CloseAdpt(t, f)
  PROVE  IInv'
<1>1. TypeOK'
  BY DEF IInv, TypeOK, ThreadInv, CloseAdpt, MayRelease, ClearAllEvent, Pcs, Allowed, AnyCmds, CtrlCmds, AdptCmds, SyncCmds, DataCmds, Releases
<1>2. ThreadInv'
  BY DEF IInv, TypeOK, ThreadInv, CloseAdpt, MayRelease, ClearAllEvent
<1>3. OwnerInv'
  BY DEF IInv, TypeOK, ThreadInv, OwnerInv, CloseAdpt, MayRelease, ClearAllEvent, SideOf
<1>4. PortInv'
  BY DEF IInv, TypeOK, ThreadInv, PortInv, CloseAdpt, MayRelease, ClearAllEvent, PortCmds, DisablingToldOnce, PortInUse
<1> QED
  BY <1>1, <1>2, <1>3, <1>4 DEF IInv

LEMMA AdptClosedStep ==
  ASSUME IInv, NEW t \in Threads, AdptClosed(t)
  PROVE  IInv'
<1>1. TypeOK'
  BY DEF IInv, TypeOK, ThreadInv, AdptClosed, ClearAllEvent, Pcs, Allowed, AnyCmds, CtrlCmds, AdptCmds, SyncCmds, DataCmds, Releases
<1>2. ThreadInv'
  BY DEF IInv, TypeOK, ThreadInv, AdptClosed, ClearAllEvent
<1>3. OwnerInv'
  BY DEF IInv, TypeOK, ThreadInv, OwnerInv, AdptClosed, ClearAllEvent, SideOf
<1>4. PortInv'
  BY DEF IInv, TypeOK, ThreadInv, PortInv, AdptClosed, ClearAllEvent, PortCmds, DisablingToldOnce, PortInUse
<1> QED
  BY <1>1, <1>2, <1>3, <1>4 DEF IInv

LEMMA EnablePortStep ==
  ASSUME IInv, NEW t \in Threads, NEW f \in files, EnablePort(t, f)
  PROVE  IInv'
<1>1. TypeOK'
  BY DEF IInv, TypeOK, ThreadInv, EnablePort, MayCall, Pcs, Allowed, AnyCmds, CtrlCmds, AdptCmds, SyncCmds, DataCmds, Releases
<1>2. ThreadInv'
  BY DEF IInv, TypeOK, ThreadInv, EnablePort, MayCall
<1>3. OwnerInv'
  BY DEF IInv, TypeOK, ThreadInv, OwnerInv, EnablePort, MayCall, SideOf
<1>4. PortInv'
  BY DEF IInv, TypeOK, ThreadInv, PortInv, EnablePort, MayCall, PortCmds, DisablingToldOnce, PortInUse
<1> QED
  BY <1>1, <1>2, <1>3, <1>4 DEF IInv

LEMMA DisablePortStep ==
  ASSUME IInv, NEW t \in Threads, NEW f \in files, DisablePort(t, f)
  PROVE  IInv'
<1>1. TypeOK'
  BY DEF IInv, TypeOK, ThreadInv, DisablePort, MayCall, Pcs, Allowed, AnyCmds, CtrlCmds, AdptCmds, SyncCmds, DataCmds, Releases
<1>2. ThreadInv'
  BY DEF IInv, TypeOK, ThreadInv, DisablePort, MayCall
<1>3. OwnerInv'
  BY DEF IInv, TypeOK, ThreadInv, OwnerInv, DisablePort, MayCall, SideOf
<1>4. PortInv'
  BY DEF IInv, TypeOK, ThreadInv, PortInv, DisablePort, MayCall, PortCmds, DisablingToldOnce, PortInUse
<1> QED
  BY <1>1, <1>2, <1>3, <1>4 DEF IInv

LEMMA DisableCompStep ==
  ASSUME IInv, NEW t \in Threads, NEW f \in files, DisableComp(t, f)
  PROVE  IInv'
<1>1. TypeOK'
  BY DEF IInv, TypeOK, ThreadInv, DisableComp, MayCall, Pcs, Allowed, AnyCmds, CtrlCmds, AdptCmds, SyncCmds, DataCmds, Releases
<1>2. ThreadInv'
  BY DEF IInv, TypeOK, ThreadInv, DisableComp, MayCall
<1>3. OwnerInv'
  BY DEF IInv, TypeOK, ThreadInv, OwnerInv, DisableComp, MayCall, SideOf
<1>4. PortInv'
  BY DEF IInv, TypeOK, ThreadInv, PortInv, DisableComp, MayCall, PortCmds, DisablingToldOnce, PortInUse
<1> QED
  BY <1>1, <1>2, <1>3, <1>4 DEF IInv

LEMMA AddPortEventStep ==
  ASSUME IInv, NEW t \in Threads, NEW c \in Conts, AddPortEvent(t, c)
  PROVE  IInv'
<1>1. TypeOK'
  <2>1. th' \in [Threads -> [pc : Pcs, cmd : {"NONE"} \cup Allowed("ctrl") \cup AdptCmds \cup Releases,
                               file : Files \cup {None}, cont : Conts \cup {None}]]
    BY DEF IInv, TypeOK, AddPortEvent, Pcs
  <2>2. cont' \in [Conts -> {"SUCCESS", "ERROR"}] /\ free' \subseteq Conts
    BY DEF IInv, TypeOK, AddPortEvent
  <2>3. list' \in [Sides -> SUBSET Conts]
    BY DEF IInv, TypeOK, AddPortEvent
  <2>4. owed' \in Nat
    BY DEF IInv, TypeOK, PortInv, DisablingToldOnce, AddPortEvent, MustAsk
  <2>5. mutex' \in Threads \cup {None} /\ port' \in {"DISABLED", "READY", "ACTIVE", "SUSPENDING"}
    BY DEF IInv, TypeOK, AddPortEvent
  <2>6. UNCHANGED <<ctrl, twice, queue, link, files, task>>
    BY DEF AddPortEvent
  <2>7. twice' \in BOOLEAN
    BY <2>6 DEF IInv, TypeOK
  <2> QED
    BY <2>1, <2>2, <2>3, <2>4, <2>5, <2>6, <2>7 DEF IInv, TypeOK
<1>2. ThreadInv'
  <2>1. th[t].pc = "alloc" /\ th[t].cont = None /\ task' = task
    BY DEF AddPortEvent, IInv, ThreadInv
  <2>2. /\ th'[t].pc \in {"clear", "idle"} /\ th'[t].cont = None
        /\ \A u \in Threads \ {t} : th'[u] = th[u]
    BY <2>1 DEF AddPortEvent, IInv, TypeOK
  <2>3. th'[t].cmd # "CLOSE_CTRL"
    BY DEF AddPortEvent, IInv, TypeOK, PortCmds
  <2> QED
    BY <2>1, <2>2, <2>3 DEF IInv, ThreadInv
<1>3. OwnerInv'
  <2>1. /\ th'[t].pc \notin Holding \cup Window
        /\ \A u \in Threads \ {t} : th'[u] = th[u]
    BY DEF AddPortEvent, IInv, TypeOK
  <2>2. /\ c \in free /\ free' = free \ {c}
        /\ \A x \in Conts \ {c} : cont'[x] = cont[x]
        /\ queue' = queue
    BY DEF AddPortEvent, IInv, TypeOK
  <2>3. \/ list'["adpt"] = list["adpt"] \cup {c} /\ list'["ctrl"] = list["ctrl"]
        \/ list'["ctrl"] = list["ctrl"] \cup {c} /\ list'["adpt"] = list["adpt"]
    BY DEF AddPortEvent, IInv, TypeOK
  <2>4. twice' = twice
    BY DEF AddPortEvent
  <2> QED
    BY <2>1, <2>2, <2>3, <2>4 DEF IInv, OwnerInv
<1>4. PortInv'
  BY DEF IInv, TypeOK, ThreadInv, PortInv, AddPortEvent, MustAsk, PortCmds, DisablingToldOnce, PortInUse
<1> QED
  BY <1>1, <1>2, <1>3, <1>4 DEF IInv

LEMMA CallStep ==
  ASSUME IInv, NEW t \in Threads, NEW f \in files, NEW cmd \in SyncCmds \cup DataCmds, Call(t, f, cmd)
  PROVE  IInv'
<1>1. TypeOK'
  BY DEF IInv, TypeOK, ThreadInv, Call, MayCall, Pcs, Allowed, AnyCmds, CtrlCmds, AdptCmds, SyncCmds, DataCmds, Releases
<1>2. ThreadInv'
  <2>1. /\ th[t].pc = "idle" /\ th'[t].pc = "alloc" /\ th'[t].cont = None
        /\ th'[t].cmd # "CLOSE_CTRL" /\ task' = task
        /\ \A u \in Threads \ {t} : th'[u] = th[u]
    BY DEF Call, MayCall, SyncCmds, DataCmds, IInv, TypeOK
  <2> QED
    BY <2>1 DEF IInv, ThreadInv
<1>3. OwnerInv'
  BY DEF IInv, TypeOK, ThreadInv, OwnerInv, Call, MayCall, SideOf
<1>4. PortInv'
  <2>1. /\ th'[t].cmd \notin PortCmds /\ th'[t].pc = "alloc"
        /\ \A u \in Threads \ {t} : th'[u] = th[u]
    BY DEF IInv, TypeOK, Call, PortCmds, SyncCmds, DataCmds
  <2>2. UNCHANGED <<port, mutex, owed, files>>
    BY DEF Call
  <2> QED
    BY <2>1, <2>2 DEF IInv, PortInv, DisablingToldOnce, PortInUse
<1> QED
  BY <1>1, <1>2, <1>3, <1>4 DEF IInv

LEMMA AllocIoContainerStep ==
  ASSUME IInv, NEW t \in Threads, NEW c \in Conts, AllocIoContainer(t, c)
  PROVE  IInv'
<1>1. TypeOK'
  <2>1. th' \in [Threads -> [pc : Pcs, cmd : {"NONE"} \cup Allowed("ctrl") \cup AdptCmds \cup Releases,
                               file : Files \cup {None}, cont : Conts \cup {None}]]
    <3>1. th' = [th EXCEPT ![t] = [th[t] EXCEPT !.pc = "check", !.cont = c]]
      BY DEF IInv, TypeOK, AllocIoContainer
    <3> DEFINE Th == [pc : Pcs, cmd : {"NONE"} \cup Allowed("ctrl") \cup AdptCmds \cup Releases,
                      file : Files \cup {None}, cont : Conts \cup {None}]
    <3>2. th \in [Threads -> Th] /\ th[t] \in Th
      BY DEF IInv, TypeOK
    <3>3. [th[t] EXCEPT !.pc = "check", !.cont = c] \in Th
      BY <3>2 DEF Pcs
    <3> HIDE DEF Th
    <3>4. th' \in [Threads -> Th]
      BY <3>1, <3>2, <3>3
    <3> QED
      BY <3>4 DEF Th
  <2>2. cont' \in [Conts -> {"SUCCESS", "ERROR"}] /\ free' \subseteq Conts
    BY DEF IInv, TypeOK, ThreadInv, AllocIoContainer
  <2>3. list' \in [Sides -> SUBSET Conts] /\ queue' \in [Sides -> SUBSET Conts]
    BY DEF IInv, TypeOK, ThreadInv, AllocIoContainer, SideOf
  <2> QED
    BY <2>1, <2>2, <2>3 DEF IInv, TypeOK, AllocIoContainer
<1>2. ThreadInv'
  BY DEF IInv, TypeOK, ThreadInv, AllocIoContainer
<1>3. OwnerInv'
  BY DEF IInv, TypeOK, ThreadInv, OwnerInv, AllocIoContainer, SideOf
<1>4. PortInv'
  BY DEF IInv, TypeOK, ThreadInv, PortInv, AllocIoContainer, PortCmds, DisablingToldOnce, PortInUse
<1> QED
  BY <1>1, <1>2, <1>3, <1>4 DEF IInv

LEMMA InterruptStep ==
  ASSUME IInv, NEW t \in Threads, Interrupt(t)
  PROVE  IInv'
<1>1. TypeOK'
  BY DEF IInv, TypeOK, ThreadInv, Interrupt, Pcs, Allowed, AnyCmds, CtrlCmds, AdptCmds, SyncCmds, DataCmds, Releases
<1>2. ThreadInv'
  <2>1. th[t].pc = "alloc" /\ th[t].cont = None /\ task' = task
    BY DEF Interrupt, IInv, ThreadInv
  <2>2. /\ th'[t].pc \in {"lock", "clear", "idle"} /\ th'[t].cont = None
        /\ \A u \in Threads \ {t} : th'[u] = th[u]
    BY <2>1 DEF Interrupt, IInv, TypeOK
  <2>3. th'[t].pc = "lock" => th'[t].cmd = "CLOSE_CTRL"
    BY <2>1 DEF Interrupt, IInv, TypeOK
  <2>4. th'[t].cmd = "CLOSE_CTRL" => th'[t].file \in CtrlFiles
    BY <2>1 DEF Interrupt, IInv, TypeOK, ThreadInv
  <2> QED
    BY <2>1, <2>2, <2>3, <2>4 DEF IInv, ThreadInv
<1>3. OwnerInv'
  BY DEF IInv, TypeOK, ThreadInv, OwnerInv, Interrupt, SideOf
<1>4. PortInv'
  BY DEF IInv, TypeOK, ThreadInv, PortInv, Interrupt, PortCmds, DisablingToldOnce, PortInUse
<1> QED
  BY <1>1, <1>2, <1>3, <1>4 DEF IInv

LEMMA CheckRequestStep ==
  ASSUME IInv, NEW t \in Threads, CheckRequest(t)
  PROVE  IInv'
<1>1. TypeOK'
  BY DEF IInv, TypeOK, ThreadInv, CheckRequest, Blocking, Pcs, Allowed, AnyCmds, CtrlCmds, AdptCmds, SyncCmds, DataCmds, Releases
<1>2. ThreadInv'
  BY DEF IInv, TypeOK, ThreadInv, CheckRequest, Blocking
<1>3. OwnerInv'
  BY DEF IInv, TypeOK, ThreadInv, OwnerInv, CheckRequest, Blocking, SideOf
<1>4. PortInv'
  BY DEF IInv, TypeOK, ThreadInv, PortInv, CheckRequest, Blocking, PortCmds, DisablingToldOnce, PortInUse
<1> QED
  BY <1>1, <1>2, <1>3, <1>4 DEF IInv

LEMMA AddDataStep ==
  ASSUME IInv, NEW t \in Threads, AddData(t)
  PROVE  IInv'
<1>1. TypeOK'
  <2>1. th' \in [Threads -> [pc : Pcs, cmd : {"NONE"} \cup Allowed("ctrl") \cup AdptCmds \cup Releases,
                               file : Files \cup {None}, cont : Conts \cup {None}]]
    BY DEF IInv, TypeOK, AddData, Pcs
  <2>2. cont' \in [Conts -> {"SUCCESS", "ERROR"}] /\ free' \subseteq Conts
    BY DEF IInv, TypeOK, ThreadInv, AddData
  <2>3. list' \in [Sides -> SUBSET Conts] /\ queue' \in [Sides -> SUBSET Conts]
    BY DEF IInv, TypeOK, ThreadInv, AddData, SideOf
  <2> QED
    BY <2>1, <2>2, <2>3 DEF IInv, TypeOK, AddData
<1>2. ThreadInv'
  BY DEF IInv, TypeOK, ThreadInv, AddData, Room
<1>3. OwnerInv'
  BY DEF IInv, TypeOK, ThreadInv, OwnerInv, AddData, Room, SideOf
<1>4. PortInv'
  BY DEF IInv, TypeOK, ThreadInv, PortInv, AddData, Room, PortCmds, DisablingToldOnce, PortInUse
<1> QED
  BY <1>1, <1>2, <1>3, <1>4 DEF IInv

LEMMA AcceptedStep ==
  ASSUME IInv, NEW t \in Threads, Accepted(t)
  PROVE  IInv'
<1>1. TypeOK'
  <2>1. th' \in [Threads -> [pc : Pcs, cmd : {"NONE"} \cup Allowed("ctrl") \cup AdptCmds \cup Releases,
                               file : Files \cup {None}, cont : Conts \cup {None}]]
    BY DEF IInv, TypeOK, Accepted, Pcs
  <2>2. cont' \in [Conts -> {"SUCCESS", "ERROR"}] /\ free' \subseteq Conts
    BY DEF IInv, TypeOK, ThreadInv, Accepted
  <2>3. list' \in [Sides -> SUBSET Conts] /\ queue' \in [Sides -> SUBSET Conts]
    BY DEF IInv, TypeOK, ThreadInv, Accepted, SideOf
  <2> QED
    BY <2>1, <2>2, <2>3 DEF IInv, TypeOK, Accepted
<1>2. ThreadInv'
  BY DEF IInv, TypeOK, ThreadInv, Accepted
<1>3. OwnerInv'
  BY DEF IInv, TypeOK, ThreadInv, OwnerInv, Accepted, SideOf
<1>4. PortInv'
  BY DEF IInv, TypeOK, ThreadInv, PortInv, Accepted, PortCmds, DisablingToldOnce, PortInUse
<1> QED
  BY <1>1, <1>2, <1>3, <1>4 DEF IInv

LEMMA LookAtStatusStep ==
  ASSUME IInv, NEW t \in Threads, LookAtStatus(t)
  PROVE  IInv'
<1>1. TypeOK'
  <2>1. th' \in [Threads -> [pc : Pcs, cmd : {"NONE"} \cup Allowed("ctrl") \cup AdptCmds \cup Releases,
                               file : Files \cup {None}, cont : Conts \cup {None}]]
    BY DEF IInv, TypeOK, LookAtStatus, Pcs
  <2>2. cont' \in [Conts -> {"SUCCESS", "ERROR"}] /\ free' \subseteq Conts
    BY DEF IInv, TypeOK, ThreadInv, LookAtStatus
  <2>3. list' \in [Sides -> SUBSET Conts] /\ queue' \in [Sides -> SUBSET Conts]
    BY DEF IInv, TypeOK, ThreadInv, LookAtStatus, SideOf
  <2> QED
    BY <2>1, <2>2, <2>3 DEF IInv, TypeOK, LookAtStatus
<1>2. ThreadInv'
  BY DEF IInv, TypeOK, ThreadInv, LookAtStatus
<1>3. OwnerInv'
  BY DEF IInv, TypeOK, ThreadInv, OwnerInv, LookAtStatus, SideOf
<1>4. PortInv'
  BY DEF IInv, TypeOK, ThreadInv, PortInv, LookAtStatus, PortCmds, DisablingToldOnce, PortInUse
<1> QED
  BY <1>1, <1>2, <1>3, <1>4 DEF IInv

LEMMA FreeIoContainerStep ==
  ASSUME IInv, NEW t \in Threads, FreeIoContainer(t)
  PROVE  IInv'
<1>1. TypeOK'
  <2>1. th' \in [Threads -> [pc : Pcs, cmd : {"NONE"} \cup Allowed("ctrl") \cup AdptCmds \cup Releases,
                               file : Files \cup {None}, cont : Conts \cup {None}]]
    BY DEF IInv, TypeOK, FreeIoContainer, Pcs
  <2>2. cont' \in [Conts -> {"SUCCESS", "ERROR"}] /\ free' \subseteq Conts
    BY DEF IInv, TypeOK, ThreadInv, FreeIoContainer
  <2>3. list' \in [Sides -> SUBSET Conts] /\ queue' \in [Sides -> SUBSET Conts]
    BY DEF IInv, TypeOK, ThreadInv, FreeIoContainer, SideOf
  <2> QED
    BY <2>1, <2>2, <2>3 DEF IInv, TypeOK, FreeIoContainer
<1>2. ThreadInv'
  <2>1. /\ th[t].pc = "free" /\ th'[t].pc \in {"lock", "idle"} /\ th'[t].cont = None
        /\ \A u \in Threads \ {t} : th'[u] = th[u]
        /\ task' = task
    BY DEF FreeIoContainer, IInv, TypeOK
  <2>2. th'[t].pc = "lock" => th'[t].cmd = "CLOSE_CTRL"
    BY DEF FreeIoContainer, IInv, TypeOK
  <2>3. th'[t].cmd = "CLOSE_CTRL" => th'[t].file \in CtrlFiles
    BY DEF FreeIoContainer, IInv, TypeOK, ThreadInv
  <2> QED
    BY <2>1, <2>2, <2>3 DEF IInv, ThreadInv
<1>3. OwnerInv'
  <2>1. /\ th[t].pc = "free" /\ th'[t].pc \in {"lock", "idle"}
        /\ \A u \in Threads \ {t} : th'[u] = th[u]
        /\ free' = free \cup {th[t].cont} /\ UNCHANGED <<queue, list, twice>>
    BY DEF FreeIoContainer, Free, Done, Idle, IInv, TypeOK
  <2> SUFFICES ASSUME ~twice PROVE OwnerInv'
    BY <2>1 DEF OwnerInv
  <2>2. /\ th[t].cont \notin Queued \cup Lists
        /\ \A u \in Threads \ {t} : th[u].pc \in Holding => th[u].cont # th[t].cont
    BY <2>1 DEF IInv, OwnerInv, Holding
  <2> QED
    BY <2>1, <2>2 DEF IInv, OwnerInv, Queued, Lists, Holding, Window
<1>4. PortInv'
  BY DEF IInv, TypeOK, ThreadInv, PortInv, FreeIoContainer, PortCmds, DisablingToldOnce, PortInUse
<1> QED
  BY <1>1, <1>2, <1>3, <1>4 DEF IInv

LEMMA GetEventStep ==
  ASSUME IInv, NEW t \in Threads, NEW f \in files, NEW c \in Conts, GetEvent(t, f, c)
  PROVE  IInv'
<1>1. TypeOK'
  BY DEF IInv, TypeOK, ThreadInv, GetEvent, MayCall, Pcs, Allowed, AnyCmds, CtrlCmds, AdptCmds, SyncCmds, DataCmds, Releases
<1>2. ThreadInv'
  BY DEF IInv, TypeOK, ThreadInv, GetEvent, MayCall
<1>3. OwnerInv'
  BY DEF IInv, TypeOK, ThreadInv, OwnerInv, GetEvent, MayCall, SideOf
<1>4. PortInv'
  BY DEF IInv, TypeOK, ThreadInv, PortInv, GetEvent, MayCall, PortCmds, DisablingToldOnce, PortInUse
<1> QED
  BY <1>1, <1>2, <1>3, <1>4 DEF IInv

LEMMA AsyncCbkStep ==
  ASSUME IInv, NEW c \in Conts, NEW side \in Sides, NEW status \in {"SUCCESS", "ERROR"}, AsyncCbk(c, side, status)
  PROVE  IInv'
<1>1. TypeOK'
  BY DEF IInv, TypeOK, ThreadInv, AsyncCbk, InWindow, Pcs, Allowed, AnyCmds, CtrlCmds, AdptCmds, SyncCmds, DataCmds, Releases
<1>2. ThreadInv'
  BY DEF IInv, TypeOK, ThreadInv, AsyncCbk, InWindow
<1>3. OwnerInv'
  BY DEF IInv, TypeOK, ThreadInv, OwnerInv, AsyncCbk, InWindow, SideOf
<1>4. PortInv'
  BY DEF IInv, TypeOK, ThreadInv, PortInv, AsyncCbk, InWindow, PortCmds, DisablingToldOnce, PortInUse
<1> QED
  BY <1>1, <1>2, <1>3, <1>4 DEF IInv

LEMMA PurgeDoneStep ==
  ASSUME IInv, PurgeDone
  PROVE  IInv'
<1>1. TypeOK'
  BY DEF IInv, TypeOK, ThreadInv, PurgeDone, Pcs, Allowed, AnyCmds, CtrlCmds, AdptCmds, SyncCmds, DataCmds, Releases
<1>2. ThreadInv'
  BY DEF IInv, TypeOK, ThreadInv, PurgeDone
<1>3. OwnerInv'
  <2>1. UNCHANGED <<list, twice, free, queue>>
    BY DEF PurgeDone
  <2>2. CASE task.caller = None
    BY <2>1, <2>2 DEF PurgeDone, IInv, OwnerInv
  <2>3. CASE task.caller # None
    <3>1. /\ task.caller \in Threads /\ th[task.caller].pc = "wait"
          /\ th'[task.caller].pc = "free" /\ th'[task.caller].cont = th[task.caller].cont
          /\ \A u \in Threads \ {task.caller} : th'[u] = th[u]
      BY <2>3 DEF PurgeDone, IInv, TypeOK, ThreadInv
    <3> QED
      BY <2>1, <3>1 DEF IInv, OwnerInv
  <2> QED
    BY <2>2, <2>3
<1>4. PortInv'
  BY DEF IInv, TypeOK, ThreadInv, PortInv, PurgeDone, PortCmds, DisablingToldOnce, PortInUse
<1> QED
  BY <1>1, <1>2, <1>3, <1>4 DEF IInv

LEMMA IndicateStep ==
  ASSUME IInv, Indicate
  PROVE  IInv'
<1>1. TypeOK'
  BY DEF IInv, TypeOK, ThreadInv, Indicate, Pcs, Allowed, AnyCmds, CtrlCmds, AdptCmds, SyncCmds, DataCmds, Releases
<1>2. ThreadInv'
  BY DEF IInv, TypeOK, ThreadInv, Indicate
<1>3. OwnerInv'
  BY DEF IInv, TypeOK, ThreadInv, OwnerInv, Indicate, SideOf
<1>4. PortInv'
  BY DEF IInv, TypeOK, ThreadInv, PortInv, Indicate, PortCmds, DisablingToldOnce, PortInUse
<1> QED
  BY <1>1, <1>2, <1>3, <1>4 DEF IInv

LEMMA LinkLostStep ==
  ASSUME IInv, LinkLost
  PROVE  IInv'
<1>1. TypeOK'
  BY DEF IInv, TypeOK, ThreadInv, LinkLost, Pcs, Allowed, AnyCmds, CtrlCmds, AdptCmds, SyncCmds, DataCmds, Releases
<1>2. ThreadInv'
  BY DEF IInv, TypeOK, ThreadInv, LinkLost
<1>3. OwnerInv'
  BY DEF IInv, TypeOK, ThreadInv, OwnerInv, LinkLost, SideOf
<1>4. PortInv'
  BY DEF IInv, TypeOK, ThreadInv, PortInv, LinkLost, PortCmds, DisablingToldOnce, PortInUse
<1> QED
  BY <1>1, <1>2, <1>3, <1>4 DEF IInv

LEMMA EventCbkStep ==
  ASSUME IInv, NEW c \in Conts, EventCbk(c)
  PROVE  IInv'
<1>1. TypeOK'
  BY DEF IInv, TypeOK, ThreadInv, EventCbk, Pcs, Allowed, AnyCmds, CtrlCmds, AdptCmds, SyncCmds, DataCmds, Releases
<1>2. ThreadInv'
  BY DEF IInv, TypeOK, ThreadInv, EventCbk
<1>3. OwnerInv'
  BY DEF IInv, TypeOK, ThreadInv, OwnerInv, EventCbk, SideOf
<1>4. PortInv'
  BY DEF IInv, TypeOK, ThreadInv, PortInv, EventCbk, PortCmds, DisablingToldOnce, PortInUse
<1> QED
  BY <1>1, <1>2, <1>3, <1>4 DEF IInv

LEMMA AnswerStep ==
  ASSUME IInv, NEW t \in Threads, Answer(t)
  PROVE  IInv'
<1>1. TypeOK'
  BY DEF IInv, TypeOK, ThreadInv, Answer, Pcs, Allowed, AnyCmds, CtrlCmds, AdptCmds, SyncCmds, DataCmds, Releases
<1>2. ThreadInv'
  BY DEF IInv, TypeOK, ThreadInv, Answer
<1>3. OwnerInv'
  BY DEF IInv, TypeOK, ThreadInv, OwnerInv, Answer, SideOf
<1>4. PortInv'
  BY DEF IInv, TypeOK, ThreadInv, PortInv, Answer, PortCmds, DisablingToldOnce, PortInUse
<1> QED
  BY <1>1, <1>2, <1>3, <1>4 DEF IInv

(****************************************************************************)
(* The invariant is inductive.                                              *)
(****************************************************************************)
LEMMA NextInv == ASSUME IInv, Next PROVE IInv'
<1>1. ASSUME NEW f \in Files, OpenCtrl(f) \/ OpenAdpt(f) PROVE IInv'
  BY <1>1, OpenCtrlStep, OpenAdptStep
<1>2. ASSUME NEW t \in Threads, NEW f \in files,
             \/ CloseCtrl(t, f) \/ CloseAdpt(t, f)
             \/ EnablePort(t, f) \/ DisablePort(t, f) \/ DisableComp(t, f)
      PROVE  IInv'
  BY <1>2, CloseCtrlStep, CloseAdptStep, EnablePortStep, DisablePortStep, DisableCompStep
<1>3. ASSUME NEW t \in Threads, NEW f \in files,
             NEW cmd \in SyncCmds \cup DataCmds, Call(t, f, cmd)
      PROVE  IInv'
  BY <1>3, CallStep
<1>4. ASSUME NEW t \in Threads, NEW f \in files, NEW c \in Conts, GetEvent(t, f, c)
      PROVE  IInv'
  BY <1>4, GetEventStep
<1>5. ASSUME NEW t \in Threads,
             \/ CtrlClosed(t) \/ AdptClosed(t) \/ Interrupt(t) \/ CheckRequest(t)
             \/ AddData(t) \/ Accepted(t) \/ LookAtStatus(t) \/ FreeIoContainer(t)
             \/ Answer(t)
      PROVE  IInv'
  BY <1>5, CtrlClosedStep, AdptClosedStep, InterruptStep, CheckRequestStep, AddDataStep,
     AcceptedStep, LookAtStatusStep, FreeIoContainerStep, AnswerStep
<1>6. ASSUME NEW t \in Threads, NEW c \in Conts, AllocIoContainer(t, c) \/ AddPortEvent(t, c)
      PROVE  IInv'
  BY <1>6, AllocIoContainerStep, AddPortEventStep
<1>7. ASSUME NEW c \in Conts, NEW side \in Sides,
             Purge(c, side) \/ \E status \in {"SUCCESS", "ERROR"} : Complete(c, side, status)
      PROVE  IInv'
  BY <1>7, AsyncCbkStep DEF Purge, Complete
<1>8. ASSUME NEW c \in Conts, EventCbk(c) PROVE IInv'
  BY <1>8, EventCbkStep
<1>9. CASE PurgeDone \/ Indicate \/ LinkLost
  BY <1>9, PurgeDoneStep, IndicateStep, LinkLostStep
<1> QED
  BY <1>1, <1>2, <1>3, <1>4, <1>5, <1>6, <1>7, <1>8, <1>9 DEF Next

LEMMA StutterInv == ASSUME IInv, UNCHANGED vars PROVE IInv'
<1>1. TypeOK'
  BY DEF IInv, TypeOK, vars
<1>2. ThreadInv'
  BY DEF IInv, ThreadInv, vars
<1>3. OwnerInv'
  BY DEF IInv, OwnerInv, vars
<1>4. PortInv'
  BY DEF IInv, PortInv, DisablingToldOnce, PortInUse, vars
<1> QED
  BY <1>1, <1>2, <1>3, <1>4 DEF IInv

LEMMA Inductive == Spec => []IInv
<1>1. IInv /\ [Next]_vars => IInv'
  BY NextInv, StutterInv
<1> QED
  BY InitInv, <1>1, PTL DEF Spec

(****************************************************************************)
(* What follows from it.                                                    *)
(****************************************************************************)
\* The variables have their types: CNLFIT_allocIoContainer never hands out what is not a
\* container of the pool, and a port disabling is never told before it was accepted.
THEOREM FitTypes == Spec => []TypeOK
<1>1. IInv => TypeOK
  BY DEF IInv
<1> QED
  BY Inductive, <1>1, PTL

LEMMA OwnersDisjoint == IInv => OneOwner
<1> SUFFICES ASSUME IInv, ~twice PROVE OwnersApart
  BY DEF OneOwner
<1>1. /\ Held \cap free = {}
      /\ Held \cap queue["ctrl"] = {} /\ Held \cap queue["adpt"] = {}
      /\ Held \cap list["ctrl"] = {} /\ Held \cap list["adpt"] = {}
  BY DEF Held, IInv, OwnerInv
<1>2. /\ free \cap queue["ctrl"] = {} /\ free \cap queue["adpt"] = {}
      /\ free \cap list["ctrl"] = {} /\ free \cap list["adpt"] = {}
      /\ queue["ctrl"] \cap queue["adpt"] = {} /\ list["ctrl"] \cap list["adpt"] = {}
      /\ queue["ctrl"] \cap list["ctrl"] = {} /\ queue["ctrl"] \cap list["adpt"] = {}
      /\ queue["adpt"] \cap list["ctrl"] = {} /\ queue["adpt"] \cap list["adpt"] = {}
  BY DEF IInv, OwnerInv
<1>3. /\ Owners[1] = free /\ Owners[2] = queue["ctrl"] /\ Owners[3] = queue["adpt"]
      /\ Owners[4] = list["ctrl"] /\ Owners[5] = list["adpt"] /\ Owners[6] = Held
  BY DEF Owners
<1>4. ASSUME NEW i \in 1..6, NEW j \in 1..6, i # j PROVE Owners[i] \cap Owners[j] = {}
  <2>1. i \in {1, 2, 3, 4, 5, 6} /\ j \in {1, 2, 3, 4, 5, 6}
    OBVIOUS
  <2> QED
    BY <2>1, <1>1, <1>2, <1>3, <1>4
<1> QED
  BY <1>4 DEF OwnersApart, IInv, OwnerInv

\* A container of CNLFIT_IOCONT_MPL_ID is in one place: the pool, a queue of the core, the
\* list of one side or the hands of one thread, until a call gives back the container of
\* a request it had queued.  Completions and purges may come as early as they like, and
\* the queues of the core may be larger than the pool.
THEOREM ContainersHaveOneOwner == Spec => []OneOwner
BY Inductive, OwnersDisjoint, PTL

\* CNLFIT_openAdpt, CNLFIT_closeAdpt, CNLFIT_disablePort: an active port has an open file.
THEOREM ActivePortInUse == Spec => []PortInUse
<1>1. IInv => PortInUse
  BY DEF IInv, PortInv
<1> QED
  BY Inductive, <1>1, PTL

\* CNLFIT_disablePort, CNLFIT_disableComp: a disabling is told to be over exactly once,
\* however many threads ask, confirm and close.
THEOREM DisablingTold == Spec => []DisablingToldOnce
<1>1. IInv => DisablingToldOnce
  BY DEF IInv, PortInv
<1> QED
  BY Inductive, <1>1, PTL
=============================================================================

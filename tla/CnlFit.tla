-------------------------------- MODULE CnlFit --------------------------------
(****************************************************************************)
(* The CNL fitting (cnl/fitting): what stands between the files of the      *)
(* character device and the CNL core.  An I/O container from a pool of fixed *)
(* size carries every request to the core and every event to a file.  The    *)
(* threads of the applications open, close and call; the CNL task completes  *)
(* requests and reports events.  The adapter port is enabled and disabled by *)
(* the controller side.  How a thread waits for an event is in IoFit.        *)
(*                                                                          *)
(* Lists of events are kept as sets: no property tells their order.         *)
(* The core is reduced to its link and to the data requests it holds.       *)
(****************************************************************************)
EXTENDS Integers, FiniteSets

CONSTANTS
  Threads,    \* threads of the applications
  CtrlFiles,  \* files of the controller device
  AdptFiles,  \* files of the adapter device
  Conts,      \* CNLFIT_IOCONT_MPL_ID: the pool of I/O containers
  MaxData,    \* how many data requests the queues of the core hold
  None        \* no file, container or thread

Files == CtrlFiles \cup AdptFiles

ASSUME FitAssumption ==
  /\ CtrlFiles \cap AdptFiles = {}
  /\ None \notin Files \cup Conts \cup Threads
  /\ MaxData \in Nat
  /\ IsFiniteSet(Conts)

VARIABLES
  ctrl,   \* pCtrlMgr->state
  port,   \* pCtrlMgr->adptMgr.state
  mutex,  \* who holds ctrlDevMtxId
  list,   \* ioMgr.eventList, by side
  cont,   \* the status in each container, as far as the call that made the request
          \* still looks at it
  free,   \* the pool
  queue,  \* data requests the core holds, by the side they answer to (pArg1)
  link,   \* the core, as the upper layer knows it
  files,  \* the open files
  th,     \* the threads
  task,   \* the CNL task, as far as the callbacks go
  owed,   \* history: port disablings accepted and not yet reported
  twice   \* history: has a call given back the container of a request that was queued?

vars == <<ctrl, port, mutex, list, cont, free, queue, link, files, th, task, owed, twice>>
pool == <<cont, free>>
hist == <<owed, twice>>
dev  == <<ctrl, port, mutex, hist>>

Sides == {"ctrl", "adpt"}
SideOf(f) == IF f \in CtrlFiles THEN "ctrl" ELSE "adpt"

\* Blocking requests of the controller side: CONNECT stands for those that may bring the
\* link up (INIT, CONNECT, WAIT_CONNECT, ACCEPT, CONFIRM, POWERSAVE), RELEASE for those
\* that end it (RELEASE, CLOSE).
SyncCmds == {"CONNECT", "RELEASE"}
DataCmds == {"DATA"}                    \* SENDDATA and RECVDATA, of either side
CtrlCmds == SyncCmds \cup {"ENABLE_PORT", "DISABLE_PORT"}
AdptCmds == {"SUSPEND_CONF"}
AnyCmds  == DataCmds \cup {"GETEVENT"}
Releases == {"CLOSE_CTRL", "CLOSE_ADPT"}

\* CNLFIT_checkCmd: which side may give a command.
Allowed(side) == AnyCmds \cup (IF side = "ctrl" THEN CtrlCmds ELSE AdptCmds)

Idle == [pc |-> "idle", cmd |-> "NONE", file |-> None, cont |-> None]
TaskIdle == [pc |-> "idle", caller |-> None]

Init ==
  /\ ctrl = "READY" /\ port = "DISABLED" /\ mutex = None
  /\ list = [s \in Sides |-> {}]
  /\ cont = [c \in Conts |-> "SUCCESS"]
  /\ free = Conts
  /\ queue = [s \in Sides |-> {}]
  /\ link = "SEARCH"
  /\ files = {}
  /\ th = [t \in Threads |-> Idle]
  /\ task = TaskIdle
  /\ owed = 0
  /\ twice = FALSE

(****************************************************************************)
(* Containers and callbacks.                                                *)
(****************************************************************************)
\* A container from the pool is cleared; a caller waits while there is none.
Alloc(c) ==
  /\ c \in free
  /\ free' = free \ {c}
  /\ cont' = [cont EXCEPT ![c] = "SUCCESS"]

Free(cs) == free' = free \cup cs

Append(c, side) == list' = [list EXCEPT ![side] = @ \cup {c}]

At(t, pc) == th[t].pc = pc
Goto(t, pc) == th' = [th EXCEPT ![t].pc = pc]
Done(t) == th' = [th EXCEPT ![t] = Idle]
Enter(t, f, cmd, pc, c) ==
  th' = [th EXCEPT ![t] = [pc |-> pc, cmd |-> cmd, file |-> f, cont |-> c]]

MutexFree == mutex = None

Queued == queue["ctrl"] \cup queue["adpt"]

\* An idle thread may call on an open file that no one releases; a file is released
\* when no call on it is under way.
MayCall(t, f, cmd) ==
  /\ At(t, "idle") /\ f \in files /\ cmd \in Allowed(SideOf(f))
  /\ \A u \in Threads : th[u].file = f => th[u].cmd \notin Releases

MayRelease(t, f) ==
  At(t, "idle") /\ f \in files /\ \A u \in Threads : th[u].file # f

(****************************************************************************)
(* Opening and closing.                                                     *)
(****************************************************************************)
\* What is left in the list of events is forgotten, not freed.
OpenMgr(f) ==
  /\ list' = [list EXCEPT ![SideOf(f)] = {}]
  /\ files' = files \cup {f}

OpenCtrl(f) ==
  /\ f \in CtrlFiles \ files /\ MutexFree
  /\ ctrl = "READY"
  /\ ctrl' = "ACTIVE"
  /\ OpenMgr(f)
  /\ UNCHANGED <<port, mutex, pool, queue, link, th, task, hist>>

OpenAdpt(f) ==
  /\ f \in AdptFiles \ files /\ MutexFree
  /\ ctrl = "ACTIVE" /\ port = "READY"
  /\ port' = "ACTIVE"
  /\ OpenMgr(f)
  /\ UNCHANGED <<ctrl, mutex, pool, queue, link, th, task, hist>>

\* Closing the controller first asks the core to close, whatever comes of it.
CloseCtrl(t, f) ==
  /\ f \in CtrlFiles /\ MayRelease(t, f)
  /\ Enter(t, f, "CLOSE_CTRL", "alloc", None)
  /\ UNCHANGED <<dev, list, pool, queue, link, files, task>>

\* The wait for the adapter stands behind a condition on its state that is never true.
AdapterAwaited == port = "ACTIVE" /\ port = "SUSPENDING"

CtrlClosed(t) ==
  /\ At(t, "lock") /\ MutexFree
  /\ ~AdapterAwaited
  /\ ctrl' = IF ctrl = "ACTIVE" THEN "READY" ELSE ctrl
  /\ files' = files \ {th[t].file}
  /\ Done(t)
  /\ UNCHANGED <<port, mutex, hist, list, pool, queue, link, task>>

\* Mutant: the containers are freed but stay in the list.
MutClearAllEvent(side) == Free(list[side]) /\ UNCHANGED list
ClearAllEvent(side) ==
  /\ Free(list[side])
  /\ list' = [list EXCEPT ![side] = {}]

\* Mutant: nothing is done about the port.
MutCloseAdpt(t, f) ==
  /\ f \in AdptFiles /\ MayRelease(t, f) /\ MutexFree
  /\ files' = files \ {f}
  /\ UNCHANGED <<dev, list, pool, queue, link, th, task>>
\* Closing the adapter does nothing about its data requests.
CloseAdpt(t, f) ==
  /\ f \in AdptFiles /\ MayRelease(t, f) /\ MutexFree
  /\ \/ /\ port = "ACTIVE"
        /\ port' = "READY"
        /\ ClearAllEvent("adpt")
        /\ files' = files \ {f}
        /\ UNCHANGED <<mutex, th>>
     \/ /\ port = "SUSPENDING"
        /\ mutex' = t
        /\ Enter(t, f, "CLOSE_ADPT", "alloc", None)
        /\ UNCHANGED <<port, free, list, files>>
     \/ /\ port \in {"READY", "DISABLED"}
        /\ files' = files \ {f}
        /\ UNCHANGED <<port, mutex, free, list, th>>
  /\ UNCHANGED <<ctrl, hist, cont, queue, link, task>>

AdptClosed(t) ==
  /\ At(t, "clear")
  /\ ClearAllEvent("adpt")
  /\ mutex' = None
  /\ files' = files \ {th[t].file}
  /\ Done(t)
  /\ UNCHANGED <<ctrl, port, hist, cont, queue, link, task>>

(****************************************************************************)
(* The adapter port.  The mutex is held while waiting for a container.      *)
(****************************************************************************)
EnablePort(t, f) ==
  /\ MayCall(t, f, "ENABLE_PORT") /\ MutexFree
  /\ port = "DISABLED"
  /\ port' = "READY"
  /\ UNCHANGED <<ctrl, mutex, hist, list, pool, queue, link, files, th, task>>

DisablePort(t, f) ==
  /\ MayCall(t, f, "DISABLE_PORT") /\ MutexFree
  /\ port \in {"READY", "ACTIVE"}
  /\ mutex' = t
  /\ Enter(t, f, "DISABLE_PORT", "alloc", None)
  /\ UNCHANGED <<ctrl, port, hist, list, pool, queue, link, files, task>>

\* SUSPEND_CONF, CNLFIT_disableComp
DisableComp(t, f) ==
  /\ MayCall(t, f, "SUSPEND_CONF") /\ MutexFree
  /\ port = "SUSPENDING"
  /\ mutex' = t
  /\ Enter(t, f, "SUSPEND_CONF", "alloc", None)
  /\ UNCHANGED <<ctrl, port, hist, list, pool, queue, link, files, task>>

PortCmds == {"DISABLE_PORT", "SUSPEND_CONF", "CLOSE_ADPT"}

\* Mutant: an adapter that is suspending is asked again.
MutMustAsk == port # "READY"
MustAsk == port = "ACTIVE"

\* An active adapter is asked to suspend (SUSPEND_PORT); otherwise the controller is told
\* that it has (SUSPEND_PORT_COMP).
AddPortEvent(t, c) ==
  /\ At(t, "alloc") /\ th[t].cmd \in PortCmds
  /\ Alloc(c)
  /\ IF MustAsk
     THEN /\ Append(c, "adpt")
          /\ port' = "SUSPENDING"
          /\ owed' = owed + 1
     ELSE /\ Append(c, "ctrl")
          /\ port' = "DISABLED"
          /\ owed' = IF th[t].cmd = "DISABLE_PORT" THEN owed ELSE owed - 1
  /\ IF th[t].cmd = "CLOSE_ADPT"
     THEN Goto(t, "clear") /\ UNCHANGED mutex
     ELSE Done(t) /\ mutex' = None
  /\ UNCHANGED <<ctrl, twice, queue, link, files, task>>

(****************************************************************************)
(* Requests.                                                                *)
(****************************************************************************)
Call(t, f, cmd) ==
  /\ cmd \in SyncCmds \cup DataCmds /\ MayCall(t, f, cmd)
  /\ Enter(t, f, cmd, "alloc", None)
  /\ UNCHANGED <<dev, list, pool, queue, link, files, task>>

AllocIoContainer(t, c) ==
  /\ At(t, "alloc") /\ th[t].cmd \notin PortCmds
  /\ Alloc(c)
  /\ th' = [th EXCEPT ![t].pc = "check", ![t].cont = c]
  /\ UNCHANGED <<dev, list, queue, link, files, task>>

\* A signal ends the wait: the call fails, but a file is released all the same.
Interrupt(t) ==
  /\ At(t, "alloc") /\ free = {}
  /\ CASE th[t].cmd = "CLOSE_CTRL" -> Goto(t, "lock")
       [] th[t].cmd = "CLOSE_ADPT" -> Goto(t, "clear")
       [] OTHER -> Done(t)
  /\ mutex' = IF mutex = t /\ th[t].cmd # "CLOSE_ADPT" THEN None ELSE mutex
  /\ UNCHANGED <<ctrl, port, hist, list, pool, queue, link, files, task>>

Blocking == SyncCmds \cup {"CLOSE_CTRL"}

\* What the core may make of a request: it is valid, or (a core that is closed) it is not.
Verdicts(cmd) ==
  IF cmd \in DataCmds \cup {"RELEASE"} THEN {link = "CONNECTED"}
  ELSE {link = "SEARCH" \/ cmd = "CLOSE_CTRL", FALSE}

\* CNL_request: the state of the core is checked without a lock.  A blocking request then
\* waits for its turn and its answer.
CheckRequest(t) ==
  /\ At(t, "check")
  /\ \E valid \in Verdicts(th[t].cmd) :
       Goto(t, IF ~valid THEN "free"
               ELSE IF th[t].cmd \in Blocking THEN "wait" ELSE "add")
  /\ UNCHANGED <<dev, list, pool, queue, link, files, task>>

Room == Cardinality(Queued) < MaxData

AddData(t) ==
  /\ At(t, "add")
  /\ IF Room
     THEN /\ queue' = [queue EXCEPT ![SideOf(th[t].file)] = @ \cup {th[t].cont}]
          /\ Goto(t, "added")
     ELSE UNCHANGED queue /\ Goto(t, "free")
  /\ UNCHANGED <<dev, list, pool, link, files, task>>

\* The status is reset after the request was queued, and looked at once more.  No lock is
\* held: the CNL task may have completed the request before either step.
Accepted(t) ==
  /\ At(t, "added")
  /\ cont' = [cont EXCEPT ![th[t].cont] = "SUCCESS"]
  /\ Goto(t, "look")
  /\ UNCHANGED <<dev, list, free, queue, link, files, task>>

LookAtStatus(t) ==
  /\ At(t, "look")
  /\ \/ /\ cont[th[t].cont] = "SUCCESS"
        /\ UNCHANGED <<free, twice>>
     \/ /\ cont[th[t].cont] # "SUCCESS"
        /\ Free({th[t].cont})
        /\ twice' = TRUE
  /\ Done(t)
  /\ UNCHANGED <<ctrl, port, mutex, owed, list, cont, queue, link, files, task>>

\* A request that was rejected or answered, an event that was handed out.
FreeIoContainer(t) ==
  /\ At(t, "free")
  /\ Free({th[t].cont})
  /\ IF th[t].cmd = "CLOSE_CTRL"
     THEN th' = [th EXCEPT ![t].pc = "lock", ![t].cont = None]
     ELSE Done(t)
  /\ UNCHANGED <<dev, list, cont, queue, link, files, task>>

(****************************************************************************)
(* Events.                                                                  *)
(****************************************************************************)
GetEvent(t, f, c) ==
  /\ MayCall(t, f, "GETEVENT")
  /\ c \in list[SideOf(f)]
  /\ list' = [list EXCEPT ![SideOf(f)] = @ \ {c}]
  /\ Enter(t, f, "GETEVENT", "free", c)
  /\ UNCHANGED <<dev, pool, queue, link, files, task>>

(****************************************************************************)
(* The CNL task.                                                            *)
(****************************************************************************)
InWindow(c) == \E t \in Threads : th[t].cont = c /\ th[t].pc \in {"added", "look"}

\* CNLFIT_asyncCbk: the container of the request becomes that of its completion.
AsyncCbk(c, side, status) ==
  /\ c \in queue[side]
  /\ queue' = [queue EXCEPT ![side] = @ \ {c}]
  /\ cont' = [cont EXCEPT ![c] = IF InWindow(c) THEN status ELSE @]
  /\ Append(c, side)
  /\ UNCHANGED <<dev, free, link, files, th, task>>

Complete(c, side, status) == task.pc = "idle" /\ AsyncCbk(c, side, status)

\* Every data request is answered when the link is lost, before the upper layer is told.
Purge(c, side) == task.pc = "purge" /\ AsyncCbk(c, side, "ERROR")

PurgeDone ==
  /\ task.pc = "purge" /\ Queued = {}
  /\ IF task.caller = None
     THEN task' = [TaskIdle EXCEPT !.pc = "event"] /\ UNCHANGED th
     ELSE task' = TaskIdle /\ Goto(task.caller, "free")
  /\ UNCHANGED <<dev, list, pool, queue, link, files>>

\* The core has something to tell: a connection, power saving, an error.
Indicate ==
  /\ task.pc = "idle" /\ ctrl = "ACTIVE"
  /\ task' = [TaskIdle EXCEPT !.pc = "event"]
  /\ UNCHANGED <<dev, list, pool, queue, link, files, th>>

LinkLost ==
  /\ task.pc = "idle" /\ link = "CONNECTED"
  /\ link' = "SEARCH"
  /\ task' = [TaskIdle EXCEPT !.pc = "purge"]
  /\ UNCHANGED <<dev, list, pool, queue, files, th>>

\* CNLFIT_eventCbk: the CNL task itself waits for a container.
EventCbk(c) ==
  /\ task.pc = "event"
  /\ Alloc(c)
  /\ Append(c, "ctrl")
  /\ task' = TaskIdle
  /\ UNCHANGED <<dev, queue, link, files, th>>

\* A blocking request is answered; a connection attempt may fail.
Answer(t) ==
  /\ task.pc = "idle" /\ At(t, "wait")
  /\ IF th[t].cmd = "CONNECT"
     THEN /\ link' \in {link, "CONNECTED"}
          /\ Goto(t, "free")
          /\ UNCHANGED task
     ELSE /\ link' = "SEARCH"
          /\ task' = [pc |-> "purge", caller |-> t]
          /\ UNCHANGED th
  /\ UNCHANGED <<dev, list, pool, queue, files>>

Next ==
  \/ \E f \in Files : OpenCtrl(f) \/ OpenAdpt(f)
  \/ \E t \in Threads, f \in files :
       \/ CloseCtrl(t, f) \/ CloseAdpt(t, f)
       \/ EnablePort(t, f) \/ DisablePort(t, f) \/ DisableComp(t, f)
       \/ \E cmd \in SyncCmds \cup DataCmds : Call(t, f, cmd)
       \/ \E c \in Conts : GetEvent(t, f, c)
  \/ \E t \in Threads :
       \/ CtrlClosed(t) \/ AdptClosed(t) \/ Interrupt(t)
       \/ CheckRequest(t) \/ AddData(t) \/ Accepted(t) \/ LookAtStatus(t)
       \/ FreeIoContainer(t) \/ Answer(t)
       \/ \E c \in Conts : AllocIoContainer(t, c) \/ AddPortEvent(t, c)
  \/ \E c \in Conts, side \in Sides :
       Purge(c, side) \/ \E status \in {"SUCCESS", "ERROR"} : Complete(c, side, status)
  \/ \E c \in Conts : EventCbk(c)
  \/ PurgeDone \/ Indicate \/ LinkLost

Spec == Init /\ [][Next]_vars

(****************************************************************************)
(* What is asked of the fitting.                                            *)
(****************************************************************************)
Pcs == {"idle", "alloc", "check", "wait", "add", "added", "look", "free",
        "lock", "clear"}

TypeOK ==
  /\ ctrl \in {"READY", "ACTIVE"}
  /\ port \in {"DISABLED", "READY", "ACTIVE", "SUSPENDING"}
  /\ mutex \in Threads \cup {None}
  /\ list \in [Sides -> SUBSET Conts]
  /\ cont \in [Conts -> {"SUCCESS", "ERROR"}]
  /\ free \subseteq Conts /\ queue \in [Sides -> SUBSET Conts]
  /\ link \in {"SEARCH", "CONNECTED"}
  /\ files \subseteq Files
  /\ th \in [Threads -> [pc : Pcs, cmd : {"NONE"} \cup Allowed("ctrl") \cup AdptCmds
                                         \cup Releases,
                         file : Files \cup {None}, cont : Conts \cup {None}]]
  /\ task \in [pc : {"idle", "purge", "event"}, caller : Threads \cup {None}]
  /\ owed \in Nat
  /\ twice \in BOOLEAN

\* The containers a thread alone may use.
Holding == {"check", "wait", "add", "free"}
Held == {th[t].cont : t \in {u \in Threads : th[u].pc \in Holding}}

\* Everything else that owns containers.
Owners == <<free, queue["ctrl"], queue["adpt"], list["ctrl"], list["adpt"], Held>>

OwnersApart ==
  /\ \A i, j \in 1..6 : i # j => Owners[i] \cap Owners[j] = {}
  /\ \A t, u \in Threads :
       th[t].pc \in Holding /\ th[u].pc \in Holding /\ th[t].cont = th[u].cont => t = u

\* A container has one owner (the pool, the queues of the core, the list of one side or
\* one thread) until a call gives back the container of a request that was queued.  That
\* is the only step that breaks it: completions that come before the call is over,
\* closing files with events in their lists, purges and signals do not.
OneOwner == ~twice => OwnersApart

\* cnlfit_cnl.c:230, "re-use IO_CONTAINER.": the completion of a request takes its
\* container over, so it is nobody else's from then on.  The call that queued the request
\* still looks at the status, and frees the container when that is an error.
ReuseIsSafe == OwnersApart

Lost == {c \in Conts : \A i \in 1..6 : c \notin Owners[i]}

\* cnlfit_cnl.c:827, "ERR_NOMEM (memory or resource is depleted)": an empty pool is an
\* error, not something the CNL task waits for that only the CNL task could end.  Unless a
\* container was lost, there is an event to take or a call that ends without the task: of
\* one that waits for its answer the command alarm is the end.
PoolNeverLocked ==
  task.pc = "event" /\ free = {} =>
    \/ list["ctrl"] # {} \/ list["adpt"] # {}
    \/ \E t \in Threads : th[t].pc \in {"check", "wait", "add", "added", "look", "free"}
    \/ Lost # {}

\* A port that is active belongs to an open file, also when a second file was opened
\* after the port was suspended under the first and enabled again.
PortInUse == port = "ACTIVE" => files \cap AdptFiles # {}

\* For every disabling of the port that was accepted the controller is told once that
\* it is done, whether the adapter confirms or closes.
DisablingToldOnce == owed = IF port = "SUSPENDING" THEN 1 ELSE 0
=============================================================================

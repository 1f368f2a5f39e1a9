-------------------------------- MODULE IoFit --------------------------------
(****************************************************************************)
(* The character device (io/fitting/cnlio_fit.c): one file of it, used by    *)
(* several threads.  A data request outlives the ioctl that makes it: its     *)
(* argument box and a buffer from a pool stay on the list "async" of the file *)
(* until an ioctl GETEVENT takes its completion, perhaps before the first     *)
(* ioctl is over.  A thread may sleep in poll meanwhile.                      *)
(*                                                                          *)
(* A box is named by the id of its request, which the application does not    *)
(* use twice at a time.  The fitting below is reduced to the data requests    *)
(* the core holds and the list of events of this file.  Requests that are     *)
(* answered within their ioctl keep their box to themselves and are left out. *)
(****************************************************************************)
EXTENDS Integers, FiniteSets

CONSTANTS
  Threads,  \* threads that call ioctl on the file
  Reqs,     \* ids of data requests, and their boxes
  Bufs,     \* CNLFIT_TXRX_MPL_ID: the pool of data buffers
  None      \* no request or buffer

Other == "event"   \* an event that completes no data request

ASSUME IoAssumption ==
  /\ None \notin Reqs \cup Bufs
  /\ Other \notin Reqs
  /\ IsFiniteSet(Reqs)

VARIABLES
  opened,   \* is the file open?
  live,     \* boxes that are allocated
  buf,      \* the buffer of a request
  sema,     \* pBox->sema is held
  async,    \* pfitPriv->async
  spare,    \* the pool of buffers
  core,     \* data requests the core holds
  events,   \* ioMgr.eventList, a completion by its request
  stopped,  \* ioMgr.stopped
  th,       \* the threads
  task,     \* the CNL task: idle, or about to call back
  poller,   \* the thread in poll
  mistaken  \* history: was a request that the core had queued taken for a failed one?

vars == <<opened, live, buf, sema, async, spare, core, events, stopped, th, task,
          poller, mistaken>>
boxes   == <<live, buf, sema, async, spare>>
fitting == <<core, events, stopped>>
waiter  == <<task, poller>>
file    == <<opened, mistaken>>

Idle == [pc |-> "idle", req |-> None]
NoPoll == [pc |-> "out", woken |-> FALSE]

Init ==
  /\ opened = FALSE
  /\ live = {} /\ async = {} /\ spare = Bufs
  /\ buf = [r \in Reqs |-> None]
  /\ sema = [r \in Reqs |-> FALSE]
  /\ core = {} /\ events = {} /\ stopped = FALSE
  /\ th = [t \in Threads |-> Idle]
  /\ task = "idle"
  /\ poller = NoPoll
  /\ mistaken = FALSE

At(t, pc) == th[t].pc = pc
Goto(t, pc) == th' = [th EXCEPT ![t].pc = pc]
Enter(t, pc, r) == th' = [th EXCEPT ![t] = [pc |-> pc, req |-> r]]
Done(t) == th' = [th EXCEPT ![t] = Idle]

Used(r) == \E t \in Threads : th[t].req = r

\* Mutant: the buffer is forgotten.
MutFreeBoxes(rs) ==
  /\ live' = live \ rs
  /\ UNCHANGED <<spare, buf>>
\* CMN_releaseFixedMemPool of the buffer, kfree of the box.  Who still has the box, or the
\* core, still has the address of the buffer.
FreeBoxes(rs) ==
  /\ live' = live \ rs
  /\ spare' = spare \cup {buf[r] : r \in rs}
  /\ UNCHANGED buf

(****************************************************************************)
(* Opening and releasing the file.                                          *)
(****************************************************************************)
\* Events left by an earlier file are forgotten (cnlfit.c).
Open ==
  /\ ~opened
  /\ opened' = TRUE
  /\ events' = {} /\ stopped' = FALSE
  /\ UNCHANGED <<mistaken, boxes, core, th, waiter>>

\* The kernel releases a file when no call on it is under way.  The requests that
\* the core still holds lose their boxes and buffers, and the port is closed.
Release ==
  /\ opened
  /\ \A t \in Threads : At(t, "idle")
  /\ poller = NoPoll
  /\ FreeBoxes(async)
  /\ async' = {}
  /\ opened' = FALSE
  /\ UNCHANGED <<mistaken, sema, fitting, th, waiter>>

(****************************************************************************)
(* A data request.                                                          *)
(****************************************************************************)
\* The caller waits while there is no buffer.
PreProc(t, r, b) ==
  /\ opened /\ At(t, "idle")
  /\ r \notin live \cup core \cup events /\ ~Used(r)
  /\ b \in spare
  /\ live' = live \cup {r} /\ async' = async \cup {r}
  /\ buf' = [buf EXCEPT ![r] = b]
  /\ spare' = spare \ {b}
  /\ sema' = [sema EXCEPT ![r] = TRUE]
  /\ Enter(t, "ctrl", r)
  /\ UNCHANGED <<file, fitting, waiter>>

\* CNLFIT_ctrl: the core queues the request, or an error comes back, or the request was
\* refused though SUCCESS comes back, with the status the application had put there.
Ctrl(t) ==
  /\ At(t, "ctrl")
  /\ \/ core' = core \cup {th[t].req} /\ Goto(t, "queued")
     \/ UNCHANGED core /\ \E pc \in {"error", "failed", "post"} : Goto(t, pc)
  /\ UNCHANGED <<file, boxes, events, stopped, waiter>>

\* CNLFIT_cnlSendData, CNLFIT_cnlRecvData: the status of the request is looked at after it
\* was queued.  If it was completed by then, with an error, it goes on as one that was
\* refused: SUCCESS comes back with the status of the application.
LookAtStatus(t) ==
  /\ At(t, "queued")
  /\ \/ /\ Goto(t, "post")
        /\ UNCHANGED mistaken
     \/ /\ th[t].req \notin core
        /\ Goto(t, "failed")
        /\ mistaken' = TRUE
  /\ UNCHANGED <<opened, boxes, fitting, waiter>>

\* Mutant: the box is not released for the ioctl that takes the completion.
MutPostProc(t) ==
  /\ At(t, "post")
  /\ Done(t)
  /\ UNCHANGED <<file, boxes, fitting, waiter>>
\* CNLIO_fitIoctlPostProc without an error: the application is told CNLWRAP_REQ_PENDING,
\* the box is kept.
PostProc(t) ==
  /\ At(t, "post")
  /\ sema' = [sema EXCEPT ![th[t].req] = FALSE]
  /\ Done(t)
  /\ UNCHANGED <<file, live, buf, async, spare, fitting, waiter>>

\* CNLIO_fitCmdFinisher with an error.  The box is unlocked before it is freed when the
\* error is in its status only.
Finish(t) ==
  /\ th[t].pc \in {"error", "failed"}
  /\ async' = async \ {th[t].req}
  /\ FreeBoxes({th[t].req})
  /\ sema' = [sema EXCEPT ![th[t].req] = At(t, "error")]
  /\ Done(t)
  /\ UNCHANGED <<file, fitting, waiter>>

(****************************************************************************)
(* Taking an event.                                                         *)
(****************************************************************************)
GetEvent(t, e) ==
  /\ opened /\ At(t, "idle")
  /\ e \in events
  /\ events' = events \ {e}
  /\ IF e = Other THEN UNCHANGED th ELSE Enter(t, "search", e)
  /\ UNCHANGED <<file, boxes, core, stopped, waiter>>

SearchAsyncBox(t) ==
  /\ At(t, "search")
  /\ IF th[t].req \in async
     THEN async' = async \ {th[t].req} /\ Goto(t, "box")
     ELSE UNCHANGED async /\ Done(t)
  /\ UNCHANGED <<file, live, buf, sema, spare, fitting, waiter>>

\* Mutant: the box is not waited for.
MutTakeBox(t) ==
  /\ At(t, "box")
  /\ FreeBoxes({th[t].req})
  /\ Done(t)
  /\ UNCHANGED <<file, sema, async, fitting, waiter>>
\* The box is waited for until the ioctl that made it is over.
TakeBox(t) ==
  /\ At(t, "box") /\ ~sema[th[t].req]
  /\ FreeBoxes({th[t].req})
  /\ Done(t)
  /\ UNCHANGED <<file, sema, async, fitting, waiter>>

(****************************************************************************)
(* Waiting for an event.                                                    *)
(****************************************************************************)
\* A poller that is woken before it sleeps looks again.
Wake == poller' = CASE poller.pc = "out"                -> poller
                    [] poller.pc \in {"look", "looked"} -> [poller EXCEPT !.woken = TRUE]
                    [] poller.pc = "asleep"             -> [poller EXCEPT !.pc = "look"]

\* poll_wait: the poller is known to the wait queue before it looks.
Poll ==
  /\ opened /\ poller = NoPoll
  /\ poller' = [NoPoll EXCEPT !.pc = "look"]
  /\ UNCHANGED <<file, boxes, fitting, th, task>>

SearchEvent ==
  /\ poller.pc = "look"
  /\ poller' = IF stopped \/ events # {} THEN NoPoll ELSE [poller EXCEPT !.pc = "looked"]
  /\ UNCHANGED <<file, boxes, fitting, th, task>>

Sleep ==
  /\ poller.pc = "looked"
  /\ poller' = [pc |-> IF poller.woken THEN "look" ELSE "asleep", woken |-> FALSE]
  /\ UNCHANGED <<file, boxes, fitting, th, task>>

StopEvent(t) ==
  /\ opened /\ At(t, "idle") /\ ~stopped
  /\ stopped' = TRUE
  /\ Goto(t, "stop")
  /\ UNCHANGED <<file, boxes, core, events, waiter>>

NotifyStop(t) ==
  /\ At(t, "stop")
  /\ Wake
  /\ Done(t)
  /\ UNCHANGED <<file, boxes, fitting, task>>

(****************************************************************************)
(* The CNL task: an event is appended, then the file is called back.        *)
(****************************************************************************)
Append(e) == task = "idle" /\ events' = events \cup {e} /\ task' = "notify"

AsyncCbk(r) ==
  /\ r \in core
  /\ core' = core \ {r}
  /\ Append(r)
  /\ UNCHANGED <<file, boxes, stopped, th, poller>>

EventCbk ==
  /\ opened
  /\ Append(Other)
  /\ UNCHANGED <<file, boxes, core, stopped, th, poller>>

\* Mutant: nobody is woken.
MutNotifyEvent ==
  /\ task = "notify"
  /\ task' = "idle"
  /\ UNCHANGED <<file, boxes, fitting, th, poller>>
NotifyEvent ==
  /\ task = "notify"
  /\ task' = "idle"
  /\ Wake
  /\ UNCHANGED <<file, boxes, fitting, th>>

Next ==
  \/ Open \/ Release \/ Poll \/ SearchEvent \/ Sleep \/ EventCbk \/ NotifyEvent
  \/ \E t \in Threads :
       \/ \E r \in Reqs, b \in Bufs : PreProc(t, r, b)
       \/ Ctrl(t) \/ LookAtStatus(t) \/ PostProc(t) \/ Finish(t)
       \/ \E e \in events : GetEvent(t, e)
       \/ SearchAsyncBox(t) \/ TakeBox(t) \/ StopEvent(t) \/ NotifyStop(t)
  \/ \E r \in core : AsyncCbk(r)

\* A thread that is in the driver goes on.
Fairness == \A t \in Threads :
  /\ WF_vars(Ctrl(t)) /\ WF_vars(LookAtStatus(t)) /\ WF_vars(PostProc(t))
  /\ WF_vars(TakeBox(t))

Spec == Init /\ [][Next]_vars
FairSpec == Spec /\ Fairness

(****************************************************************************)
(* What is asked of the character device.                                   *)
(****************************************************************************)
ThreadPcs == {"idle", "ctrl", "queued", "post", "error", "failed", "search", "box", "stop"}

TypeOK ==
  /\ opened \in BOOLEAN /\ stopped \in BOOLEAN /\ mistaken \in BOOLEAN
  /\ live \subseteq Reqs /\ async \subseteq Reqs /\ core \subseteq Reqs
  /\ events \subseteq Reqs \cup {Other}
  /\ buf \in [Reqs -> Bufs \cup {None}]
  /\ sema \in [Reqs -> BOOLEAN]
  /\ spare \subseteq Bufs
  /\ th \in [Threads -> [pc : ThreadPcs, req : Reqs \cup {None}]]
  /\ task \in {"idle", "notify"}
  /\ poller \in [pc : {"out", "look", "looked", "asleep"}, woken : BOOLEAN]

Issuing == {"ctrl", "queued", "post", "error", "failed"}

\* The ioctl that made a data request and the one that takes its completion use the same
\* box; neither uses it, and no list refers to it, once the other has freed it
\* (CNLIO_fitIoctl, CNLIO_fitIoctlPostProc).  Completions may come before the call is
\* over: what breaks this is only a call that takes its request for a failed one.
BoxesThere ==
  /\ async \subseteq live
  /\ \A t \in Threads : th[t].pc \in Issuing \cup {"box"} => th[t].req \in live
NoUseOfFreedBox == ~mistaken => BoxesThere

\* A buffer is in the pool or belongs to one request that is not over: it is neither
\* lost nor released twice, whoever ends the request, the ioctl that made it, the one
\* that takes its completion or the release of the file; with the same exception.
BuffersApart ==
  /\ \A r \in live : buf[r] \in Bufs \ spare
  /\ \A r, s \in live : buf[r] = buf[s] => r = s
  /\ \A b \in Bufs \ spare : \E r \in live : buf[r] = b
BuffersKept == ~mistaken => BuffersApart

\* cnlio_fit.c:996, "DataRequest failed, remove from async queue and free data buffer.": a
\* request that failed is in the queue when it is removed from it, and its box and its
\* buffer are its own.
FailedIsQueued == \A t \in Threads : th[t].pc \in {"error", "failed"} => th[t].req \in async

\* A thread does not sleep in poll while there is an event to take or waiting was
\* stopped, unless the callback that wakes it is still to come.
PollNotLost ==
  poller.pc = "asleep" /\ (events # {} \/ stopped) =>
    task = "notify" \/ \E t \in Threads : th[t].pc = "stop"

\* An ioctl that took a completion comes to its end: the box it waits for is released
\* by the ioctl that made the request.
CompletionTaken == \A t \in Threads : At(t, "box") ~> ~At(t, "box") \/ mistaken

\* cnlio_fit.c:1009, "success to request.": the box of a request is kept after the ioctl
\* that made it only if the completion of the request is still to come.
PendingIsKnown == \A r \in live : sema[r] \/ r \in core \cup events \/ Used(r)

\* cnlfit.c:333, "force clear all data request.": when a file was released the core has no
\* request whose buffer went back to the pool.  The code clears none.
RequestsCleared == \A r \in core : buf[r] \notin spare
=============================================================================

----------------------------- MODULE IoFitProofs -----------------------------
(****************************************************************************)
(* Theorems about the character device, for any number of threads, requests *)
(* and buffers.                                                              *)
(*                                                                          *)
(* The argument follows the completion of a request, of which there is at    *)
(* most one: it is in the core, in the list of events or with the one thread *)
(* that took it, and before the core accepted the request it is nowhere.     *)
(* Hence the ioctl that made the request and the one that takes its          *)
(* completion are the only ones that free its box, and never both, as long   *)
(* as the first does not take for a failed request what the core had queued. *)
(****************************************************************************)
EXTENDS IoFit, TLAPS

Getting == {"search", "box"}

\* The completion of r is nowhere outside the core.
NoCompletion(r) ==
  r \notin events /\ \A t \in Threads : th[t].req = r => th[t].pc \notin Getting

\* The ioctls that make requests: one for each, whose box is there and locked.
IssueInv ==
  /\ \A t \in Threads : th[t].pc \in Issuing \cup Getting => th[t].req \in Reqs
  /\ \A t, u \in Threads :
       th[t].pc \in Issuing /\ th[u].pc \in Issuing /\ th[t].req = th[u].req => t = u
  /\ \A t \in Threads : th[t].pc \in Issuing => sema[th[t].req] /\ th[t].req \in live
  /\ \A t \in Threads :
       th[t].pc \in {"ctrl", "error", "failed"} =>
         th[t].req \in async /\ th[t].req \notin core /\ NoCompletion(th[t].req)

\* One completion for each request.
CompletionInv ==
  /\ \A r \in core : NoCompletion(r)
  /\ \A t \in Threads : th[t].pc \in Getting => th[t].req \notin events
  /\ \A t, u \in Threads :
       th[t].pc \in Getting /\ th[u].pc \in Getting /\ th[t].req = th[u].req => t = u

\* A box is on the list of the file, or one thread has taken it off to free it.
BoxInv ==
  /\ async \subseteq live
  /\ \A t \in Threads : th[t].pc = "box" => th[t].req \in live \ async
  /\ \A r \in live \ async : \E t \in Threads : th[t].pc = "box" /\ th[t].req = r

Sound == IssueInv /\ CompletionInv /\ BoxInv /\ BuffersApart

\* Whatever is freed when, a thread that has a box has the address of a buffer.
AddressInv ==
  /\ \A t \in Threads : th[t].pc \in Issuing \cup Getting => th[t].req \in Reqs
  /\ \A t \in Threads : th[t].pc \in Issuing \cup {"box"} => buf[th[t].req] \in Bufs
  /\ \A r \in async : buf[r] \in Bufs

IInv == TypeOK /\ AddressInv /\ (~mistaken => Sound)

LEMMA InitInv == Init => IInv
<1> SUFFICES ASSUME Init PROVE IInv
  OBVIOUS
<1>1. \A t \in Threads : th[t].pc = "idle"
  BY DEF Init, Idle
<1>2. TypeOK
  BY DEF Init, TypeOK, Idle, NoPoll, ThreadPcs
<1>3. IssueInv /\ CompletionInv
  BY <1>1 DEF Init, IssueInv, CompletionInv, Issuing, Getting
<1>4. BoxInv /\ BuffersApart
  BY <1>1 DEF Init, BoxInv, BuffersApart
<1>5. AddressInv
  BY <1>1 DEF Init, AddressInv, Issuing, Getting
<1> QED
  BY <1>2, <1>3, <1>4, <1>5 DEF IInv, Sound

USE IoAssumption DEF file

(****************************************************************************)
(* What one thread does changes the invariant only by its new place.        *)
(****************************************************************************)
\* Freeing boxes gives their buffers back, each once.
LEMMA FreeBoxesKeep ==
  ASSUME TypeOK, BuffersApart, NEW rs, rs \subseteq live, FreeBoxes(rs)
  PROVE  live' = live \ rs /\ buf' = buf /\ BuffersApart'
<1>1. /\ live' = live \ rs /\ buf' = buf
      /\ \A b : b \in spare' <=> b \in spare \/ \E r \in rs : b = buf[r]
  BY DEF FreeBoxes, TypeOK
<1>2. \A r \in live : buf[r] \in Bufs \ spare
  BY DEF BuffersApart
<1>3. \A r, s \in live : buf[r] = buf[s] => r = s
  BY DEF BuffersApart
<1>4. \A r \in live' : buf'[r] \in Bufs \ spare'
  BY <1>1, <1>2, <1>3
<1>5. \A b \in Bufs \ spare' : \E r \in live' : buf'[r] = b
  BY <1>1 DEF BuffersApart
<1> QED
  BY <1>1, <1>3, <1>4, <1>5 DEF BuffersApart

\* Steps of the poller, and callbacks to the file.
LEMMA WaitingStep ==
  ASSUME TypeOK, Sound, UNCHANGED <<boxes, fitting, th>>
  PROVE  Sound'
  BY DEF Sound, IssueInv, CompletionInv, BoxInv, BuffersApart, boxes, fitting, NoCompletion

\* Opening forgets events, releasing frees every box: no thread is in the driver.
LEMMA OpenStep == ASSUME TypeOK, Sound, Open PROVE Sound'
<1>2. IssueInv' /\ CompletionInv'
  BY DEF Sound, IssueInv, CompletionInv, NoCompletion, Open, boxes, waiter
<1>3. BoxInv' /\ BuffersApart'
  BY DEF Sound, BoxInv, BuffersApart, Open, boxes, waiter
<1> QED
  BY <1>2, <1>3 DEF Sound

LEMMA ReleaseStep == ASSUME TypeOK, Sound, Release PROVE Sound'
<1>1. /\ \A t \in Threads : th[t].pc = "idle"
      /\ UNCHANGED <<sema, core, events, stopped, th, task, poller>>
      /\ async' = {} /\ opened' = FALSE
  BY DEF Release, At, fitting, waiter
<1>2. live = async
  BY <1>1 DEF Sound, BoxInv
<1>3. /\ live' = live \ async /\ BuffersApart'
  BY <1>2, FreeBoxesKeep DEF Sound, Release
<1>4. live' = {}
  BY <1>2, <1>3
<1>6. IssueInv' /\ CompletionInv'
  BY <1>1 DEF Sound, IssueInv, CompletionInv, NoCompletion, Issuing, Getting
<1>7. BoxInv'
  BY <1>1, <1>4 DEF BoxInv
<1> QED
  BY <1>3, <1>6, <1>7 DEF Sound

(****************************************************************************)
(* The ioctl that makes a request.                                          *)
(****************************************************************************)
LEMMA PreProcStep ==
  ASSUME TypeOK, Sound, NEW t \in Threads, NEW r \in Reqs, NEW b \in Bufs, PreProc(t, r, b)
  PROVE  Sound'
<1>1. /\ th[t].pc = "idle" /\ r \notin live \cup core \cup events /\ b \in spare
      /\ \A u \in Threads : th[u].req # r
      /\ live' = live \cup {r} /\ async' = async \cup {r} /\ spare' = spare \ {b}
      /\ UNCHANGED <<opened, core, events, stopped, task, poller>>
  BY DEF PreProc, At, Used, fitting, waiter
<1>2. /\ th'[t] = [pc |-> "ctrl", req |-> r]
      /\ \A u \in Threads \ {t} : th'[u] = th[u]
  BY DEF PreProc, Enter, Sound, TypeOK
<1>3. /\ buf'[r] = b /\ sema'[r]
      /\ \A s \in Reqs \ {r} : buf'[s] = buf[s] /\ sema'[s] = sema[s]
  BY Zenon DEF PreProc, Sound, TypeOK
<1>5. IssueInv'
  BY <1>1, <1>2, <1>3 DEF Sound, IssueInv, NoCompletion, Issuing, Getting, BoxInv, TypeOK
<1>6. CompletionInv'
  BY <1>1, <1>2 DEF Sound, CompletionInv, NoCompletion, Getting
<1>7. BoxInv'
  BY <1>1, <1>2 DEF Sound, BoxInv
<1>8. BuffersApart'
  BY <1>1, <1>3 DEF Sound, BuffersApart, TypeOK
<1> QED
  BY <1>5, <1>6, <1>7, <1>8 DEF Sound

LEMMA CtrlStep == ASSUME TypeOK, Sound, NEW t \in Threads, Ctrl(t) PROVE Sound'
<1>0. /\ th[t].pc = "ctrl"
      /\ UNCHANGED <<opened, live, buf, sema, async, spare, events, stopped, task, poller>>
  BY DEF Ctrl, At, boxes, waiter
<1>1. PICK pc \in {"queued", "post", "error", "failed"} :
        /\ th' = [th EXCEPT ![t].pc = pc]
        /\ \/ core' = core /\ pc # "queued"
           \/ core' = core \cup {th[t].req} /\ pc = "queued"
  BY DEF Ctrl, Goto
<1>2. /\ th'[t].pc = pc /\ th'[t].req = th[t].req
      /\ \A u \in Threads \ {t} : th'[u] = th[u]
  BY <1>1 DEF Sound, TypeOK
<1>4. IssueInv'
  BY <1>0, <1>1, <1>2 DEF Sound, IssueInv, NoCompletion, Issuing, Getting
<1>5. CompletionInv'
  BY <1>0, <1>1, <1>2 DEF Sound, CompletionInv, IssueInv, NoCompletion, Getting
<1>6. BoxInv'
  BY <1>0, <1>1, <1>2 DEF Sound, BoxInv
<1>7. BuffersApart'
  BY <1>0 DEF Sound, BuffersApart
<1> QED
  BY <1>4, <1>5, <1>6, <1>7 DEF Sound

\* What is not taken for a failed request goes on as it is.
LEMMA LookAtStatusStep ==
  ASSUME TypeOK, Sound, NEW t \in Threads, LookAtStatus(t), ~mistaken'
  PROVE  Sound'
<1>1. /\ th[t].pc = "queued" /\ th' = [th EXCEPT ![t].pc = "post"]
      /\ UNCHANGED <<live, buf, sema, async, spare, core, events>>
  BY DEF LookAtStatus, At, Goto, boxes, fitting
<1>2. /\ th'[t].pc = "post" /\ th'[t].req = th[t].req
      /\ \A u \in Threads \ {t} : th'[u] = th[u]
  BY <1>1 DEF TypeOK
<1>3. IssueInv'
  BY <1>1, <1>2 DEF Sound, IssueInv, NoCompletion, Issuing, Getting
<1>4. CompletionInv'
  BY <1>1, <1>2 DEF Sound, CompletionInv, NoCompletion, Getting
<1>5. BoxInv' /\ BuffersApart'
  BY <1>1, <1>2 DEF Sound, BoxInv, BuffersApart
<1> QED
  BY <1>3, <1>4, <1>5 DEF Sound

LEMMA PostProcStep == ASSUME TypeOK, Sound, NEW t \in Threads, PostProc(t) PROVE Sound'
<1>1. /\ th[t].pc = "post" /\ th[t].req \in Reqs
      /\ UNCHANGED <<opened, live, buf, async, spare, core, events, stopped, task, poller>>
  BY DEF PostProc, At, fitting, waiter, Sound, IssueInv, Issuing
<1>2. /\ th'[t] = Idle
      /\ \A u \in Threads \ {t} : th'[u] = th[u]
  BY DEF PostProc, Done, Sound, TypeOK
<1>3. \A s \in Reqs \ {th[t].req} : sema'[s] = sema[s]
  BY Zenon DEF PostProc, Sound, TypeOK
<1>5. IssueInv'
  BY <1>1, <1>2, <1>3 DEF Sound, IssueInv, NoCompletion, Issuing, Getting, Idle
<1>6. CompletionInv'
  BY <1>1, <1>2 DEF Sound, CompletionInv, NoCompletion, Getting, Idle
<1>7. BoxInv'
  BY <1>1, <1>2 DEF Sound, BoxInv, Idle
<1>8. BuffersApart'
  BY <1>1 DEF Sound, BuffersApart
<1> QED
  BY <1>5, <1>6, <1>7, <1>8 DEF Sound

LEMMA FinishStep == ASSUME TypeOK, Sound, NEW t \in Threads, Finish(t) PROVE Sound'
<1> DEFINE r == th[t].req
<1>1. /\ th[t].pc \in {"error", "failed"} /\ r \in async /\ r \in live /\ r \in Reqs
      /\ async' = async \ {r}
      /\ UNCHANGED <<opened, core, events, stopped, task, poller>>
  BY DEF Finish, fitting, waiter, Sound, IssueInv, Issuing
<1>2. /\ th'[t] = Idle
      /\ \A u \in Threads \ {t} : th'[u] = th[u]
  BY DEF Finish, Done, Sound, TypeOK
<1>3. live' = live \ {r} /\ BuffersApart'
  BY <1>1, FreeBoxesKeep DEF Sound, Finish
<1>4. \A s \in Reqs \ {r} : sema'[s] = sema[s]
  BY Zenon DEF Finish, TypeOK
<1>5. IssueInv'
  BY <1>1, <1>2, <1>3, <1>4 DEF Sound, IssueInv, NoCompletion, Issuing, Getting, Idle
<1>6. CompletionInv'
  BY <1>1, <1>2 DEF Sound, CompletionInv, NoCompletion, Getting, Idle
<1>7. BoxInv'
  BY <1>1, <1>2, <1>3 DEF Sound, BoxInv, IssueInv, NoCompletion, Getting, Idle
<1> QED
  BY <1>3, <1>5, <1>6, <1>7 DEF Sound

(****************************************************************************)
(* The ioctl that takes an event.                                           *)
(****************************************************************************)
LEMMA GetEventStep ==
  ASSUME TypeOK, Sound, NEW t \in Threads, NEW e \in events, GetEvent(t, e)
  PROVE  Sound'
<1>1. /\ th[t].pc = "idle" /\ events' = events \ {e}
      /\ UNCHANGED <<opened, live, buf, sema, async, spare, core, stopped, task, poller>>
  BY DEF GetEvent, At, boxes, waiter
<1>2. CASE e = Other
  <2>1. th' = th
    BY <1>2 DEF GetEvent
  <2>3. IssueInv' /\ CompletionInv'
    BY <1>1, <2>1 DEF Sound, IssueInv, CompletionInv, NoCompletion
  <2>4. BoxInv' /\ BuffersApart'
    BY <1>1, <2>1 DEF Sound, BoxInv, BuffersApart
  <2> QED
    BY <2>3, <2>4 DEF Sound
<1>3. CASE e # Other
  <2>1. /\ e \in Reqs /\ e \notin core /\ th'[t] = [pc |-> "search", req |-> e]
        /\ \A u \in Threads \ {t} : th'[u] = th[u]
    BY <1>3 DEF GetEvent, Enter, Sound, TypeOK, CompletionInv, NoCompletion
  <2>3. IssueInv'
    BY <1>1, <2>1 DEF Sound, IssueInv, NoCompletion, Issuing, Getting
  <2>4. CompletionInv'
    BY <1>1, <2>1 DEF Sound, CompletionInv, NoCompletion, Getting
  <2>5. BoxInv'
    BY <1>1, <2>1 DEF Sound, BoxInv
  <2>6. BuffersApart'
    BY <1>1 DEF Sound, BuffersApart
  <2> QED
    BY <2>3, <2>4, <2>5, <2>6 DEF Sound
<1> QED
  BY <1>2, <1>3

LEMMA SearchStep == ASSUME TypeOK, Sound, NEW t \in Threads, SearchAsyncBox(t) PROVE Sound'
<1> DEFINE r == th[t].req
<1>1. /\ th[t].pc = "search" /\ r \in Reqs
      /\ UNCHANGED <<opened, live, buf, sema, spare, core, events, stopped, task, poller>>
      /\ \A u \in Threads : th[u].pc \in {"ctrl", "error", "failed"} => th[u].req # r
  BY DEF SearchAsyncBox, At, fitting, waiter, Sound, IssueInv, NoCompletion, Getting
<1>2. CASE r \in async
  <2>1. /\ async' = async \ {r} /\ th'[t].pc = "box" /\ th'[t].req = r
        /\ \A u \in Threads \ {t} : th'[u] = th[u]
    BY <1>2 DEF SearchAsyncBox, Goto, Sound, TypeOK
  <2>3. IssueInv'
    BY <1>1, <2>1 DEF Sound, IssueInv, NoCompletion, Issuing, Getting
  <2>4. CompletionInv'
    BY <1>1, <2>1 DEF Sound, CompletionInv, NoCompletion, Getting
  <2>5. BoxInv'
    BY <1>1, <1>2, <2>1 DEF Sound, BoxInv
  <2>6. BuffersApart'
    BY <1>1 DEF Sound, BuffersApart
  <2> QED
    BY <2>3, <2>4, <2>5, <2>6 DEF Sound
<1>3. CASE r \notin async
  <2>1. /\ async' = async /\ th'[t] = Idle
        /\ \A u \in Threads \ {t} : th'[u] = th[u]
    BY <1>3 DEF SearchAsyncBox, Done, Sound, TypeOK
  <2>3. IssueInv'
    BY <1>1, <2>1 DEF Sound, IssueInv, NoCompletion, Issuing, Getting, Idle
  <2>4. CompletionInv'
    BY <1>1, <2>1 DEF Sound, CompletionInv, NoCompletion, Getting, Idle
  <2>5. BoxInv'
    BY <1>1, <2>1 DEF Sound, BoxInv, Idle
  <2>6. BuffersApart'
    BY <1>1 DEF Sound, BuffersApart
  <2> QED
    BY <2>3, <2>4, <2>5, <2>6 DEF Sound
<1> QED
  BY <1>2, <1>3

\* No ioctl uses the box that is freed: its lock is not held.
LEMMA TakeBoxStep == ASSUME TypeOK, Sound, NEW t \in Threads, TakeBox(t) PROVE Sound'
<1> DEFINE r == th[t].req
<1>1. /\ th[t].pc = "box" /\ r \in live \ async /\ r \in Reqs /\ ~sema[r]
      /\ UNCHANGED <<opened, sema, async, core, events, stopped, task, poller>>
  BY DEF TakeBox, At, fitting, waiter, Sound, BoxInv, TypeOK
<1>2. /\ th'[t] = Idle
      /\ \A u \in Threads \ {t} : th'[u] = th[u]
  BY DEF TakeBox, Done, Sound, TypeOK
<1>3. /\ live' = live \ {r} /\ BuffersApart'
  BY <1>1, FreeBoxesKeep DEF Sound, TakeBox
<1>5. IssueInv'
  BY <1>1, <1>2, <1>3 DEF Sound, IssueInv, NoCompletion, Issuing, Getting, Idle
<1>6. CompletionInv'
  BY <1>1, <1>2 DEF Sound, CompletionInv, NoCompletion, Getting, Idle
<1>7. BoxInv'
  BY <1>1, <1>2, <1>3 DEF Sound, BoxInv, CompletionInv, Getting, Idle
<1> QED
  BY <1>3, <1>5, <1>6, <1>7 DEF Sound

(****************************************************************************)
(* The other steps.                                                         *)
(****************************************************************************)
LEMMA AsyncCbkStep == ASSUME TypeOK, Sound, NEW r \in core, AsyncCbk(r) PROVE Sound'
<1>1. /\ r \in Reqs /\ core' = core \ {r} /\ events' = events \cup {r}
      /\ task' = "notify"
      /\ UNCHANGED <<opened, live, buf, sema, async, spare, stopped, th, poller>>
  BY DEF AsyncCbk, Append, boxes, Sound, TypeOK
<1>3. IssueInv'
  BY <1>1 DEF Sound, IssueInv, NoCompletion, Issuing, Getting
<1>4. CompletionInv'
  BY <1>1 DEF Sound, CompletionInv, NoCompletion, Getting
<1>5. BoxInv' /\ BuffersApart'
  BY <1>1 DEF Sound, BoxInv, BuffersApart
<1> QED
  BY <1>3, <1>4, <1>5 DEF Sound

LEMMA EventCbkStep == ASSUME TypeOK, Sound, EventCbk PROVE Sound'
<1>1. /\ events' = events \cup {Other} /\ task' = "notify"
      /\ UNCHANGED <<opened, live, buf, sema, async, spare, core, stopped, th, poller>>
  BY DEF EventCbk, Append, boxes
<1>3. IssueInv' /\ CompletionInv'
  BY <1>1 DEF Sound, TypeOK, IssueInv, CompletionInv, NoCompletion, Issuing, Getting
<1>4. BoxInv' /\ BuffersApart'
  BY <1>1 DEF Sound, BoxInv, BuffersApart
<1> QED
  BY <1>3, <1>4 DEF Sound

\* The thread that stops waiting has no request.
LEMMA StopStep ==
  ASSUME TypeOK, Sound, NEW t \in Threads, StopEvent(t) \/ NotifyStop(t)
  PROVE  Sound'
<1>1. /\ UNCHANGED <<opened, live, buf, sema, async, spare, core, events, task>>
      /\ th[t].pc \in {"idle", "stop"}
  BY DEF StopEvent, NotifyStop, At, boxes, fitting, waiter
<1>2. /\ th'[t].pc \in {"idle", "stop"}
      /\ th'[t].req \in {th[t].req, None}
      /\ \A u \in Threads \ {t} : th'[u] = th[u]
  BY DEF StopEvent, NotifyStop, Goto, Done, Idle, Sound, TypeOK
<1>4. IssueInv'
  BY <1>1, <1>2 DEF Sound, IssueInv, NoCompletion, Issuing, Getting
<1>5. CompletionInv'
  BY <1>1, <1>2 DEF Sound, CompletionInv, NoCompletion, Getting
<1>6. BoxInv' /\ BuffersApart'
  BY <1>1, <1>2 DEF Sound, BoxInv, BuffersApart
<1> QED
  BY <1>4, <1>5, <1>6 DEF Sound

(****************************************************************************)
(* Types and addresses, whatever is freed when.                             *)
(****************************************************************************)
LEMMA WakeTypes ==
  ASSUME TypeOK, Wake
  PROVE  poller' \in [pc : {"out", "look", "looked", "asleep"}, woken : BOOLEAN]
  BY DEF TypeOK, Wake

\* What is freed goes back to the pool it came from.
LEMMA FreeBoxesTypes ==
  ASSUME TypeOK, NEW rs, rs \subseteq Reqs, \A r \in rs : buf[r] \in Bufs, FreeBoxes(rs)
  PROVE  live' \subseteq Reqs /\ spare' \subseteq Bufs /\ buf' = buf
  BY DEF FreeBoxes, TypeOK

\* The thread that took a step has a new place.
LEMMA ThreadTypes ==
  ASSUME TypeOK, NEW t \in Threads, NEW pc \in ThreadPcs, NEW r \in Reqs \cup {None}
  PROVE  /\ Goto(t, pc) => th' \in [Threads -> [pc : ThreadPcs, req : Reqs \cup {None}]]
         /\ Enter(t, pc, r) => th' \in [Threads -> [pc : ThreadPcs, req : Reqs \cup {None}]]
         /\ Done(t) => th' \in [Threads -> [pc : ThreadPcs, req : Reqs \cup {None}]]
  BY DEF TypeOK, Goto, Enter, Done, Idle, ThreadPcs

LEMMA PollerTypes ==
  ASSUME TypeOK, Poll \/ SearchEvent \/ Sleep \/ NotifyEvent
  PROVE  poller' \in [pc : {"out", "look", "looked", "asleep"}, woken : BOOLEAN]
<1>1. CASE Poll
  BY <1>1 DEF Poll, NoPoll
<1>2. CASE SearchEvent
  BY <1>2 DEF SearchEvent, NoPoll, TypeOK
<1>3. CASE Sleep
  BY <1>3 DEF Sleep
<1>4. CASE NotifyEvent
  BY <1>4, WakeTypes DEF NotifyEvent
<1> QED
  BY <1>1, <1>2, <1>3, <1>4

LEMMA TypesNext == ASSUME TypeOK, AddressInv, Next PROVE TypeOK'
<1> DEFINE Th == [Threads -> [pc : ThreadPcs, req : Reqs \cup {None}]]
<1>1. CASE Open \/ Release
  <2>1. CASE Open
    BY <2>1 DEF Open, TypeOK, boxes, waiter
  <2>2. CASE Release
    <3>1. live' \subseteq Reqs /\ spare' \subseteq Bufs /\ buf' = buf
      BY <2>2, FreeBoxesTypes DEF Release, AddressInv, TypeOK
    <3> QED
      BY <2>2, <3>1 DEF Release, TypeOK, fitting, waiter
  <2> QED
    BY <1>1, <2>1, <2>2
<1>2. CASE Poll \/ SearchEvent \/ Sleep \/ NotifyEvent
  <2>1. task' \in {"idle", "notify"} /\ UNCHANGED <<file, boxes, fitting, th>>
    BY <1>2 DEF Poll, SearchEvent, Sleep, NotifyEvent, TypeOK
  <2> QED
    BY <1>2, <2>1, PollerTypes DEF TypeOK, boxes, fitting
<1>3. CASE EventCbk \/ \E r \in core : AsyncCbk(r)
  BY <1>3 DEF EventCbk, AsyncCbk, Append, TypeOK, boxes
<1>4. ASSUME NEW t \in Threads, NEW r \in Reqs, NEW b \in Bufs, PreProc(t, r, b)
      PROVE  TypeOK'
  <2>1. th' \in Th
    BY <1>4, ThreadTypes DEF PreProc, ThreadPcs
  <2>2. buf' \in [Reqs -> Bufs \cup {None}]
    BY <1>4 DEF PreProc, TypeOK
  <2>3. sema' \in [Reqs -> BOOLEAN]
    BY <1>4, Zenon DEF PreProc, TypeOK
  <2> QED
    BY <1>4, <2>1, <2>2, <2>3 DEF PreProc, TypeOK, fitting, waiter
<1>5. ASSUME NEW t \in Threads, Ctrl(t) \/ LookAtStatus(t) PROVE TypeOK'
  <2>1. th' \in Th
    BY <1>5, ThreadTypes DEF Ctrl, LookAtStatus, ThreadPcs
  <2>2. core' \subseteq Reqs
    BY <1>5 DEF Ctrl, LookAtStatus, At, fitting, AddressInv, Issuing, TypeOK
  <2>3. mistaken' \in BOOLEAN
    BY <1>5, Zenon DEF Ctrl, LookAtStatus, TypeOK
  <2> QED
    BY <1>5, <2>1, <2>2, <2>3 DEF Ctrl, LookAtStatus, TypeOK, boxes, fitting, waiter
<1>6. ASSUME NEW t \in Threads, PostProc(t) PROVE TypeOK'
  <2>1. th' \in Th
    <3>1. Done(t)
      BY <1>6 DEF PostProc
    <3> QED
      BY <3>1 DEF Done, Idle, ThreadPcs, TypeOK
  <2>2. sema' \in [Reqs -> BOOLEAN]
    BY <1>6, Zenon DEF PostProc, TypeOK
  <2> QED
    BY <1>6, <2>1, <2>2 DEF PostProc, TypeOK, fitting, waiter
<1>7. ASSUME NEW t \in Threads, Finish(t) \/ TakeBox(t) PROVE TypeOK'
  <2>1. th' \in Th
    <3>1. Done(t)
      BY <1>7 DEF Finish, TakeBox
    <3> QED
      BY <3>1 DEF Done, Idle, ThreadPcs, TypeOK
  <2>2. th[t].req \in Reqs /\ buf[th[t].req] \in Bufs
    BY <1>7 DEF Finish, TakeBox, At, AddressInv, Issuing, Getting
  <2>3. live' \subseteq Reqs /\ spare' \subseteq Bufs /\ buf' = buf
    BY <1>7, <2>2, FreeBoxesTypes DEF Finish, TakeBox
  <2>4. sema' \in [Reqs -> BOOLEAN]
    BY <1>7, Zenon DEF Finish, TakeBox, At, TypeOK
  <2> QED
    BY <1>7, <2>1, <2>3, <2>4 DEF Finish, TakeBox, TypeOK, fitting, waiter
<1>8. ASSUME NEW t \in Threads, (\E e \in events : GetEvent(t, e)) \/ SearchAsyncBox(t)
      PROVE  TypeOK'
  <2>1. th' \in Th
    <3>1. CASE \E e \in events : GetEvent(t, e)
      BY <3>1, ThreadTypes DEF GetEvent, ThreadPcs, TypeOK
    <3>2. CASE SearchAsyncBox(t)
      BY <3>2, ThreadTypes DEF SearchAsyncBox, ThreadPcs
    <3> QED
      BY <1>8, <3>1, <3>2
  <2> QED
    BY <1>8, <2>1 DEF GetEvent, SearchAsyncBox, TypeOK, boxes, fitting, waiter
<1>9. ASSUME NEW t \in Threads, StopEvent(t) \/ NotifyStop(t) PROVE TypeOK'
  <2>1. th' \in Th
    BY <1>9, ThreadTypes DEF StopEvent, NotifyStop, ThreadPcs
  <2>2. stopped' \in BOOLEAN
    BY <1>9, Zenon DEF StopEvent, NotifyStop, fitting, TypeOK
  <2>3. poller' \in [pc : {"out", "look", "looked", "asleep"}, woken : BOOLEAN]
    BY <1>9, WakeTypes DEF StopEvent, NotifyStop, waiter, TypeOK
  <2> QED
    BY <1>9, <2>1, <2>2, <2>3 DEF StopEvent, NotifyStop, TypeOK, boxes, fitting, waiter
<1> QED
  BY <1>1, <1>2, <1>3, <1>4, <1>5, <1>6, <1>7, <1>8, <1>9 DEF Next

\* A box gets its buffer when it is made and is found where it was put.
LEMMA AddressNext == ASSUME TypeOK, AddressInv, Next PROVE AddressInv'
<1>1. CASE UNCHANGED <<th, buf>> /\ async' \subseteq async
  BY <1>1 DEF AddressInv
<1>2. ASSUME NEW t \in Threads, UNCHANGED buf, async' \subseteq async,
             \A u \in Threads \ {t} : th'[u] = th[u],
             \/ th'[t].pc \in {"idle", "stop"}
             \/ th'[t].pc \in Issuing /\ th[t].pc \in Issuing /\ th'[t].req = th[t].req
             \/ th'[t].pc = "search" /\ th'[t].req \in Reqs
             \/ th'[t].pc = "box" /\ th'[t].req \in async
      PROVE  AddressInv'
  BY <1>2 DEF AddressInv, Issuing, Getting, TypeOK
<1>3. ASSUME NEW t \in Threads, NEW r \in Reqs, NEW b \in Bufs, PreProc(t, r, b)
      PROVE  AddressInv'
  <2>1. /\ buf'[r] = b /\ \A s \in Reqs \ {r} : buf'[s] = buf[s]
        /\ async' = async \cup {r}
        /\ \A u \in Threads : th[u].req # r
    BY <1>3 DEF PreProc, Used, TypeOK
  <2>2. th'[t] = [pc |-> "ctrl", req |-> r] /\ \A u \in Threads \ {t} : th'[u] = th[u]
    BY <1>3 DEF PreProc, Enter, TypeOK
  <2> QED
    BY <2>1, <2>2 DEF AddressInv, Issuing, Getting, TypeOK
<1>4. CASE \/ Open \/ Release \/ Poll \/ SearchEvent \/ Sleep \/ EventCbk \/ NotifyEvent
           \/ \E r \in core : AsyncCbk(r)
  BY <1>1, <1>4 DEF Open, Release, Poll, SearchEvent, Sleep, EventCbk, NotifyEvent, AsyncCbk,
     boxes, waiter, FreeBoxes
<1>5. ASSUME NEW t \in Threads,
             \/ Ctrl(t) \/ LookAtStatus(t) \/ PostProc(t) \/ Finish(t)
             \/ TakeBox(t) \/ StopEvent(t) \/ NotifyStop(t)
      PROVE  AddressInv'
  <2>1. UNCHANGED buf /\ async' \subseteq async
    BY <1>5 DEF Ctrl, LookAtStatus, PostProc, Finish, TakeBox, StopEvent, NotifyStop, boxes,
       FreeBoxes
  <2>2. \A u \in Threads \ {t} : th'[u] = th[u]
    BY <1>5 DEF Ctrl, LookAtStatus, PostProc, Finish, TakeBox, StopEvent, NotifyStop, Goto,
       Done, TypeOK
  <2>3. \/ th'[t].pc \in {"idle", "stop"}
        \/ th'[t].pc \in Issuing /\ th[t].pc \in Issuing /\ th'[t].req = th[t].req
    BY <1>5 DEF Ctrl, LookAtStatus, PostProc, Finish, TakeBox, StopEvent, NotifyStop, Goto,
       Done, Idle, At, Issuing, TypeOK
  <2> QED
    BY <1>2, <2>1, <2>2, <2>3
<1>6. ASSUME NEW t \in Threads, NEW e \in events, GetEvent(t, e) PROVE AddressInv'
  <2>1. UNCHANGED <<buf, async>>
    BY <1>6 DEF GetEvent, boxes
  <2>2. CASE e = Other
    BY <1>1, <1>6, <2>1, <2>2 DEF GetEvent
  <2>3. CASE e # Other
    <3>1. /\ th'[t].pc = "search" /\ th'[t].req \in Reqs
          /\ \A u \in Threads \ {t} : th'[u] = th[u]
      BY <1>6, <2>3 DEF GetEvent, Enter, TypeOK
    <3> QED
      BY <1>2, <2>1, <3>1
  <2> QED
    BY <2>2, <2>3
<1>7. ASSUME NEW t \in Threads, SearchAsyncBox(t) PROVE AddressInv'
  <2>1. UNCHANGED buf /\ async' \subseteq async
    BY <1>7 DEF SearchAsyncBox
  <2>2. \A u \in Threads \ {t} : th'[u] = th[u]
    BY <1>7 DEF SearchAsyncBox, Goto, Done, TypeOK
  <2>3. \/ th'[t].pc = "idle"
        \/ th'[t].pc = "box" /\ th'[t].req \in async
    BY <1>7 DEF SearchAsyncBox, Goto, Done, Idle, TypeOK
  <2> QED
    BY <1>2, <2>1, <2>2, <2>3
<1> QED
  BY <1>3, <1>4, <1>5, <1>6, <1>7 DEF Next

(****************************************************************************)
(* The invariant is inductive.                                              *)
(****************************************************************************)
LEMMA SoundNext == ASSUME TypeOK, Sound, Next, ~mistaken' PROVE Sound'
<1>1. CASE Poll \/ SearchEvent \/ Sleep \/ NotifyEvent
  BY <1>1, WaitingStep DEF Poll, SearchEvent, Sleep, NotifyEvent
<1> QED
  BY <1>1, OpenStep, ReleaseStep, PreProcStep, CtrlStep, LookAtStatusStep, PostProcStep,
     FinishStep, GetEventStep, SearchStep, TakeBoxStep, AsyncCbkStep, EventCbkStep, StopStep
     DEF Next

\* A request once taken for a failed one stays so.
LEMMA MistakenStays == ASSUME Next, mistaken PROVE mistaken'
  BY DEF Next, Open, Release, Poll, SearchEvent, Sleep, EventCbk, NotifyEvent, PreProc, Ctrl,
     LookAtStatus, PostProc, Finish, GetEvent, SearchAsyncBox, TakeBox, StopEvent, NotifyStop,
     AsyncCbk

LEMMA NextInv == ASSUME IInv, [Next]_vars PROVE IInv'
<1>1. CASE Next
  BY <1>1, TypesNext, AddressNext, SoundNext, MistakenStays DEF IInv
<1>2. CASE UNCHANGED vars
  <2>1. TypeOK' /\ AddressInv'
    BY <1>2 DEF vars, IInv, TypeOK, AddressInv
  <2>2. Sound => Sound'
    BY <1>2 DEF vars, Sound, IssueInv, CompletionInv, NoCompletion, BoxInv, BuffersApart
  <2>3. mistaken' = mistaken
    BY <1>2 DEF vars
  <2> QED
    BY <2>1, <2>2, <2>3 DEF IInv
<1> QED
  BY <1>1, <1>2

\* The inductive invariant: until an ioctl takes for failed what the core had queued there
\* is one completion of each request and one ioctl that may free its box; after that, who
\* has a box still has the address of a buffer (cnlio_fit.c).
THEOREM OneCompletion == Spec => []IInv
  BY InitInv, NextInv, PTL DEF Spec

\* Every variable keeps its type; in particular nothing but buffers of the pool is
\* released into it (cnlio_fit.c).
THEOREM IoTypes == Spec => []TypeOK
<1>1. IInv => TypeOK
  BY DEF IInv
<1> QED
  BY <1>1, OneCompletion, PTL

\* Neither the ioctl that makes a request nor the one that takes its completion uses the
\* box after the other has freed it (CNLIO_fitIoctlPostProc, CNLIO_fitCmdFinisher), as
\* long as the first has not taken for failed a request that the core had queued; that a
\* completion, an error too, comes before the call is over does no harm else.
THEOREM BoxesSafe == Spec => []NoUseOfFreedBox
<1>1. IInv => NoUseOfFreedBox
  BY DEF IInv, Sound, NoUseOfFreedBox, BoxesThere, IssueInv, BoxInv
<1> QED
  BY <1>1, OneCompletion, PTL

\* Until then no data buffer is lost or released twice either (CNLIO_fitCmdFinisher,
\* CNLIO_fitArgBucketPurge).
THEOREM BuffersSafe == Spec => []BuffersKept
<1>1. IInv => BuffersKept
  BY DEF IInv, Sound, BuffersKept
<1> QED
  BY <1>1, OneCompletion, PTL

\* The same of a poller that has looked and is about to sleep.
PollInv ==
  (poller.pc = "asleep" \/ (poller.pc = "looked" /\ ~poller.woken)) /\ (events # {} \/ stopped) =>
    task = "notify" \/ \E t \in Threads : th[t].pc = "stop"

\* A callback wakes the poller, or it will look again.
LEMMA WakeEnds == ASSUME TypeOK, Wake PROVE PollInv'
<1>1. poller'.pc # "asleep" /\ (poller'.pc = "looked" => poller'.woken)
  BY DEF Wake, TypeOK
<1> QED
  BY <1>1 DEF PollInv

LEMMA PollNext == ASSUME TypeOK, PollInv, [Next]_vars PROVE PollInv'
<1>1. CASE Poll \/ SearchEvent \/ Sleep
  <2>1. UNCHANGED <<events, stopped, task, th>>
    BY <1>1 DEF Poll, SearchEvent, Sleep, fitting
  <2>2. CASE Poll
    <3>1. poller'.pc = "look"
      BY <2>2 DEF Poll, NoPoll
    <3> QED
      BY <3>1 DEF PollInv
  <2>3. CASE SearchEvent
    <3>1. stopped \/ events # {} => poller'.pc = "out"
      BY <2>3 DEF SearchEvent, NoPoll
    <3> QED
      BY <2>1, <3>1 DEF PollInv
  <2>4. CASE Sleep
    <3>1. /\ poller.pc = "looked" /\ poller.woken => poller'.pc = "look"
          /\ poller.pc = "looked"
      BY <2>4 DEF Sleep
    <3> QED
      BY <2>1, <3>1 DEF PollInv
  <2> QED
    BY <1>1, <2>2, <2>3, <2>4
<1>2. CASE NotifyEvent \/ \E t \in Threads : NotifyStop(t)
  BY <1>2, WakeEnds DEF NotifyEvent, NotifyStop
<1>3. CASE EventCbk \/ \E r \in core : AsyncCbk(r)
  BY <1>3 DEF EventCbk, AsyncCbk, Append, PollInv
<1>4. CASE Open \/ Release
  <2>1. CASE Open
    BY <2>1 DEF Open, PollInv
  <2>2. CASE Release
    BY <2>2 DEF Release, PollInv, waiter, NoPoll
  <2> QED
    BY <1>4, <2>1, <2>2
<1>5. ASSUME NEW t \in Threads, StopEvent(t) PROVE PollInv'
  <2>1. th'[t].pc = "stop"
    BY <1>5 DEF StopEvent, Goto, TypeOK
  <2> QED
    BY <2>1 DEF PollInv
<1>6. ASSUME NEW t \in Threads, th[t].pc # "stop",
             \A u \in Threads \ {t} : th'[u] = th[u],
             events' \subseteq events, stopped' = stopped, task' = task, poller' = poller
      PROVE  PollInv'
  BY <1>6 DEF PollInv
<1>7. ASSUME NEW t \in Threads,
             \/ \E r \in Reqs, b \in Bufs : PreProc(t, r, b)
             \/ Ctrl(t) \/ LookAtStatus(t) \/ PostProc(t) \/ Finish(t)
             \/ \E e \in events : GetEvent(t, e)
             \/ SearchAsyncBox(t) \/ TakeBox(t)
      PROVE  PollInv'
  <2>1. th[t].pc # "stop" /\ task' = task /\ poller' = poller /\ stopped' = stopped
        /\ events' \subseteq events
    BY <1>7 DEF PreProc, Ctrl, LookAtStatus, PostProc, Finish, GetEvent, SearchAsyncBox, TakeBox, At,
                fitting, waiter
  <2>2. \A u \in Threads \ {t} : th'[u] = th[u]
    BY <1>7 DEF PreProc, Ctrl, LookAtStatus, PostProc, Finish, GetEvent, SearchAsyncBox, TakeBox,
                Enter, Goto, Done, TypeOK
  <2> QED
    BY <1>6, <2>1, <2>2
<1>8. CASE UNCHANGED vars
  BY <1>8 DEF vars, PollInv
<1> QED
  BY <1>1, <1>2, <1>3, <1>4, <1>5, <1>7, <1>8 DEF Next

\* Who sleeps in poll is woken: no event slips between looking and sleeping
\* (CNLIO_fitPoll, CNLIO_fitNotifyEvent).
THEOREM PollWoken == Spec => []PollNotLost
<1>1. Init => PollInv
  BY DEF Init, PollInv, NoPoll
<1>2. PollInv => PollNotLost
  BY Zenon DEF PollInv, PollNotLost
<1>3. TypeOK /\ PollInv /\ [Next]_vars => PollInv'
  BY PollNext
<1> QED
  BY <1>1, <1>2, <1>3, IoTypes, PTL DEF Spec
=============================================================================

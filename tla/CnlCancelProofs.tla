--------------------------- MODULE CnlCancelProofs ---------------------------
(****************************************************************************)
(* Theorems about cancelling, for any number of cancellers, requests and    *)
(* dummies.                                                                 *)
(*                                                                          *)
(* Four arguments are put together.  While the callback runs, the thread    *)
(* that armed the alarm is in its cancel and waits for the callback before  *)
(* it clears the argument; if it is alone the argument does not change, the *)
(* callback reads the same dummy every time (CallbackInv).  Then a dummy is *)
(* in one place (Owned).  The counters of the queues and the ends of waits  *)
(* are sums over these places (RequestsAccounted, EndForEachWait).  And as  *)
(* long as cancels come one after the other there is one dummy under way    *)
(* for the one thread that waits, so that status and signal are meant for   *)
(* it (CleanInv).                                                           *)
(****************************************************************************)
EXTENDS CnlCancel, FiniteSetTheorems, TLAPS

ThreadObject == [pc : Pcs, dummy : Dummies \cup {None}, want : Reqs \cup {None}]

Shape ==
  /\ free \subseteq Dummies /\ lost \subseteq Dummies /\ cancelQ \subseteq Dummies
  /\ copies \subseteq Dummies
  /\ target \in [Dummies -> Reqs \cup {None}]
  /\ req \in [Reqs -> {"out", "QUEUED", "PROCESSING"}]
  /\ pending \subseteq Reqs
  /\ hand \in [dummy : Dummies \cup {None}, req : Reqs \cup {None}]
  /\ status \in {"SUCCESS", "NOOBJ", "TIMEOUT"} /\ sem \in Nat
  /\ arg \in [dev : BOOLEAN, dummy : Dummies \cup {None}]
  /\ alarm \in AlarmStates /\ sig \in BOOLEAN
  /\ task \in {"sleep", "cancel", "done", "work"}
  /\ th \in [Cancellers -> ThreadObject]
  /\ told \subseteq Cancellers /\ clean \in BOOLEAN /\ crossed \in BOOLEAN

Bounded == cnt \in [{"rx", "tx"} -> Int] /\ \A q \in {"rx", "tx"} : cnt[q] <= Size(q)

LEMMA TypeParts == TypeOK <=> Shape /\ Bounded
BY DEF TypeOK, Shape, Bounded, ThreadObject

Elsewhere == free \cup lost \cup cancelQ \cup copies
Holders   == {c \in Cancellers : th[c].pc \in Holding}

\* A dummy is in one place: the four sets have nothing in common, a thread and the task
\* hold none that is in one of them, and every dummy is somewhere.
Disjoint ==
  /\ free \cap lost = {} /\ free \cap cancelQ = {} /\ free \cap copies = {}
  /\ lost \cap cancelQ = {} /\ lost \cap copies = {} /\ cancelQ \cap copies = {}
HeldOnce ==
  /\ \A c \in Holders : th[c].dummy \in Dummies \ Elsewhere /\ th[c].dummy # hand.dummy
  /\ \A c, u \in Holders : th[c].dummy = th[u].dummy => c = u
HandOnce ==
  /\ hand.dummy \notin Elsewhere
  /\ task # "done" => hand = Empty
RemovedOnce ==
  alarm = "removed" =>
    /\ arg.dummy \in Dummies \ Elsewhere /\ arg.dummy # hand.dummy
    /\ \A c \in Holders : th[c].dummy # arg.dummy
Covered ==
  \A d \in Dummies :
    \/ d \in Elsewhere \/ d = hand.dummy \/ \E c \in Holders : th[c].dummy = d
    \/ alarm = "removed" /\ d = arg.dummy

Owned == Disjoint /\ HeldOnce /\ HandOnce /\ RemovedOnce /\ Covered
OwnInv == ~crossed => Owned

\* A cancel has a target from the call to the answer.
TargetInv ==
  /\ \A c \in Cancellers : th[c].pc # "idle" => th[c].want \in Reqs
  /\ \A d \in cancelQ : target[d] \in Reqs

\* What a thread and the task hold, whatever has crossed.
HoldInv ==
  /\ \A c \in Holders : th[c].dummy \in Dummies
  /\ task # "done" => hand = Empty

\* The thread that armed the alarm has not stopped it yet.  If it is alone in its cancel
\* while the callback runs, the callback finds what this thread has put there.
Armers == {c \in Cancellers : th[c].pc \in {"add", "signal", "wait", "stop"}}
CallbackInv ==
  /\ alarm # "none" => Armers # {}
  /\ Running /\ ~crossed => /\ \A c, u \in InCancel : c = u
                           /\ arg.dev /\ arg.dummy # None
  /\ alarm = "found" /\ ~crossed => arg.dummy \in cancelQ
  /\ alarm = "oops" => crossed

\* The thread whose cancel is under way, when cancels come one after the other: it is
\* alone, it waits as long as there is a dummy, an answer or an end of a wait, and these
\* are meant for it.
Alone ==
  /\ \A c, u \in Cancellers : th[c].pc \in Inside /\ th[u].pc \in Inside => c = u
  /\ \A d, e \in cancelQ : d = e
TakenBack == alarm \in {"removed", "released"}
OneEnd ==
  /\ cancelQ # {} => /\ sem = 0 /\ task # "done" /\ ~TakenBack
                     /\ sig \/ task = "cancel" \/ \E c \in Cancellers : th[c].pc = "signal"
  /\ task = "done" => sem = 0 /\ ~TakenBack
  /\ TakenBack => sem = 0 /\ status = "TIMEOUT" /\ told = {}
  /\ sem <= 1
  /\ cancelQ # {} \/ task = "done" \/ sem > 0 \/ TakenBack =>
       \E c \in Cancellers : th[c].pc \in {"signal", "wait"}
ForIt ==
  /\ \A c \in told : th[c].pc \in {"signal", "wait", "stop", "dev", "clear"}
  /\ \A c \in Cancellers : th[c].pc \in {"signal", "wait"} =>
       /\ \A d \in cancelQ : target[d] = th[c].want /\ c \notin told
       /\ task = "done" => /\ c \notin told
                           /\ status = "SUCCESS" <=> hand.req # None
                           /\ hand.req \in {None, th[c].want}
       /\ sem > 0 => (status = "SUCCESS" <=> c \in told)
  /\ \A c \in Cancellers :
       th[c].pc \in {"stop", "dev", "clear"} => (status = "SUCCESS" <=> c \in told)

CleanInv == clean => ~crossed /\ Alone /\ OneEnd /\ ForIt

IInv == /\ Shape /\ Bounded /\ HoldInv /\ TargetInv /\ CallbackInv
        /\ OwnInv /\ RequestsAccounted /\ EndForEachWait /\ CleanInv

USE CancelAssumption DEF Reqs, At, dummies, queues, waits, history

\* A thread that goes on changes its place in the code and nothing else.
LEMMA GotoFacts ==
  ASSUME Shape, NEW c \in Cancellers, NEW p \in Pcs, Goto(c, p)
  PROVE  /\ th' \in [Cancellers -> ThreadObject]
         /\ th'[c].pc = p /\ th'[c].dummy = th[c].dummy /\ th'[c].want = th[c].want
         /\ \A u \in Cancellers \ {c} : th'[u] = th[u]
BY DEF Shape, Goto, ThreadObject

LEMMA SetFacts ==
  ASSUME Shape, NEW c \in Cancellers, NEW x \in ThreadObject, th' = [th EXCEPT ![c] = x]
  PROVE  /\ th' \in [Cancellers -> ThreadObject]
         /\ th'[c] = x
         /\ \A u \in Cancellers \ {c} : th'[u] = th[u]
BY DEF Shape

LEMMA IdleType == Idle \in ThreadObject /\ Idle.pc = "idle"
BY DEF Idle, ThreadObject, Pcs

\* What the steps of a thread do to its place in the code.
Route == {<<"test", "set">>, <<"set", "add">>, <<"signal", "wait">>, <<"wait", "stop">>,
          <<"stop", "dev">>, <<"dev", "clear">>}

Moves(c) == Signal(c) \/ Wait(c) \/ Interrupt(c) \/ StopAlarm(c) \/ ClearDev(c)

LEMMA MoveFacts ==
  ASSUME Shape, NEW c \in Cancellers, Moves(c)
  PROVE  /\ th' \in [Cancellers -> ThreadObject]
         /\ <<th[c].pc, th'[c].pc>> \in Route
         /\ th[c].pc \in {"signal", "wait", "stop", "dev"}
         /\ th'[c].dummy = th[c].dummy /\ th'[c].want = th[c].want
         /\ \A u \in Cancellers \ {c} : th'[u] = th[u]
<1>1. PICK p \in {"wait", "stop", "dev", "clear"} :
        Goto(c, p) /\ <<th[c].pc, p>> \in Route /\ th[c].pc \in {"signal", "wait", "stop", "dev"}
  BY DEF Moves, Signal, Wait, Interrupt, StopAlarm, ClearDev, Route
<1>2. p \in Pcs
  BY DEF Pcs, Inside
<1> QED
  BY <1>1, <1>2, GotoFacts

\* The steps of the task, of the device and of those who make requests.
TaskSide ==
  \/ TakeDevice \/ CancelDone \/ NoCancel \/ Sleep \/ Event
  \/ \E d \in Dummies : CheckCancel(d) \/ FreeCopy(d)
  \/ \E r \in Reqs : Start(r) \/ Answer(r) \/ AddRequest(r)

LEMMA TaskSideFrame == TaskSide => UNCHANGED <<th, arg, alarm, lost, clean, crossed>>
BY DEF TaskSide, TakeDevice, CancelDone, NoCancel, Sleep, Event, CheckCancel, FreeCopy,
       Start, Answer, AddRequest

LEMMA NextCases ==
  ASSUME Next
  PROVE  \/ TaskSide \/ AlarmBegins \/ AlarmLooks \/ AlarmRemoves \/ AlarmReleases \/ AlarmEnds
         \/ \E c \in Cancellers :
              \/ \E r \in Reqs, d \in Dummies : GetDummy(c, r, d)
              \/ TestArg(c) \/ SetArg(c) \/ AddCancel(c) \/ Moves(c) \/ ClearArg(c)
BY DEF Next, TaskNext, ThreadNext, Alarm, TaskSide, Moves

\* A step on the way of a thread; crossing is never forgotten.
LEMMA ThreadFacts ==
  ASSUME Shape, TargetInv, HoldInv, NEW c \in Cancellers,
         \/ \E r \in Reqs, d \in Dummies : GetDummy(c, r, d)
         \/ TestArg(c) \/ SetArg(c) \/ AddCancel(c) \/ Moves(c) \/ ClearArg(c)
  PROVE  /\ th' \in [Cancellers -> ThreadObject]
         /\ \A u \in Cancellers \ {c} : th'[u] = th[u]
         /\ th[c].pc # "idle" /\ th'[c].pc # "idle" => th'[c].want = th[c].want
         /\ th'[c].pc \in {"set", "add"} => c \in Holders /\ th'[c].dummy = th[c].dummy
         /\ UNCHANGED <<task, hand>> /\ (crossed => crossed')
<1>1. ASSUME NEW r \in Reqs, NEW d \in Dummies, GetDummy(c, r, d) PROVE
         /\ th' \in [Cancellers -> ThreadObject] /\ th[c].pc = "idle" /\ th'[c].pc = "test"
         /\ \A u \in Cancellers \ {c} : th'[u] = th[u]
  <2>1. [pc |-> "test", dummy |-> d, want |-> r] \in ThreadObject
    BY DEF ThreadObject, Pcs, Holding
  <2> QED
    BY <1>1, <2>1, SetFacts DEF GetDummy
<1>2. ASSUME AddCancel(c) PROVE
         /\ th' \in [Cancellers -> ThreadObject] /\ th'[c].pc = "signal"
         /\ th'[c].want = th[c].want /\ \A u \in Cancellers \ {c} : th'[u] = th[u]
  <2>1. [pc |-> "signal", dummy |-> None, want |-> th[c].want] \in ThreadObject
    BY DEF ThreadObject, Pcs, Inside, Shape
  <2> QED
    BY <1>2, <2>1, SetFacts DEF AddCancel, Shape
<1>3. ASSUME TestArg(c) \/ SetArg(c) PROVE
         \/ th' = [th EXCEPT ![c] = Idle]
         \/ \E p \in {"set", "add"} : p \in Pcs /\ Goto(c, p) /\ c \in Holders
  BY <1>3 DEF TestArg, SetArg, Pcs, Inside, Holding, Holders
<1>4. ASSUME ClearArg(c) PROVE th' = [th EXCEPT ![c] = Idle]
  BY <1>4 DEF ClearArg
<1>5. UNCHANGED <<task, hand>> /\ (crossed => crossed')
  <2>0. CASE \E r \in Reqs, d \in Dummies : GetDummy(c, r, d)
    BY <2>0 DEF GetDummy
  <2>1. CASE TestArg(c)
    BY <2>1 DEF TestArg
  <2>2. CASE AddCancel(c) \/ ClearArg(c)
    BY <2>2 DEF AddCancel, ClearArg
  <2>4. CASE SetArg(c)
    BY <2>4, Zenon DEF SetArg
  <2>3. CASE Moves(c)
    BY <2>3 DEF Moves, Signal, Wait, Interrupt, StopAlarm, ClearDev
  <2> QED
    BY <2>0, <2>1, <2>2, <2>3, <2>4
<1>6. CASE \E r \in Reqs, d \in Dummies : GetDummy(c, r, d)
  BY <1>1, <1>5, <1>6
<1>7. CASE TestArg(c) \/ SetArg(c)
  BY <1>3, <1>5, <1>7, GotoFacts, SetFacts, IdleType
<1>8. CASE AddCancel(c)
  BY <1>2, <1>5, <1>8
<1>9. CASE Moves(c)
  <2>1. th'[c].pc \notin {"set", "add"}
    BY <1>9, MoveFacts DEF Route
  <2> QED
    BY <1>5, <1>9, <2>1, MoveFacts
<1>10. CASE ClearArg(c)
  BY <1>4, <1>5, <1>10, SetFacts, IdleType
<1> QED
  BY <1>6, <1>7, <1>8, <1>9, <1>10

LEMMA AlarmFrame ==
  AlarmBegins \/ AlarmLooks \/ AlarmRemoves \/ AlarmReleases \/ AlarmEnds =>
    UNCHANGED <<lost, copies, queues, hand, arg, sig, task, th, told, clean>>
BY DEF AlarmBegins, AlarmLooks, AlarmRemoves, AlarmReleases, AlarmEnds

LEMMA HoldStep ==
  ASSUME IInv, Next
  PROVE  HoldInv'
<1> USE DEF IInv
<1>1. CASE TaskSide
  <2>1. \A c \in Holders' : c \in Holders /\ th'[c] = th[c]
    BY <1>1, TaskSideFrame DEF Holders
  <2>2. task' # "done" => hand' = Empty
    BY <1>1 DEF TaskSide, HoldInv, TakeDevice, CancelDone, NoCancel, Sleep, Event, CheckCancel,
                FreeCopy, Start, Answer, AddRequest
  <2> QED
    BY <2>1, <2>2 DEF HoldInv
<1>2. CASE AlarmBegins \/ AlarmLooks \/ AlarmRemoves \/ AlarmReleases \/ AlarmEnds
  BY <1>2, AlarmFrame DEF HoldInv, Holders
<1>3. ASSUME NEW c \in Cancellers,
             \/ \E r \in Reqs, d \in Dummies : GetDummy(c, r, d)
             \/ TestArg(c) \/ SetArg(c) \/ AddCancel(c) \/ Moves(c) \/ ClearArg(c)
      PROVE  HoldInv'
  <2>1. /\ \A u \in Cancellers \ {c} : th'[u] = th[u]
        /\ th'[c].pc \in {"set", "add"} => c \in Holders /\ th'[c].dummy = th[c].dummy
        /\ UNCHANGED <<task, hand>>
    BY <1>3, ThreadFacts
  <2>2. th'[c].pc = "test" => th'[c].dummy \in Dummies
    <3>1. CASE \E r \in Reqs, d \in Dummies : GetDummy(c, r, d)
      BY <3>1 DEF GetDummy, Shape
    <3>2. CASE TestArg(c) \/ SetArg(c) \/ ClearArg(c)
      BY <3>2, GotoFacts, SetFacts, IdleType
      DEF TestArg, SetArg, ClearArg, Pcs, Inside, Holding
    <3>3. CASE AddCancel(c)
      BY <3>3 DEF AddCancel, Shape
    <3>4. CASE Moves(c)
      BY <3>4, MoveFacts DEF Route
    <3> QED
      BY <1>3, <3>1, <3>2, <3>3, <3>4
  <2> QED
    BY <2>1, <2>2 DEF HoldInv, Holders, Holding
<1> QED
  BY <1>1, <1>2, <1>3, NextCases

(****************************************************************************)
(* The callback.                                                            *)
(****************************************************************************)
LEMMA ArmersInside == Armers \subseteq InCancel
BY DEF Armers, InCancel, Inside

\* A lone cancel that the callback runs into does not touch the argument.
LEMMA ArgumentStays ==
  ASSUME CallbackInv, Running, ~crossed, NEW c \in Cancellers, th[c].pc \in {"dev", "clear"}
  PROVE  FALSE
<1>1. PICK u \in Armers : TRUE
  BY DEF CallbackInv, Running
<1>2. u \in InCancel /\ c \in InCancel
  BY <1>1, ArmersInside DEF InCancel, Inside
<1>3. u = c
  BY <1>2 DEF CallbackInv
<1> QED
  BY <1>1, <1>3 DEF Armers

LEMMA CallbackStep ==
  ASSUME IInv, Next
  PROVE  CallbackInv'
<1> USE DEF IInv
<1>1. CASE TaskSide
  <2>1. UNCHANGED <<th, arg, alarm, crossed>>
    BY <1>1, TaskSideFrame
  <2>2. alarm = "found" => cancelQ' = cancelQ
    BY <1>1 DEF TaskSide, TakeDevice, CancelDone, NoCancel, Sleep, Event, CheckCancel,
                FreeCopy, Start, Answer, AddRequest, Unlocked
  <2> QED
    BY <2>1, <2>2 DEF CallbackInv, Armers, Running, InCancel
<1>2. CASE AlarmBegins
  <2>1. UNCHANGED <<th, arg, cancelQ>> /\ alarm = "armed" /\ alarm' \in {"called", "fired"}
    BY <1>2 DEF AlarmBegins
  <2>2. alarm' = "called" => arg.dev /\ arg.dummy # None
    BY <1>2 DEF AlarmBegins
  <2>3. ~crossed' => \A c, u \in InCancel : c = u
    BY <1>2 DEF AlarmBegins
  <2> QED
    BY <2>1, <2>2, <2>3 DEF CallbackInv, Armers, Running, InCancel
<1>3. CASE AlarmLooks
  <2>1. UNCHANGED <<th, arg, cancelQ, crossed>> /\ alarm = "called"
    BY <1>3 DEF AlarmLooks
  <2>2. \/ alarm' = "oops" /\ ~arg.dev
        \/ alarm' = "found" /\ arg.dummy \in cancelQ
        \/ alarm' = "fired"
    BY <1>3 DEF AlarmLooks, AlarmTakes
  <2> QED
    BY <2>1, <2>2 DEF CallbackInv, Armers, Running, InCancel
<1>4. CASE AlarmRemoves
  <2>1. UNCHANGED <<th, arg, crossed>> /\ alarm = "found"
    BY <1>4 DEF AlarmRemoves
  <2>2. alarm' = "removed" \/ (alarm' = "oops" /\ ~(arg.dev /\ arg.dummy # None))
    BY <1>4 DEF AlarmRemoves
  <2> QED
    BY <2>1, <2>2 DEF CallbackInv, Armers, Running, InCancel
<1>5. CASE AlarmReleases
  <2>1. UNCHANGED <<th, arg, crossed>> /\ alarm = "removed"
    BY <1>5 DEF AlarmReleases
  <2>2. alarm' = "released" \/ (alarm' = "oops" /\ ~(arg.dev /\ arg.dummy # None))
    BY <1>5 DEF AlarmReleases
  <2> QED
    BY <2>1, <2>2 DEF CallbackInv, Armers, Running, InCancel
<1>6. CASE AlarmEnds
  <2>1. UNCHANGED <<th, arg, crossed>> /\ alarm = "released"
    BY <1>6 DEF AlarmEnds
  <2>2. alarm' = "fired" \/ (alarm' = "oops" /\ ~arg.dev)
    BY <1>6 DEF AlarmEnds
  <2> QED
    BY <2>1, <2>2 DEF CallbackInv, Armers, Running, InCancel
<1>7. ASSUME NEW c \in Cancellers, UNCHANGED <<arg, alarm, crossed>>, cancelQ \subseteq cancelQ',
             th'[c].pc \in Inside <=> th[c].pc \in Inside,
             th[c].pc \in {"add", "signal", "wait", "stop"} =>
               th'[c].pc \in {"add", "signal", "wait", "stop"},
             \A u \in Cancellers \ {c} : th'[u] = th[u]
      PROVE  CallbackInv'
  <2>1. InCancel' = InCancel /\ Armers \subseteq Armers'
    BY <1>7 DEF InCancel, Armers
  <2> QED
    BY <1>7, <2>1 DEF CallbackInv, Running
<1>8. ASSUME NEW c \in Cancellers, NEW r \in Reqs, NEW d \in Dummies, GetDummy(c, r, d)
      PROVE  CallbackInv'
  <2>1. th[c].pc = "idle" /\ th'[c].pc = "test" /\ \A u \in Cancellers \ {c} : th'[u] = th[u]
    BY <1>8 DEF GetDummy, Shape
  <2> QED
    BY <1>7, <1>8, <2>1 DEF GetDummy, Inside
<1>9. ASSUME NEW c \in Cancellers, TestArg(c) PROVE CallbackInv'
  <2>1. /\ th[c].pc = "test" /\ th'[c].pc \in {"idle", "set"}
        /\ \A u \in Cancellers \ {c} : th'[u] = th[u]
    BY <1>9, IdleType DEF TestArg, Shape, Goto, ThreadObject
  <2> QED
    BY <1>7, <1>9, <2>1 DEF TestArg, Inside
<1>10. ASSUME NEW c \in Cancellers, SetArg(c) PROVE CallbackInv'
  <2>1. c \in Armers'
    BY <1>10, GotoFacts DEF SetArg, Armers, Pcs, Inside
  <2>2. Running' = Running /\ (alarm' = "found" <=> alarm = "found") /\ (alarm' = "oops" => alarm = "oops")
    BY <1>10 DEF SetArg, Running
  <2>3. Running => crossed'
    BY <1>10, ArmersInside DEF SetArg, CallbackInv, Running
  <2>4. crossed => crossed'
    BY <1>10 DEF SetArg
  <2> QED
    BY <2>1, <2>2, <2>3, <2>4 DEF CallbackInv, Running
<1>11. ASSUME NEW c \in Cancellers, AddCancel(c) PROVE CallbackInv'
  <2>1. /\ th[c].pc = "add" /\ th'[c].pc = "signal"
        /\ \A u \in Cancellers \ {c} : th'[u] = th[u]
    BY <1>11 DEF AddCancel, Shape
  <2> QED
    BY <1>7, <1>11, <2>1 DEF AddCancel, Inside
<1>12. ASSUME NEW c \in Cancellers, Signal(c) \/ Wait(c) \/ Interrupt(c) PROVE CallbackInv'
  <2>1. /\ th[c].pc \in {"signal", "wait"} /\ th'[c].pc \in {"wait", "stop"}
        /\ \A u \in Cancellers \ {c} : th'[u] = th[u]
    BY <1>12, GotoFacts DEF Signal, Wait, Interrupt, Pcs, Inside
  <2>2. UNCHANGED <<arg, alarm, crossed, cancelQ>>
    BY <1>12 DEF Signal, Wait, Interrupt
  <2> QED
    BY <1>7, <2>1, <2>2 DEF Inside
<1>13. ASSUME NEW c \in Cancellers, StopAlarm(c) PROVE CallbackInv'
  BY <1>13 DEF StopAlarm, CallbackInv, Running
<1>14. ASSUME NEW c \in Cancellers, ClearDev(c) \/ ClearArg(c) PROVE CallbackInv'
  <2>1. /\ th[c].pc \in {"dev", "clear"} /\ th'[c].pc \in {"clear", "idle"}
        /\ \A u \in Cancellers \ {c} : th'[u] = th[u]
    BY <1>14, GotoFacts, SetFacts, IdleType DEF ClearDev, ClearArg, Pcs, Inside
  <2>2. UNCHANGED <<alarm, crossed>> /\ (Running => crossed)
    BY <1>14, <2>1, ArgumentStays DEF ClearDev, ClearArg
  <2>3. Armers \subseteq Armers'
    BY <2>1 DEF Armers
  <2> QED
    BY <2>2, <2>3 DEF CallbackInv, Running
<1> QED
  BY <1>1, <1>2, <1>3, <1>4, <1>5, <1>6, <1>8, <1>9, <1>10, <1>11, <1>12, <1>13, <1>14, NextCases
  DEF Moves

(****************************************************************************)
(* Where the dummies are.                                                   *)
(****************************************************************************)
\* Steps that leave every dummy where it is.
LEMMA OwnFrame ==
  ASSUME Owned, UNCHANGED <<dummies, hand>>,
         Holders' = Holders, \A u \in Holders : th'[u].dummy = th[u].dummy,
         task' # "done" => task # "done",
         alarm' = "removed" <=> alarm = "removed",
         alarm = "removed" => arg'.dummy = arg.dummy
  PROVE  Owned'
<1>1. Elsewhere' = Elsewhere
  BY DEF Elsewhere
<1>2. Disjoint' /\ HandOnce'
  BY <1>1 DEF Owned, Disjoint, HandOnce
<1>3. HeldOnce' /\ RemovedOnce' /\ Covered'
  BY <1>1 DEF Owned, HeldOnce, RemovedOnce, Covered
<1> QED
  BY <1>2, <1>3 DEF Owned

LEMMA OwnStep ==
  ASSUME IInv, Next, ~crossed'
  PROVE  Owned'
<1> USE DEF IInv
<1>0. ~crossed /\ Owned
  <2>1. crossed => crossed'
    BY NextCases, ThreadFacts, TaskSideFrame
    DEF AlarmBegins, AlarmLooks, AlarmRemoves, AlarmReleases, AlarmEnds
  <2> QED
    BY <2>1 DEF OwnInv
<1> USE <1>0 DEF Owned
<1>1. ASSUME NEW c \in Cancellers, NEW r \in Reqs, NEW d \in Dummies, GetDummy(c, r, d)
      PROVE  Owned'
  <2> DEFINE x == [pc |-> "test", dummy |-> d, want |-> r]
  <2>1. x \in ThreadObject /\ th' = [th EXCEPT ![c] = x]
    BY <1>1 DEF GetDummy, ThreadObject, Pcs, Holding, Idle
  <2>2. th'[c] = x /\ \A u \in Cancellers \ {c} : th'[u] = th[u]
    BY <2>1, SetFacts
  <2>3. Holders' = Holders \cup {c} /\ c \notin Holders
    BY <1>1, <2>2 DEF GetDummy, Holders, Holding
  <2>4. Elsewhere' = Elsewhere \ {d} /\ d \in Elsewhere /\ UNCHANGED <<hand, task, arg, alarm>>
    BY <1>1 DEF GetDummy, Elsewhere, Disjoint
  <2>5. Disjoint' /\ HandOnce'
    BY <1>1, <2>4 DEF GetDummy, Disjoint, HandOnce
  <2>6. HeldOnce' /\ RemovedOnce'
    BY <1>1, <2>2, <2>3, <2>4 DEF GetDummy, HeldOnce, HandOnce, RemovedOnce, Holders
  <2>7. Covered'
    BY <2>2, <2>3, <2>4 DEF Covered, Holders
  <2> QED
    BY <2>5, <2>6, <2>7
<1>2. ASSUME NEW c \in Cancellers, TestArg(c) PROVE Owned'
  <2>1. CASE arg.dev
    <3>1. th'[c] = Idle /\ \A u \in Cancellers \ {c} : th'[u] = th[u]
      BY <1>2, <2>1, SetFacts, IdleType DEF TestArg
    <3>2. Holders' = Holders \ {c} /\ c \in Holders
      BY <1>2, <3>1, IdleType DEF TestArg, Holders, Holding
    <3>3. Elsewhere' = Elsewhere \cup {th[c].dummy} /\ UNCHANGED <<hand, task, arg, alarm>>
      BY <1>2, <2>1 DEF TestArg, Elsewhere
    <3>4. Disjoint'
      BY <1>2, <2>1, <3>2 DEF TestArg, Disjoint, HeldOnce, Elsewhere
    <3>5. HeldOnce' /\ HandOnce' /\ RemovedOnce'
      BY <3>1, <3>2, <3>3 DEF HeldOnce, HandOnce, RemovedOnce, Holders
    <3>6. Covered'
      BY <3>1, <3>2, <3>3 DEF Covered, Holders
    <3> QED
      BY <3>4, <3>5, <3>6
  <2>2. CASE ~arg.dev
    <3>1. Goto(c, "set") /\ "set" \in Pcs
      BY <1>2, <2>2 DEF TestArg, Pcs, Holding
    <3>2. Holders' = Holders /\ \A u \in Holders : th'[u].dummy = th[u].dummy
      BY <1>2, <3>1, GotoFacts DEF TestArg, Holders, Holding
    <3> QED
      BY <1>2, <2>2, <3>2, OwnFrame DEF TestArg
  <2> QED
    BY <2>1, <2>2
<1>3. ASSUME NEW c \in Cancellers, SetArg(c) PROVE Owned'
  <2>1. Holders' = Holders /\ \A u \in Holders : th'[u].dummy = th[u].dummy
    BY <1>3, GotoFacts DEF SetArg, Holders, Holding, Pcs
  <2>2. alarm # "removed"
    BY <1>3, ArmersInside DEF SetArg, CallbackInv, Running
  <2> QED
    BY <1>3, <2>1, <2>2, OwnFrame DEF SetArg
<1>4. ASSUME NEW c \in Cancellers, AddCancel(c) PROVE Owned'
  <2>1. th'[c].pc = "signal" /\ \A u \in Cancellers \ {c} : th'[u] = th[u]
    BY <1>4 DEF AddCancel, Shape
  <2>2. Holders' = Holders \ {c} /\ c \in Holders
    BY <1>4, <2>1 DEF AddCancel, Holders, Holding
  <2>3. Elsewhere' = Elsewhere \cup {th[c].dummy} /\ UNCHANGED <<hand, task, arg, alarm>>
    BY <1>4 DEF AddCancel, Elsewhere
  <2>4. Disjoint'
    BY <1>4, <2>2 DEF AddCancel, Disjoint, HeldOnce, Elsewhere
  <2>5. HeldOnce' /\ HandOnce' /\ RemovedOnce'
    BY <2>1, <2>2, <2>3 DEF HeldOnce, HandOnce, RemovedOnce, Holders
  <2>6. Covered'
    BY <2>1, <2>2, <2>3 DEF Covered, Holders
  <2> QED
    BY <2>4, <2>5, <2>6
<1>5. ASSUME NEW c \in Cancellers, Moves(c) PROVE Owned'
  <2>1. Holders' = Holders /\ \A u \in Holders : th'[u].dummy = th[u].dummy
    BY <1>5, MoveFacts DEF Route, Holders, Holding
  <2>2. UNCHANGED <<dummies, hand, task>> /\ arg'.dummy = arg.dummy
    BY <1>5 DEF Moves, Signal, Wait, Interrupt, StopAlarm, ClearDev, Shape
  <2>3. alarm' = "removed" <=> alarm = "removed"
    BY <1>5 DEF Moves, Signal, Wait, Interrupt, StopAlarm, ClearDev
  <2> QED
    BY <2>1, <2>2, <2>3, OwnFrame
<1>6. ASSUME NEW c \in Cancellers, ClearArg(c) PROVE Owned'
  <2>1. Holders' = Holders /\ \A u \in Holders : th'[u].dummy = th[u].dummy
    BY <1>6, SetFacts, IdleType DEF ClearArg, Holders, Holding
  <2>2. alarm # "removed"
    BY <1>6, ArgumentStays DEF ClearArg, Running
  <2> QED
    BY <1>6, <2>1, <2>2, OwnFrame DEF ClearArg
<1>7. CASE AlarmBegins \/ AlarmLooks \/ AlarmEnds
  <2>1. Holders' = Holders /\ th' = th
    BY <1>7 DEF AlarmBegins, AlarmLooks, AlarmEnds, Holders
  <2>2. UNCHANGED <<dummies, hand, task, arg>> /\ alarm # "removed" /\ alarm' # "removed"
    BY <1>7 DEF AlarmBegins, AlarmLooks, AlarmEnds
  <2> QED
    BY <2>1, <2>2, OwnFrame
<1>8. CASE AlarmRemoves
  <2>1. arg.dev /\ arg.dummy # None /\ arg.dummy \in cancelQ
    BY <1>8 DEF AlarmRemoves, CallbackInv, Running
  <2>2. /\ alarm' = "removed" /\ alarm # "removed" /\ cancelQ' = cancelQ \ {arg.dummy}
        /\ UNCHANGED <<free, lost, copies, hand, task, th, arg>>
    BY <1>8, <2>1 DEF AlarmRemoves
  <2>3. Elsewhere' = Elsewhere \ {arg.dummy} /\ arg.dummy \in Elsewhere
    BY <2>1, <2>2 DEF Elsewhere, Disjoint
  <2>4. Holders' = Holders /\ arg.dummy \in Dummies
    BY <2>1, <2>2 DEF Holders, Shape
  <2>5. Disjoint' /\ HandOnce'
    BY <2>2, <2>3 DEF Disjoint, HandOnce
  <2>6. HeldOnce' /\ RemovedOnce'
    BY <2>2, <2>3, <2>4 DEF HeldOnce, RemovedOnce, HandOnce
  <2>7. Covered'
    BY <2>2, <2>3, <2>4 DEF Covered
  <2> QED
    BY <2>5, <2>6, <2>7
<1>9. CASE AlarmReleases
  <2>1. arg.dev /\ arg.dummy # None /\ alarm = "removed"
    BY <1>9 DEF AlarmReleases, CallbackInv, Running
  <2>2. /\ alarm' = "released" /\ free' = free \cup {arg.dummy}
        /\ UNCHANGED <<lost, cancelQ, copies, hand, task, th, arg>>
    BY <1>9, <2>1 DEF AlarmReleases
  <2>3. Elsewhere' = Elsewhere \cup {arg.dummy} /\ Holders' = Holders
    BY <2>2 DEF Elsewhere, Holders
  <2>4. Disjoint' /\ HandOnce'
    BY <2>1, <2>2, <2>3 DEF Disjoint, HandOnce, RemovedOnce, Elsewhere
  <2>5. HeldOnce' /\ RemovedOnce'
    BY <2>1, <2>2, <2>3 DEF HeldOnce, RemovedOnce
  <2>6. Covered'
    BY <2>1, <2>2, <2>3 DEF Covered
  <2> QED
    BY <2>4, <2>5, <2>6
<1>10. ASSUME NEW d \in Dummies, CheckCancel(d) PROVE Owned'
  <2>1. /\ Holders' = Holders /\ th' = th /\ hand = Empty /\ task' = "done"
        /\ alarm # "removed" /\ alarm' = alarm
    BY <1>10 DEF CheckCancel, Holders, HandOnce, Unlocked
  <2>2. d \in cancelQ /\ cancelQ' = cancelQ \ {d} /\ free' = free /\ lost' = lost
    BY <1>10 DEF CheckCancel
  <2>3. \/ hand'.dummy = None /\ copies' = copies \cup {d}
        \/ hand'.dummy = d /\ copies' = copies
    BY <1>10 DEF CheckCancel
  <2>4. Disjoint'
    BY <2>2, <2>3 DEF Disjoint
  <2>5. \/ hand'.dummy = None /\ Elsewhere' = Elsewhere
        \/ hand'.dummy = d /\ Elsewhere' = Elsewhere \ {d}
    BY <2>2, <2>3 DEF Elsewhere, Disjoint
  <2>6. HeldOnce'
    BY <2>1, <2>2, <2>5 DEF HeldOnce, Elsewhere
  <2>7. HandOnce' /\ RemovedOnce'
    BY <2>1, <2>5 DEF HandOnce, RemovedOnce, Empty, Shape, Elsewhere
  <2>8. Covered'
    BY <2>1, <2>2, <2>5 DEF Covered, Elsewhere, Empty
  <2> QED
    BY <2>4, <2>6, <2>7, <2>8
<1>11. ASSUME CancelDone PROVE Owned'
  <2>1. Holders' = Holders /\ th' = th /\ hand' = Empty /\ UNCHANGED <<arg, alarm>>
    BY <1>11 DEF CancelDone, Holders
  <2>2. Elsewhere' = Elsewhere \cup ({hand.dummy} \ {None})
    BY <1>11 DEF CancelDone, Elsewhere
  <2>3. Disjoint'
    BY <1>11 DEF CancelDone, Disjoint, HandOnce, Elsewhere
  <2>4. HeldOnce' /\ RemovedOnce'
    BY <2>1, <2>2 DEF HeldOnce, RemovedOnce, Empty, Holders, Shape
  <2>5. HandOnce'
    BY <1>11, <2>1, <2>2 DEF HandOnce, Empty, Elsewhere, Shape
  <2>6. Covered'
    BY <2>1, <2>2 DEF Covered
  <2> QED
    BY <2>3, <2>4, <2>5, <2>6
<1>12. ASSUME NEW d \in Dummies, FreeCopy(d) PROVE Owned'
  <2>1. Holders' = Holders /\ Elsewhere' = Elsewhere /\ UNCHANGED <<th, hand, arg, alarm>>
    BY <1>12 DEF FreeCopy, Holders, Elsewhere
  <2>2. Disjoint'
    BY <1>12 DEF FreeCopy, Disjoint
  <2>3. HeldOnce' /\ HandOnce' /\ RemovedOnce' /\ Covered'
    BY <1>12, <2>1 DEF FreeCopy, HeldOnce, HandOnce, RemovedOnce, Covered
  <2> QED
    BY <2>2, <2>3
<1>13. CASE \/ NoCancel \/ TakeDevice \/ Sleep \/ Event
            \/ \E r \in Reqs : Start(r) \/ Answer(r) \/ AddRequest(r)
  <2>1. UNCHANGED <<dummies, hand, th, arg, alarm>> /\ (task' # "done" => task # "done")
    BY <1>13 DEF NoCancel, TakeDevice, Sleep, Event, Start, Answer, AddRequest
  <2>2. Holders' = Holders
    BY <2>1 DEF Holders
  <2> QED
    BY <2>1, <2>2, OwnFrame
<1> QED
  BY <1>1, <1>2, <1>3, <1>4, <1>5, <1>6, <1>7, <1>8, <1>9, <1>10, <1>11, <1>12, <1>13, NextCases
  DEF TaskSide

(****************************************************************************)
(* Types and targets.                                                       *)
(****************************************************************************)
LEMMA ForgetType ==
  ASSUME Shape, Forget
  PROVE  target' \in [Dummies -> Reqs \cup {None}]
BY DEF Shape, Forget

LEMMA ShapeStep ==
  ASSUME IInv, Next
  PROVE  Shape'
<1> USE DEF IInv, Shape
<1>1. ASSUME NEW c \in Cancellers, NEW r \in Reqs, NEW d \in Dummies, GetDummy(c, r, d)
      PROVE  Shape'
  <2>1. [pc |-> "test", dummy |-> d, want |-> r] \in ThreadObject
    BY DEF ThreadObject, Pcs, Holding
  <2> QED
    BY <1>1, <2>1 DEF GetDummy
<1>2. ASSUME NEW c \in Cancellers, TestArg(c) PROVE Shape'
  <2>1. CASE arg.dev
    <3>1. c \in Holders
      BY <1>2 DEF TestArg, Holders, Holding
    <3>2. th[c].dummy \in Dummies
      BY <3>1 DEF HoldInv
    <3> QED
      BY <1>2, <2>1, <3>2, SetFacts, IdleType DEF TestArg
  <2>2. CASE ~arg.dev
    <3>1. Goto(c, "set") /\ "set" \in Pcs
      BY <1>2, <2>2 DEF TestArg, Pcs, Holding
    <3> QED
      BY <1>2, <2>2, <3>1, GotoFacts DEF TestArg
  <2> QED
    BY <2>1, <2>2
<1>3. ASSUME NEW c \in Cancellers, SetArg(c) PROVE Shape'
  <2>1. c \in Holders /\ "add" \in Pcs
    BY <1>3 DEF SetArg, Holders, Holding, Pcs, Inside
  <2>2. th[c].dummy \in Dummies
    BY <2>1 DEF HoldInv
  <2>3. arg' \in [dev : BOOLEAN, dummy : Dummies \cup {None}]
    BY <1>3, <2>2 DEF SetArg
  <2>4. clean' \in BOOLEAN /\ crossed' \in BOOLEAN
    BY <1>3 DEF SetArg
  <2>5. alarm' \in AlarmStates
    BY <1>3 DEF SetArg, AlarmStates
  <2>6. th' \in [Cancellers -> ThreadObject]
    BY <1>3, <2>1, GotoFacts DEF SetArg
  <2> QED
    BY <1>3, <2>3, <2>4, <2>5, <2>6 DEF SetArg
<1>4. ASSUME NEW c \in Cancellers, AddCancel(c) PROVE Shape'
  <2>1. c \in Holders
    BY <1>4 DEF AddCancel, Holders, Holding
  <2>2. th[c].dummy \in Dummies
    BY <2>1 DEF HoldInv
  <2>3. [pc |-> "signal", dummy |-> None, want |-> th[c].want] \in ThreadObject
    BY DEF ThreadObject, Pcs, Inside
  <2>4. target' \in [Dummies -> Reqs \cup {None}]
    BY <1>4, <2>2 DEF AddCancel, ThreadObject
  <2> QED
    BY <1>4, <2>2, <2>3, <2>4 DEF AddCancel
<1>5. ASSUME NEW c \in Cancellers, Moves(c) PROVE Shape'
  <2>1. th' \in [Cancellers -> ThreadObject]
    BY <1>5, MoveFacts
  <2>2. sem' \in Nat
    BY <1>5 DEF Moves, Signal, Wait, Interrupt, StopAlarm, ClearDev
  <2>6. sig' = TRUE \/ sig' = sig
    BY <1>5, Zenon DEF Moves, Signal, Wait, Interrupt, StopAlarm, ClearDev, SignalDev
  <2>3. arg' \in [dev : BOOLEAN, dummy : Dummies \cup {None}]
    <3>1. arg' \in {arg, [arg EXCEPT !.dev = FALSE]}
      BY <1>5 DEF Moves, Signal, Wait, Interrupt, StopAlarm, ClearDev
    <3> QED
      BY <3>1
  <2>4. alarm' \in AlarmStates /\ clean' \in BOOLEAN /\ crossed' \in BOOLEAN
    BY <1>5 DEF Moves, Signal, Wait, Interrupt, StopAlarm, ClearDev, AlarmStates
  <2>5. UNCHANGED <<dummies, queues, hand, status, task, told>>
    BY <1>5 DEF Moves, Signal, Wait, Interrupt, StopAlarm, ClearDev
  <2> QED
    BY <2>1, <2>2, <2>3, <2>4, <2>5, <2>6
<1>6. ASSUME NEW c \in Cancellers, ClearArg(c) PROVE Shape'
  BY <1>6, SetFacts, IdleType DEF ClearArg
<1>7. CASE AlarmBegins
  <2>1. alarm' \in AlarmStates
    BY <1>7 DEF AlarmBegins, AlarmStates
  <2>2. crossed' \in BOOLEAN
    BY <1>7, Zenon DEF AlarmBegins
  <2> QED
    BY <1>7, <2>1, <2>2 DEF AlarmBegins
<1>8. CASE AlarmLooks
  BY <1>8 DEF AlarmLooks, AlarmStates
<1>9. CASE AlarmRemoves
  <2>1. /\ alarm' \in AlarmStates /\ status' \in {"SUCCESS", "NOOBJ", "TIMEOUT"}
        /\ cancelQ' \subseteq cancelQ
    BY <1>9 DEF AlarmRemoves, AlarmStates
  <2>2. target' \in [Dummies -> Reqs \cup {None}]
    BY <1>9, ForgetType DEF AlarmRemoves
  <2> QED
    BY <1>9, <2>1, <2>2 DEF AlarmRemoves
<1>10. CASE AlarmReleases
  <2>1. alarm' \in AlarmStates /\ free' \subseteq Dummies
    BY <1>10 DEF AlarmReleases, AlarmStates
  <2> QED
    BY <1>10, <2>1 DEF AlarmReleases
<1>11. CASE AlarmEnds
  BY <1>11 DEF AlarmEnds, AlarmStates, RelWait
<1>12. ASSUME NEW d \in Dummies, CheckCancel(d) PROVE Shape'
  <2>1. target' \in [Dummies -> Reqs \cup {None}]
    BY <1>12, ForgetType DEF CheckCancel
  <2>2. hand' \in [dummy : Dummies \cup {None}, req : Reqs \cup {None}]
    BY <1>12 DEF CheckCancel
  <2>3. req' \in [Reqs -> {"out", "QUEUED", "PROCESSING"}]
    BY <1>12 DEF CheckCancel
  <2> QED
    BY <1>12, <2>1, <2>2, <2>3 DEF CheckCancel
<1>13. ASSUME CancelDone PROVE Shape'
  BY <1>13 DEF CancelDone, RelWait, Empty
<1>14. ASSUME NEW d \in Dummies, FreeCopy(d) PROVE Shape'
  BY <1>14, ForgetType DEF FreeCopy
<1>15. ASSUME NEW r \in Reqs, Start(r) \/ Answer(r) \/ AddRequest(r) PROVE Shape'
  <2>1. req' \in [Reqs -> {"out", "QUEUED", "PROCESSING"}]
    BY <1>15 DEF Start, Answer, AddRequest
  <2>2. pending' \subseteq Reqs /\ task' \in {"sleep", "cancel", "done", "work"} /\ sig' \in BOOLEAN
    BY <1>15 DEF Start, Answer, AddRequest, SignalDev
  <2>3. UNCHANGED <<dummies, hand, waits, th, history>>
    BY <1>15 DEF Start, Answer, AddRequest
  <2> QED
    BY <2>1, <2>2, <2>3
<1>16. CASE NoCancel \/ TakeDevice \/ Sleep \/ Event
  BY <1>16 DEF NoCancel, TakeDevice, Sleep, Event, SignalDev
<1> QED
  BY <1>1, <1>2, <1>3, <1>4, <1>5, <1>6, <1>7, <1>8, <1>9, <1>10, <1>11, <1>12, <1>13, <1>14,
     <1>15, <1>16, NextCases
  DEF TaskSide

\* The dummies that stay in the cancel queue keep their ids.
LEMMA ForgetFacts ==
  ASSUME Shape, Forget, cancelQ' \subseteq cancelQ
  PROVE  \A d \in cancelQ' : target'[d] = target[d]
BY DEF Shape, Forget

LEMMA TargetStep ==
  ASSUME IInv, Next
  PROVE  TargetInv'
<1> USE DEF IInv, TargetInv
<1>1. ASSUME NEW c \in Cancellers,
             \/ \E r \in Reqs, d \in Dummies : GetDummy(c, r, d)
             \/ TestArg(c) \/ SetArg(c) \/ AddCancel(c) \/ Moves(c) \/ ClearArg(c)
      PROVE  TargetInv'
  <2>1. \A u \in Cancellers : th'[u].pc # "idle" => th'[u].want \in Reqs
    <3>1. CASE \E r \in Reqs, d \in Dummies : GetDummy(c, r, d)
      BY <3>1 DEF GetDummy, Shape
    <3>2. CASE ~\E r \in Reqs, d \in Dummies : GetDummy(c, r, d)
      <4>1. th[c].pc # "idle"
        BY <1>1, <3>2 DEF TestArg, SetArg, AddCancel, Moves, Signal, Wait, Interrupt, StopAlarm,
                          ClearDev, ClearArg
      <4> QED
        BY <1>1, <4>1, ThreadFacts
    <3> QED
      BY <3>1, <3>2
  <2>2. \A d \in cancelQ' : target'[d] \in Reqs
    <3>1. CASE AddCancel(c)
      <4>1. c \in Holders /\ th[c].want \in Reqs
        BY <3>1 DEF AddCancel, Holders, Holding
      <4>2. th[c].dummy \in Dummies
        BY <4>1 DEF HoldInv
      <4> QED
        BY <3>1, <4>1, <4>2 DEF AddCancel, Shape
    <3>2. CASE (\E r \in Reqs, d \in Dummies : GetDummy(c, r, d)) \/ ClearArg(c)
      BY <3>2 DEF GetDummy, ClearArg
    <3>3. CASE TestArg(c) \/ SetArg(c)
      BY <3>3 DEF TestArg, SetArg
    <3>4. CASE Moves(c)
      BY <3>4 DEF Moves, Signal, Wait, Interrupt, StopAlarm, ClearDev
    <3> QED
      BY <1>1, <3>1, <3>2, <3>3, <3>4
  <2> QED
    BY <2>1, <2>2
<1>2. ASSUME th' = th, cancelQ' \subseteq cancelQ, Forget PROVE TargetInv'
  BY <1>2, ForgetFacts
<1>3. CASE AlarmBegins \/ AlarmLooks \/ AlarmReleases \/ AlarmEnds
  BY <1>3 DEF AlarmBegins, AlarmLooks, AlarmReleases, AlarmEnds
<1>4. CASE AlarmRemoves
  BY <1>2, <1>4 DEF AlarmRemoves
<1>5. ASSUME NEW d \in Dummies, CheckCancel(d) \/ FreeCopy(d) PROVE TargetInv'
  BY <1>2, <1>5 DEF CheckCancel, FreeCopy
<1>6. CASE \/ NoCancel \/ TakeDevice \/ CancelDone \/ Sleep \/ Event
           \/ \E r \in Reqs : Start(r) \/ Answer(r) \/ AddRequest(r)
  BY <1>6 DEF NoCancel, TakeDevice, CancelDone, Sleep, Event, Start, Answer, AddRequest
<1> QED
  BY <1>1, <1>3, <1>4, <1>5, <1>6, NextCases DEF TaskSide

(****************************************************************************)
(* Requests and counters.                                                   *)
(****************************************************************************)
LEMMA FiniteParts ==
  ASSUME Shape
  PROVE  /\ \A q \in {"rx", "tx"} : IsFiniteSet(InQueue(q)) /\ Cardinality(InQueue(q)) \in Nat
         /\ IsFiniteSet(copies) /\ Cardinality(copies) \in Nat
         /\ IsFiniteSet(cancelQ) /\ Cardinality(cancelQ) \in Nat
         /\ IsFiniteSet(Waiters) /\ Cardinality(Waiters) \in Nat
<1>1. \A q \in {"rx", "tx"} : InQueue(q) \subseteq Reqs
  BY DEF InQueue
<1>2. copies \subseteq Dummies /\ cancelQ \subseteq Dummies /\ Waiters \subseteq Cancellers
  BY DEF Shape, Waiters
<1> QED
  BY <1>1, <1>2, FS_Subset, FS_CardinalityType

\* A request that comes to a queue, or leaves it, counts for that queue.
LEMMA QueueStep ==
  ASSUME Shape, NEW r \in Reqs, NEW s \in {"out", "QUEUED", "PROCESSING"},
         req' = [req EXCEPT ![r] = s]
  PROVE  \A q \in {"rx", "tx"} :
           InQueue(q)' = IF QueueOf(r) # q THEN InQueue(q)
                         ELSE IF s = "out" THEN InQueue(q) \ {r} ELSE InQueue(q) \cup {r}
BY DEF Shape, InQueue

LEMMA QueueOfType == \A r \in Reqs : QueueOf(r) \in {"rx", "tx"}
BY DEF QueueOf

\* What the counter of a queue counts.
Load(q) == IF q = "tx" THEN Cardinality(InQueue("tx")) + Cardinality(copies)
           ELSE Cardinality(InQueue(q))

Placed ==
  /\ pending = InQueue("rx") \cup InQueue("tx") \cup ({hand.req} \ {None})
  /\ hand.req # None => req[hand.req] = "out"
Counted == /\ cnt["rx"] = Load("rx")
           /\ ~crossed => cnt["tx"] = Load("tx")

LEMMA AccountedParts == RequestsAccounted <=> Placed /\ Counted
BY DEF RequestsAccounted, Placed, Counted, Load

LEMMA UncountStep ==
  ASSUME Bounded, NEW q \in {"rx", "tx"}, Uncount(q)
  PROVE  /\ Bounded'
         /\ \A p \in {"rx", "tx"} : cnt'[p] = IF p = q THEN cnt[p] - 1 ELSE cnt[p]
<1>1. \A p \in {"rx", "tx"} : cnt'[p] = IF p = q THEN cnt[p] - 1 ELSE cnt[p]
  BY DEF Bounded, Uncount
<1>2. \A p \in {"rx", "tx"} : Size(p) \in Nat
  BY DEF Size
<1> QED
  BY <1>1, <1>2 DEF Bounded, Uncount

\* A request that leaves its queue uncounts it.
LEMMA LeaveStep ==
  ASSUME Shape, Bounded, Counted, NEW r \in Reqs, req[r] # "out",
         req' = [req EXCEPT ![r] = "out"], Uncount(QueueOf(r)), UNCHANGED <<copies, crossed>>
  PROVE  Bounded' /\ Counted'
<1> DEFINE q == QueueOf(r)
<1>1. q \in {"rx", "tx"}
  BY QueueOfType
<1>2. r \in InQueue(q)
  BY <1>1 DEF InQueue
<1>3. InQueue(q)' = InQueue(q) \ {r}
  BY <1>1, QueueStep
<1>4. Cardinality(InQueue(q)') = Cardinality(InQueue(q)) - 1
  BY <1>1, <1>2, <1>3, FiniteParts, FS_RemoveElement
<1>5. \A p \in {"rx", "tx"} \ {q} : InQueue(p)' = InQueue(p)
  BY <1>1, QueueStep
<1>7. Bounded' /\ \A p \in {"rx", "tx"} : cnt'[p] = IF p = q THEN cnt[p] - 1 ELSE cnt[p]
  BY <1>1, UncountStep
<1>8. \A p \in {"rx", "tx"} : Load(p)' = IF p = q THEN Load(p) - 1 ELSE Load(p)
  BY <1>1, <1>4, <1>5, FiniteParts DEF Load
<1> QED
  BY <1>7, <1>8 DEF Counted

LEMMA AccStep ==
  ASSUME IInv, Next
  PROVE  Bounded' /\ RequestsAccounted'
<1>0. /\ Shape /\ Bounded /\ Placed /\ Counted /\ HoldInv /\ TargetInv
      /\ ~crossed => Disjoint
  BY AccountedParts DEF IInv, OwnInv, Owned
<1> SUFFICES Bounded' /\ Placed' /\ Counted'
  BY AccountedParts, PTL
<1> HIDE DEF IInv
<1>1. ASSUME NEW d \in Dummies, CheckCancel(d) PROVE Bounded' /\ Placed' /\ Counted'
  <2> DEFINE r == target[d]
  <2>1. r \in Reqs /\ hand = Empty /\ crossed' = crossed
    BY <1>0, <1>1 DEF TargetInv, HoldInv, CheckCancel
  <2>2. CASE ~Found(r)
    <3>1. UNCHANGED <<req, cnt, copies, pending>> /\ hand'.req = None
      BY <1>1, <2>2 DEF CheckCancel
    <3>2. \A q \in {"rx", "tx"} : InQueue(q)' = InQueue(q)
      BY <3>1 DEF InQueue
    <3> QED
      BY <1>0, <2>1, <3>1, <3>2 DEF Bounded, Placed, Counted, Load, Empty
  <2>3. CASE Found(r)
    <3>1. r \in Reqs /\ req[r] # "out"
      BY <2>1, <2>3 DEF Found
    <3>2. req' = [req EXCEPT ![r] = "out"] /\ hand'.req = r /\ pending' = pending
      BY <1>1, <2>3 DEF CheckCancel
    <3>3. r \in InQueue(QueueOf(r)) /\ QueueOf(r) \in {"rx", "tx"}
      BY <3>1, QueueOfType DEF InQueue
    <3>4. \A q \in {"rx", "tx"} :
            InQueue(q)' = IF QueueOf(r) # q THEN InQueue(q) ELSE InQueue(q) \ {r}
      BY <1>0, <3>1, <3>2, QueueStep
    <3>5. Placed'
      <4>1. r # None /\ req'[r] = "out"
        BY <1>0, <3>1, <3>2 DEF Shape
      <4>2. pending = InQueue("rx") \cup InQueue("tx")
        BY <1>0, <2>1 DEF Placed, Empty
      <4> QED
        BY <3>2, <3>3, <3>4, <4>1, <4>2 DEF Placed
    <3>6. CASE ~Swapped(r)
      <4>1. Uncount(QueueOf(r)) /\ copies' = copies
        BY <1>1, <2>3, <3>6 DEF CheckCancel
      <4> QED
        BY <1>0, <2>1, <3>1, <3>2, <3>5, <4>1, LeaveStep
    <3>7. CASE Swapped(r)
      <4>1. cnt' = cnt /\ copies' = copies \cup {d} /\ (~crossed => d \notin copies)
        BY <1>0, <1>1, <2>3, <3>7 DEF CheckCancel, Disjoint
      <4>2. QueueOf(r) = "tx"
        BY <3>7 DEF Swapped, QueueOf
      <4>3. Cardinality(InQueue("tx")') = Cardinality(InQueue("tx")) - 1
        <5>1. r \in InQueue("tx") /\ InQueue("tx")' = InQueue("tx") \ {r}
          BY <3>3, <3>4, <4>2
        <5>2. IsFiniteSet(InQueue("tx"))
          BY <1>0, FiniteParts
        <5> QED
          BY <5>1, <5>2, FS_RemoveElement
      <4>4. ~crossed => Cardinality(copies') = Cardinality(copies) + 1
        BY <1>0, <4>1, FiniteParts, FS_AddElement
      <4>5. Load("rx")' = Load("rx") /\ (~crossed => Load("tx")' = Load("tx"))
        BY <1>0, <3>4, <4>2, <4>3, <4>4, FiniteParts DEF Load
      <4> QED
        BY <1>0, <2>1, <3>5, <4>1, <4>5 DEF Bounded, Counted
    <3> QED
      BY <3>6, <3>7
  <2> QED
    BY <2>2, <2>3
<1>2. ASSUME CancelDone PROVE Bounded' /\ Placed' /\ Counted'
  <2>1. /\ UNCHANGED <<req, cnt, copies, crossed>> /\ hand' = Empty
        /\ pending' = pending \ {hand.req}
    BY <1>2 DEF CancelDone
  <2>2. \A q \in {"rx", "tx"} : InQueue(q)' = InQueue(q)
    BY <2>1 DEF InQueue
  <2>3. hand.req \notin InQueue("rx") \cup InQueue("tx")
    BY <1>0 DEF Placed, InQueue
  <2> QED
    BY <1>0, <2>1, <2>2, <2>3 DEF Bounded, Placed, Counted, Load, Empty
<1>3. ASSUME NEW r \in Reqs, Start(r) PROVE Bounded' /\ Placed' /\ Counted'
  <2>1. UNCHANGED <<cnt, copies, pending, hand, crossed>> /\ hand = Empty
    BY <1>0, <1>3 DEF Start, HoldInv
  <2>2. r \in InQueue(QueueOf(r)) /\ QueueOf(r) \in {"rx", "tx"}
    BY <1>3, QueueOfType DEF InQueue, Start
  <2>3. \A q \in {"rx", "tx"} : InQueue(q)' = InQueue(q)
    <3>1. \A q \in {"rx", "tx"} :
            InQueue(q)' = IF QueueOf(r) # q THEN InQueue(q) ELSE InQueue(q) \cup {r}
      BY <1>0, <1>3, QueueStep DEF Start
    <3> QED
      BY <2>2, <3>1
  <2> QED
    BY <1>0, <2>1, <2>3 DEF Bounded, Placed, Counted, Load, Empty
<1>4. ASSUME NEW r \in Reqs, Answer(r) PROVE Bounded' /\ Placed' /\ Counted'
  <2>1. /\ req[r] # "out" /\ req' = [req EXCEPT ![r] = "out"] /\ Uncount(QueueOf(r))
        /\ pending' = pending \ {r} /\ UNCHANGED <<copies, hand, crossed>>
    BY <1>4 DEF Answer
  <2>2. hand = Empty
    BY <1>0, <1>4 DEF Answer, HoldInv
  <2>3. \A q \in {"rx", "tx"} : r \notin InQueue(q)' /\ InQueue(q)' \cup {r} = InQueue(q) \cup {r}
    <3>1. \A q \in {"rx", "tx"} :
            InQueue(q)' = IF QueueOf(r) # q THEN InQueue(q) ELSE InQueue(q) \ {r}
      BY <1>0, <2>1, QueueStep
    <3>2. \A q \in {"rx", "tx"} : QueueOf(r) # q => r \notin InQueue(q)
      BY DEF InQueue
    <3> QED
      BY <3>1, <3>2
  <2>4. Placed'
    BY <1>0, <2>1, <2>2, <2>3 DEF Placed, Empty
  <2> QED
    BY <1>0, <2>1, <2>4, LeaveStep
<1>5. ASSUME NEW d \in Dummies, FreeCopy(d) PROVE Bounded' /\ Placed' /\ Counted'
  <2>1. /\ d \in copies /\ copies' = copies \ {d} /\ Uncount("tx")
        /\ UNCHANGED <<req, pending, hand, crossed>>
    BY <1>5 DEF FreeCopy
  <2>2. \A q \in {"rx", "tx"} : InQueue(q)' = InQueue(q)
    BY <2>1 DEF InQueue
  <2>3. Cardinality(copies') = Cardinality(copies) - 1
    BY <1>0, <2>1, FiniteParts, FS_RemoveElement
  <2>5. Bounded' /\ \A p \in {"rx", "tx"} : cnt'[p] = IF p = "tx" THEN cnt[p] - 1 ELSE cnt[p]
    BY <1>0, <2>1, UncountStep
  <2>6. Load("tx")' = Load("tx") - 1 /\ Load("rx")' = Load("rx")
    BY <1>0, <2>2, <2>3, FiniteParts DEF Load
  <2>7. Counted'
    BY <1>0, <2>1, <2>5, <2>6 DEF Counted
  <2>8. Placed'
    BY <1>0, <2>1, <2>2 DEF Placed
  <2> QED
    BY <2>5, <2>7, <2>8
<1>6. ASSUME NEW r \in Reqs, AddRequest(r) PROVE Bounded' /\ Placed' /\ Counted'
  <2> DEFINE q == QueueOf(r)
  <2>1. /\ r \notin pending /\ cnt[q] < Size(q) /\ req' = [req EXCEPT ![r] = "QUEUED"]
        /\ cnt' = [cnt EXCEPT ![q] = @ + 1] /\ pending' = pending \cup {r}
        /\ UNCHANGED <<hand, copies, crossed>>
    BY <1>6 DEF AddRequest
  <2>2. q \in {"rx", "tx"} /\ Size(q) \in Nat
    BY QueueOfType DEF Size
  <2>3. r \notin InQueue(q) /\ r # hand.req
    BY <1>0, <2>1, <2>2 DEF Placed
  <2>4. InQueue(q)' = InQueue(q) \cup {r}
    BY <1>0, <2>1, <2>2, QueueStep
  <2>5. \A p \in {"rx", "tx"} \ {q} : InQueue(p)' = InQueue(p)
    BY <1>0, <2>1, <2>2, QueueStep
  <2>6. Placed'
    <3>1. hand.req # None => req'[hand.req] = "out"
      BY <1>0, <2>1, <2>3 DEF Placed, Shape
    <3> QED
      BY <1>0, <2>1, <2>2, <2>4, <2>5, <3>1 DEF Placed
  <2>7. Cardinality(InQueue(q)') = Cardinality(InQueue(q)) + 1
    BY <1>0, <2>2, <2>3, <2>4, FiniteParts, FS_AddElement
  <2>8. \A p \in {"rx", "tx"} : Load(p)' = IF p = q THEN Load(p) + 1 ELSE Load(p)
    BY <1>0, <2>1, <2>2, <2>5, <2>7, FiniteParts DEF Load
  <2>9. \A p \in {"rx", "tx"} : cnt'[p] = IF p = q THEN cnt[p] + 1 ELSE cnt[p]
    BY <1>0, <2>1 DEF Bounded
  <2>10. Counted'
    BY <1>0, <2>1, <2>8, <2>9 DEF Counted
  <2>11. Bounded'
    BY <1>0, <2>1, <2>2, <2>9 DEF Bounded, Size
  <2> QED
    BY <2>6, <2>10, <2>11
<1>7. ASSUME UNCHANGED <<queues, copies, hand>>, crossed => crossed'
      PROVE  Bounded' /\ Placed' /\ Counted'
  <2>1. \A q \in {"rx", "tx"} : InQueue(q)' = InQueue(q)
    BY <1>7 DEF InQueue
  <2> QED
    BY <1>0, <1>7, <2>1 DEF Bounded, Placed, Counted, Load
<1>8. ASSUME NEW c \in Cancellers,
             \/ \E r \in Reqs, d \in Dummies : GetDummy(c, r, d)
             \/ TestArg(c) \/ SetArg(c) \/ AddCancel(c) \/ Moves(c) \/ ClearArg(c)
      PROVE  Bounded' /\ Placed' /\ Counted'
  <2>1. UNCHANGED <<queues, copies>>
    BY <1>8 DEF GetDummy, TestArg, SetArg, AddCancel, Moves, Signal, Wait, Interrupt, StopAlarm,
                ClearDev, ClearArg
  <2> QED
    BY <1>0, <1>7, <1>8, <2>1, ThreadFacts
<1>9. CASE AlarmBegins \/ AlarmLooks \/ AlarmRemoves \/ AlarmReleases \/ AlarmEnds
  <2>1. crossed => crossed'
    BY <1>9 DEF AlarmBegins, AlarmLooks, AlarmRemoves, AlarmReleases, AlarmEnds
  <2> QED
    BY <1>7, <1>9, <2>1, AlarmFrame
<1>10. CASE NoCancel \/ TakeDevice \/ Sleep \/ Event
  BY <1>7, <1>10 DEF NoCancel, TakeDevice, Sleep, Event
<1> QED
  BY <1>1, <1>2, <1>3, <1>4, <1>5, <1>6, <1>8, <1>9, <1>10, NextCases DEF TaskSide

(****************************************************************************)
(* The end of the wait.                                                     *)
(****************************************************************************)
InDone == IF task = "done" THEN 1 ELSE 0
InTakenBack == IF TakenBack THEN 1 ELSE 0
Enough == Cardinality(Waiters) <= sem + Cardinality(cancelQ) + InDone + InTakenBack

LEMMA EnoughIsIt == EndForEachWait <=> (~crossed => Enough)
BY DEF EndForEachWait, Enough, Ends, InDone, InTakenBack, TakenBack

LEMMA EndStep ==
  ASSUME IInv, Next, ~crossed'
  PROVE  Enough'
<1>0. Shape /\ Owned /\ CallbackInv /\ ~crossed /\ Enough
  <2>1. crossed => crossed'
    BY NextCases, ThreadFacts, TaskSideFrame
    DEF AlarmBegins, AlarmLooks, AlarmRemoves, AlarmReleases, AlarmEnds, IInv
  <2> QED
    BY <2>1, EnoughIsIt DEF IInv, OwnInv
<1>1. /\ sem \in Nat /\ Cardinality(cancelQ) \in Nat /\ Cardinality(Waiters) \in Nat
      /\ InDone \in {0, 1} /\ InTakenBack \in {0, 1}
  BY <1>0, FiniteParts DEF Shape, InDone, InTakenBack
<1>2. Cardinality(Waiters) <= sem + Cardinality(cancelQ) + InDone + InTakenBack
  BY <1>0 DEF Enough
<1> USE DEF Enough
<1>3. ASSUME NEW c \in Cancellers, AddCancel(c) PROVE Enough'
  <2>1. c \in Holders
    BY <1>3 DEF AddCancel, Holders, Holding
  <2>2. th[c].dummy \notin cancelQ
    BY <1>0, <2>1 DEF Owned, HeldOnce, Elsewhere
  <2>3. Waiters' = Waiters \cup {c} /\ c \notin Waiters
    BY <1>0, <1>3 DEF AddCancel, Waiters, Shape
  <2>4. cancelQ' = cancelQ \cup {th[c].dummy} /\ UNCHANGED <<sem, task, alarm>>
    BY <1>3 DEF AddCancel
  <2>5. Cardinality(Waiters') = Cardinality(Waiters) + 1
    BY <1>0, <2>3, FiniteParts, FS_AddElement
  <2>6. Cardinality(cancelQ') = Cardinality(cancelQ) + 1
    BY <1>0, <2>2, <2>4, FiniteParts, FS_AddElement
  <2>7. InDone' = InDone /\ InTakenBack' = InTakenBack
    BY <2>4 DEF InDone, InTakenBack, TakenBack
  <2> QED
    BY <1>1, <1>2, <2>4, <2>5, <2>6, <2>7
<1>4. ASSUME NEW c \in Cancellers, Wait(c) \/ Interrupt(c) PROVE Enough'
  <2>1. Goto(c, "stop") /\ "stop" \in Pcs /\ c \in Waiters
    BY <1>4 DEF Wait, Interrupt, Pcs, Inside, Waiters
  <2>2. Waiters' = Waiters \ {c}
    BY <1>0, <2>1, GotoFacts DEF Waiters
  <2>3. Cardinality(Waiters') = Cardinality(Waiters) - 1
    BY <1>0, <2>1, <2>2, FiniteParts, FS_RemoveElement
  <2>4. UNCHANGED <<cancelQ, task, alarm>> /\ sem' >= sem - 1 /\ sem' \in Int
    BY <1>1, <1>4 DEF Wait, Interrupt
  <2>5. InDone' = InDone /\ InTakenBack' = InTakenBack
    BY <2>4 DEF InDone, InTakenBack, TakenBack
  <2> QED
    BY <1>1, <1>2, <2>3, <2>4, <2>5
<1>5. ASSUME NEW c \in Cancellers, \/ \E r \in Reqs, d \in Dummies : GetDummy(c, r, d)
                                   \/ TestArg(c) \/ SetArg(c) \/ Signal(c) \/ StopAlarm(c)
                                   \/ ClearDev(c) \/ ClearArg(c)
      PROVE  Enough'
  <2>1. UNCHANGED <<sem, cancelQ, task>>
    BY <1>5 DEF GetDummy, TestArg, SetArg, Signal, StopAlarm, ClearDev, ClearArg
  <2>2. InTakenBack' = InTakenBack
    BY <1>5 DEF GetDummy, TestArg, SetArg, Signal, StopAlarm, ClearDev, ClearArg,
                InTakenBack, TakenBack
  <2>3. th'[c].pc \in {"signal", "wait"} <=> th[c].pc \in {"signal", "wait"}
    <3>1. CASE \E r \in Reqs, d \in Dummies : GetDummy(c, r, d)
      BY <1>0, <3>1 DEF GetDummy, Shape
    <3>2. CASE TestArg(c) \/ SetArg(c) \/ ClearArg(c)
      BY <1>0, <3>2, IdleType, GotoFacts, SetFacts
      DEF TestArg, SetArg, ClearArg, Pcs, Inside, Holding
    <3>3. CASE Signal(c) \/ StopAlarm(c) \/ ClearDev(c)
      BY <1>0, <3>3, GotoFacts DEF Signal, StopAlarm, ClearDev, Pcs, Inside
    <3> QED
      BY <1>5, <3>1, <3>2, <3>3
  <2>4. \A u \in Cancellers \ {c} : th'[u] = th[u]
    BY <1>0, <1>5, ThreadFacts DEF Moves, IInv
  <2>5. Waiters' = Waiters
    BY <2>3, <2>4 DEF Waiters
  <2> QED
    BY <1>1, <1>2, <2>1, <2>2, <2>5 DEF InDone
<1>6. CASE AlarmBegins \/ AlarmLooks \/ AlarmReleases
  <2>1. UNCHANGED <<th, sem, cancelQ, task>>
    BY <1>6 DEF AlarmBegins, AlarmLooks, AlarmReleases
  <2>2. InTakenBack' = InTakenBack
    BY <1>0, <1>6 DEF AlarmBegins, AlarmLooks, AlarmReleases, CallbackInv, Running, InTakenBack,
                      TakenBack
  <2> QED
    BY <1>1, <1>2, <2>1, <2>2 DEF InDone, Waiters
<1>7. CASE AlarmRemoves
  <2>1. arg.dev /\ arg.dummy # None /\ arg.dummy \in cancelQ
    BY <1>0, <1>7 DEF AlarmRemoves, CallbackInv, Running
  <2>2. /\ alarm' = "removed" /\ alarm = "found" /\ cancelQ' = cancelQ \ {arg.dummy}
        /\ UNCHANGED <<th, sem, task>>
    BY <1>7, <2>1 DEF AlarmRemoves
  <2>3. Cardinality(cancelQ') = Cardinality(cancelQ) - 1
    BY <1>0, <2>1, <2>2, FiniteParts, FS_RemoveElement
  <2>4. InTakenBack' = 1 /\ InTakenBack = 0
    BY <2>2 DEF InTakenBack, TakenBack
  <2> QED
    BY <1>1, <1>2, <2>2, <2>3, <2>4 DEF InDone, Waiters
<1>8. CASE AlarmEnds
  <2>1. arg.dev
    BY <1>0, <1>8 DEF AlarmEnds, CallbackInv, Running
  <2>2. /\ alarm' = "fired" /\ alarm = "released" /\ sem' = sem + 1
        /\ UNCHANGED <<th, cancelQ, task>>
    BY <1>8, <2>1 DEF AlarmEnds, RelWait
  <2>4. InTakenBack' = 0 /\ InTakenBack = 1
    BY <2>2 DEF InTakenBack, TakenBack
  <2> QED
    BY <1>1, <1>2, <2>2, <2>4 DEF InDone, Waiters
<1>9. ASSUME NEW d \in Dummies, CheckCancel(d) PROVE Enough'
  <2>1. /\ UNCHANGED <<th, sem, alarm>> /\ task = "cancel" /\ task' = "done"
        /\ d \in cancelQ /\ cancelQ' = cancelQ \ {d}
    BY <1>9 DEF CheckCancel
  <2>2. Cardinality(cancelQ') = Cardinality(cancelQ) - 1
    BY <1>0, <2>1, FiniteParts, FS_RemoveElement
  <2>3. InDone' = 1 /\ InDone = 0
    BY <2>1 DEF InDone
  <2> QED
    BY <1>1, <1>2, <2>1, <2>2, <2>3 DEF InTakenBack, TakenBack, Waiters
<1>10. ASSUME CancelDone PROVE Enough'
  <2>1. /\ UNCHANGED <<th, alarm, cancelQ>> /\ sem' = sem + 1 /\ task = "done" /\ task' = "work"
    BY <1>10 DEF CancelDone, RelWait
  <2>2. InDone' = 0 /\ InDone = 1
    BY <2>1 DEF InDone
  <2> QED
    BY <1>1, <1>2, <2>1, <2>2 DEF InTakenBack, TakenBack, Waiters
<1>11. CASE \/ NoCancel \/ TakeDevice \/ Sleep \/ Event
            \/ \E d \in Dummies : FreeCopy(d)
            \/ \E r \in Reqs : Start(r) \/ Answer(r) \/ AddRequest(r)
  <2>1. /\ UNCHANGED <<th, sem, cancelQ, alarm>>
        /\ task' = task \/ (task # "done" /\ task' # "done")
    BY <1>11 DEF NoCancel, TakeDevice, Sleep, Event, FreeCopy, Start, Answer, AddRequest
  <2>2. InDone' = InDone
    BY <2>1 DEF InDone
  <2> QED
    BY <1>2, <2>1, <2>2 DEF Waiters, InTakenBack, TakenBack
<1> QED
  BY <1>3, <1>4, <1>5, <1>6, <1>7, <1>8, <1>9, <1>10, <1>11, NextCases DEF TaskSide, Moves

(****************************************************************************)
(* The answer.                                                              *)
(****************************************************************************)
\* Steps outside a cancel.
LEMMA CleanFrame ==
  ASSUME Shape, CleanInv,
         UNCHANGED <<cancelQ, target, hand, status, sem, sig, task, alarm, history>>,
         \A u \in Cancellers : /\ th'[u].pc \in Inside <=> th[u].pc \in Inside
                               /\ th[u].pc \in Inside => th'[u] = th[u]
  PROVE  CleanInv'
<1> SUFFICES ASSUME clean PROVE ~crossed' /\ Alone' /\ OneEnd' /\ ForIt'
  BY DEF CleanInv
<1> USE DEF CleanInv, Inside
<1>1. Alone' /\ ~crossed'
  BY DEF Alone
<1>2. OneEnd'
  <2>1. TakenBack' <=> TakenBack
    BY DEF TakenBack
  <2>2. (\E c \in Cancellers : th[c].pc = "signal") => \E c \in Cancellers : th'[c].pc = "signal"
    OBVIOUS
  <2>3. (\E c \in Cancellers : th[c].pc \in {"signal", "wait"}) =>
          \E c \in Cancellers : th'[c].pc \in {"signal", "wait"}
    OBVIOUS
  <2> QED
    BY <2>1, <2>2, <2>3 DEF OneEnd
<1>3. ForIt'
  <2>1. \A u \in told : /\ u \in Cancellers /\ th'[u] = th[u]
                        /\ th[u].pc \in {"signal", "wait", "stop", "dev", "clear"}
    BY DEF ForIt, Shape
  <2> QED
    BY <2>1 DEF ForIt
<1> QED
  BY <1>1, <1>2, <1>3

\* A thread that is in its cancel is the only one, and what there is, is for it.
LEMMA AloneFacts ==
  ASSUME Shape, CleanInv, clean, NEW c \in Cancellers, th[c].pc \in Inside
  PROVE  /\ \A u \in Cancellers \ {c} : th[u].pc \notin Inside
         /\ told \subseteq {c} /\ ~crossed
         /\ th[c].pc \notin {"signal", "wait"} =>
              cancelQ = {} /\ task # "done" /\ sem = 0 /\ ~TakenBack
         /\ th[c].pc = "add" => told = {}
<1>1. \A u \in Cancellers \ {c} : th[u].pc \notin Inside
  BY DEF CleanInv, Alone
<1>2. told \subseteq {c} /\ (th[c].pc = "add" => told = {})
  BY <1>1 DEF CleanInv, ForIt, Inside, Shape
<1>3. th[c].pc \notin {"signal", "wait"} =>
        cancelQ = {} /\ task # "done" /\ sem = 0 /\ ~TakenBack
  BY <1>1 DEF CleanInv, OneEnd, Inside, Shape
<1> QED
  BY <1>1, <1>2, <1>3 DEF CleanInv

LEMMA CleanStep ==
  ASSUME IInv, Next
  PROVE  CleanInv'
<1>0. Shape /\ OwnInv /\ HoldInv /\ TargetInv /\ CallbackInv /\ CleanInv
  BY DEF IInv
<1>1. ASSUME NEW c \in Cancellers, NEW r \in Reqs, NEW d \in Dummies, GetDummy(c, r, d)
      PROVE  CleanInv'
  <2>1. /\ th[c].pc = "idle" /\ th'[c].pc = "test"
        /\ \A u \in Cancellers \ {c} : th'[u] = th[u]
    BY <1>0, <1>1 DEF GetDummy, Shape
  <2>2. \A u \in Cancellers : /\ th'[u].pc \in Inside <=> th[u].pc \in Inside
                              /\ th[u].pc \in Inside => th'[u] = th[u]
    BY <2>1 DEF Inside
  <2> QED
    BY <1>0, <1>1, <2>2, CleanFrame DEF GetDummy
<1>2. ASSUME NEW c \in Cancellers, TestArg(c) PROVE CleanInv'
  <2>1. /\ th[c].pc = "test" /\ th'[c].pc \in {"idle", "set"}
        /\ \A u \in Cancellers \ {c} : th'[u] = th[u]
    BY <1>0, <1>2, IdleType DEF TestArg, Shape, Goto, ThreadObject
  <2>2. \A u \in Cancellers : /\ th'[u].pc \in Inside <=> th[u].pc \in Inside
                              /\ th[u].pc \in Inside => th'[u] = th[u]
    BY <2>1 DEF Inside
  <2> QED
    BY <1>0, <1>2, <2>2, CleanFrame DEF TestArg
<1>3. ASSUME NEW c \in Cancellers, SetArg(c) PROVE CleanInv'
  <2> SUFFICES ASSUME clean' PROVE ~crossed' /\ Alone' /\ OneEnd' /\ ForIt'
    BY DEF CleanInv
  <2>1. clean /\ \A u \in Cancellers : th[u].pc \notin Inside
    BY <1>3 DEF SetArg, InCancel
  <2>0. ~crossed'
    BY <1>0, <1>3, <2>1 DEF SetArg, InCancel, CleanInv
  <2>2. th'[c].pc = "add" /\ \A u \in Cancellers \ {c} : th'[u] = th[u]
    BY <1>0, <1>3, GotoFacts DEF SetArg, Pcs, Inside
  <2>3. cancelQ = {} /\ task # "done" /\ sem = 0 /\ ~TakenBack
    BY <1>0, <2>1 DEF CleanInv, OneEnd, Inside, Shape
  <2>4. told = {}
    BY <1>0, <2>1 DEF CleanInv, ForIt, Inside, Shape
  <2>5. UNCHANGED <<cancelQ, task, sem, told>> /\ ~TakenBack'
    BY <1>3, <2>3 DEF SetArg, TakenBack
  <2> QED
    BY <2>0, <2>1, <2>2, <2>3, <2>4, <2>5 DEF Alone, OneEnd, ForIt, Inside
<1>4. ASSUME NEW c \in Cancellers, AddCancel(c) PROVE CleanInv'
  <2> SUFFICES ASSUME clean PROVE ~crossed' /\ Alone' /\ OneEnd' /\ ForIt'
    BY <1>4 DEF CleanInv, AddCancel
  <2> DEFINE d == th[c].dummy
  <2>1. /\ th[c].pc = "add" /\ th'[c].pc = "signal" /\ th'[c].want = th[c].want
        /\ \A u \in Cancellers \ {c} : th'[u] = th[u]
    BY <1>0, <1>4 DEF AddCancel, Shape
  <2>2. /\ \A u \in Cancellers \ {c} : th[u].pc \notin Inside
        /\ cancelQ = {} /\ task # "done" /\ sem = 0 /\ ~TakenBack /\ told = {} /\ ~crossed
    BY <1>0, <2>1, AloneFacts DEF Inside
  <2>5. d \in Dummies
    BY <1>0, <2>1 DEF HoldInv, Holders, Holding
  <2>6. cancelQ' = {d} /\ target'[d] = th[c].want
    BY <1>0, <1>4, <2>2, <2>5 DEF AddCancel, Shape
  <2>7. UNCHANGED <<task, sem, told, crossed>> /\ ~TakenBack'
    BY <1>4, <2>2 DEF AddCancel, TakenBack
  <2>8. Alone' /\ OneEnd'
    BY <2>1, <2>2, <2>6, <2>7 DEF Alone, OneEnd, Inside
  <2>9. ForIt'
    BY <2>1, <2>2, <2>6, <2>7 DEF ForIt, Inside
  <2> QED
    BY <2>2, <2>7, <2>8, <2>9
<1>5. ASSUME NEW c \in Cancellers, Signal(c) PROVE CleanInv'
  <2> SUFFICES ASSUME clean PROVE ~crossed' /\ Alone' /\ OneEnd' /\ ForIt'
    BY <1>5 DEF CleanInv, Signal
  <2>1. /\ th[c].pc = "signal" /\ th'[c].pc = "wait" /\ th'[c].want = th[c].want
        /\ \A u \in Cancellers \ {c} : th'[u] = th[u]
    BY <1>0, <1>5, GotoFacts DEF Signal, Pcs, Inside
  <2>2. \A u \in Cancellers \ {c} : th[u].pc \notin Inside
    BY <1>0, <2>1, AloneFacts DEF Inside
  <2>3. UNCHANGED <<cancelQ, target, hand, status, sem, task, alarm, told, crossed>>
    BY <1>5 DEF Signal
  <2>7. sig'
    BY <1>5, Zenon DEF Signal, SignalDev
  <2>4. TakenBack' <=> TakenBack
    BY <2>3 DEF TakenBack
  <2>5. Alone' /\ OneEnd'
    BY <1>0, <2>1, <2>2, <2>3, <2>4, <2>7 DEF CleanInv, Alone, OneEnd, Inside
  <2>6. ForIt'
    <3>1. \A u \in Cancellers : /\ th'[u].pc \in {"signal", "wait"} => u = c
                                /\ th'[u].pc \notin {"stop", "dev", "clear"}
      BY <2>1, <2>2 DEF Inside
    <3>2. \A u \in told : th'[u].pc \in {"signal", "wait", "stop", "dev", "clear"}
      BY <1>0, <2>1 DEF CleanInv, ForIt, Shape
    <3>3. /\ \A d \in cancelQ : target[d] = th[c].want /\ c \notin told
          /\ task = "done" => /\ c \notin told
                              /\ status = "SUCCESS" <=> hand.req # None
                              /\ hand.req \in {None, th[c].want}
          /\ sem > 0 => (status = "SUCCESS" <=> c \in told)
      BY <1>0, <2>1 DEF CleanInv, ForIt
    <3> QED
      BY <2>1, <2>3, <3>1, <3>2, <3>3 DEF ForIt
  <2> QED
    BY <1>0, <2>3, <2>5, <2>6 DEF CleanInv
<1>6. ASSUME NEW c \in Cancellers, Wait(c) PROVE CleanInv'
  <2> SUFFICES ASSUME clean PROVE ~crossed' /\ Alone' /\ OneEnd' /\ ForIt'
    BY <1>6 DEF CleanInv, Wait
  <2>1. /\ th[c].pc = "wait" /\ th'[c].pc = "stop"
        /\ \A u \in Cancellers \ {c} : th'[u] = th[u]
    BY <1>0, <1>6, GotoFacts DEF Wait, Pcs, Inside
  <2>2. (\A u \in Cancellers \ {c} : th[u].pc \notin Inside) /\ told \subseteq {c} /\ ~crossed
    BY <1>0, <2>1, AloneFacts DEF Inside
  <2>3. cancelQ = {} /\ task # "done" /\ sem = 1 /\ ~TakenBack
    BY <1>0, <1>6 DEF CleanInv, OneEnd, Wait, Shape
  <2>4. status = "SUCCESS" <=> c \in told
    BY <1>0, <2>1, <2>3 DEF CleanInv, ForIt
  <2>6. UNCHANGED <<cancelQ, task, told, status, crossed>> /\ sem' = 0 /\ ~TakenBack'
    BY <1>6, <2>3 DEF Wait, TakenBack
  <2>7. Alone' /\ OneEnd'
    BY <2>1, <2>2, <2>3, <2>6 DEF Alone, OneEnd, Inside
  <2>8. ForIt'
    BY <2>1, <2>2, <2>3, <2>4, <2>6 DEF ForIt, Inside
  <2> QED
    BY <2>2, <2>6, <2>7, <2>8
<1>7. ASSUME NEW c \in Cancellers, Interrupt(c) PROVE CleanInv'
  BY <1>7 DEF Interrupt, CleanInv
<1>8. ASSUME NEW c \in Cancellers, StopAlarm(c) \/ ClearDev(c) \/ ClearArg(c) PROVE CleanInv'
  <2> SUFFICES ASSUME clean PROVE ~crossed' /\ Alone' /\ OneEnd' /\ ForIt'
    BY <1>8 DEF CleanInv, StopAlarm, ClearDev, ClearArg
  <2>1. /\ th[c].pc \in {"stop", "dev", "clear"} /\ th'[c].pc \in {"dev", "clear", "idle"}
        /\ \A u \in Cancellers \ {c} : th'[u] = th[u]
    BY <1>0, <1>8, GotoFacts, SetFacts, IdleType DEF StopAlarm, ClearDev, ClearArg, Pcs, Inside
  <2>2. /\ \A u \in Cancellers \ {c} : th[u].pc \notin Inside
        /\ cancelQ = {} /\ task # "done" /\ sem = 0 /\ ~TakenBack /\ told \subseteq {c} /\ ~crossed
    BY <1>0, <2>1, AloneFacts DEF Inside
  <2>5. status = "SUCCESS" <=> c \in told
    BY <1>0, <2>1 DEF CleanInv, ForIt
  <2>6. UNCHANGED <<cancelQ, task, sem, status, crossed>>
    BY <1>8 DEF StopAlarm, ClearDev, ClearArg
  <2>7. \/ th'[c].pc \in {"dev", "clear"} /\ told' = told
        \/ th'[c].pc = "idle" /\ told' = told \ {c}
    BY <1>0, <1>8, GotoFacts, SetFacts, IdleType DEF StopAlarm, ClearDev, ClearArg, Pcs, Inside
  <2>10. ~TakenBack'
    BY <1>8, <2>2 DEF StopAlarm, ClearDev, ClearArg, TakenBack
  <2>8. Alone' /\ OneEnd'
    BY <2>1, <2>2, <2>6, <2>10 DEF Alone, OneEnd, Inside
  <2>9. ForIt'
    BY <2>1, <2>2, <2>5, <2>6, <2>7, <2>10 DEF ForIt, Inside
  <2> QED
    BY <2>2, <2>6, <2>8, <2>9
<1>9. CASE AlarmBegins
  <2> SUFFICES ASSUME clean PROVE ~crossed' /\ Alone' /\ OneEnd' /\ ForIt'
    BY <1>9 DEF CleanInv, AlarmBegins
  <2>1. UNCHANGED <<cancelQ, target, hand, status, sem, sig, task, th, told>>
    BY <1>9 DEF AlarmBegins
  <2>2. ~TakenBack' /\ ~TakenBack
    BY <1>9 DEF AlarmBegins, TakenBack
  <2>3. ~crossed'
    BY <1>0, <1>9 DEF AlarmBegins, CleanInv, Alone, InCancel
  <2>4. Alone' /\ OneEnd'
    BY <1>0, <2>1, <2>2 DEF CleanInv, Alone, OneEnd
  <2>5. ForIt'
    BY <1>0, <2>1 DEF CleanInv, ForIt
  <2> QED
    BY <2>3, <2>4, <2>5
<1>10. CASE AlarmLooks \/ AlarmReleases
  <2> SUFFICES ASSUME clean PROVE ~crossed' /\ Alone' /\ OneEnd' /\ ForIt'
    BY <1>10 DEF CleanInv, AlarmLooks, AlarmReleases
  <2>1. UNCHANGED <<cancelQ, target, hand, status, sem, sig, task, th, told, crossed>>
    BY <1>10 DEF AlarmLooks, AlarmReleases
  <2>2. TakenBack' <=> TakenBack
    BY <1>0, <1>10 DEF AlarmLooks, AlarmReleases, TakenBack, CallbackInv, Running, CleanInv
  <2>4. Alone' /\ OneEnd'
    BY <1>0, <2>1, <2>2 DEF CleanInv, Alone, OneEnd
  <2>5. ForIt'
    BY <1>0, <2>1 DEF CleanInv, ForIt
  <2> QED
    BY <1>0, <2>1, <2>4, <2>5 DEF CleanInv
<1>11. CASE AlarmRemoves
  <2> SUFFICES ASSUME clean PROVE ~crossed' /\ Alone' /\ OneEnd' /\ ForIt'
    BY <1>11 DEF CleanInv, AlarmRemoves
  <2>1. arg.dev /\ arg.dummy # None /\ arg.dummy \in cancelQ /\ ~crossed
    BY <1>0, <1>11 DEF AlarmRemoves, CallbackInv, Running, CleanInv
  <2>2. /\ cancelQ' = {} /\ status' = "TIMEOUT" /\ TakenBack'
        /\ UNCHANGED <<hand, sem, task, th, told, crossed>>
    BY <1>0, <1>11, <2>1 DEF AlarmRemoves, TakenBack, CleanInv, Alone
  <2>3. task # "done" /\ sem = 0
    BY <1>0, <2>1 DEF CleanInv, OneEnd
  <2>4. PICK c \in Cancellers : th[c].pc \in {"signal", "wait"}
    BY <1>0, <2>1 DEF CleanInv, OneEnd
  <2>5. told = {} /\ \A u \in Cancellers \ {c} : th[u].pc \notin Inside
    <3>1. c \notin told
      BY <1>0, <2>1, <2>4 DEF CleanInv, ForIt
    <3> QED
      BY <1>0, <2>4, <3>1, AloneFacts DEF Inside
  <2>6. Alone' /\ OneEnd'
    BY <1>0, <2>2, <2>3, <2>4, <2>5 DEF CleanInv, Alone, OneEnd
  <2>7. ForIt'
    BY <2>2, <2>3, <2>4, <2>5 DEF ForIt, Inside
  <2> QED
    BY <2>1, <2>2, <2>6, <2>7
<1>12. CASE AlarmEnds
  <2> SUFFICES ASSUME clean PROVE ~crossed' /\ Alone' /\ OneEnd' /\ ForIt'
    BY <1>12 DEF CleanInv, AlarmEnds
  <2>1. arg.dev /\ TakenBack /\ ~crossed
    BY <1>0, <1>12 DEF AlarmEnds, CallbackInv, Running, CleanInv, TakenBack
  <2>2. /\ sem' = sem + 1 /\ ~TakenBack'
        /\ UNCHANGED <<cancelQ, hand, status, task, th, told, crossed>>
    BY <1>12, <2>1 DEF AlarmEnds, TakenBack, RelWait
  <2>3. cancelQ = {} /\ task # "done" /\ sem = 0 /\ status = "TIMEOUT" /\ told = {}
    BY <1>0, <2>1 DEF CleanInv, OneEnd
  <2>4. PICK c \in Cancellers : th[c].pc \in {"signal", "wait"}
    BY <1>0, <2>1 DEF CleanInv, OneEnd
  <2>5. \A u \in Cancellers \ {c} : th[u].pc \notin Inside
    BY <1>0, <2>4, AloneFacts DEF Inside
  <2>6. Alone' /\ OneEnd'
    BY <1>0, <2>2, <2>3, <2>4, <2>5 DEF CleanInv, Alone, OneEnd
  <2>7. ForIt'
    BY <2>2, <2>3, <2>4, <2>5 DEF ForIt, Inside
  <2> QED
    BY <2>1, <2>2, <2>6, <2>7
<1>13. ASSUME NEW d \in Dummies, CheckCancel(d) PROVE CleanInv'
  <2> SUFFICES ASSUME clean PROVE ~crossed' /\ Alone' /\ OneEnd' /\ ForIt'
    BY <1>13 DEF CleanInv, CheckCancel
  <2> DEFINE r == target[d]
  <2>1. /\ d \in cancelQ /\ cancelQ' = {} /\ task' = "done"
        /\ UNCHANGED <<th, sem, alarm, told, crossed>>
    BY <1>0, <1>13 DEF CheckCancel, CleanInv, Alone
  <2>2. PICK c \in Cancellers : th[c].pc \in {"signal", "wait"}
    BY <1>0, <2>1 DEF CleanInv, OneEnd
  <2>3. /\ c \notin told /\ r = th[c].want /\ told = {} /\ ~crossed
        /\ \A u \in Cancellers \ {c} : th[u].pc \notin Inside
    <3>1. c \notin told /\ r = th[c].want
      BY <1>0, <2>1, <2>2 DEF CleanInv, ForIt
    <3> QED
      BY <1>0, <2>2, <3>1, AloneFacts DEF Inside
  <2>4. sem = 0 /\ ~TakenBack /\ ~TakenBack'
    BY <1>0, <2>1 DEF CleanInv, OneEnd, TakenBack
  <2>5. \/ status' = "SUCCESS" /\ hand'.req = r
        \/ status' = "NOOBJ" /\ hand'.req = None
    BY <1>13 DEF CheckCancel
  <2>6. r # None
    BY <1>0, <2>1 DEF TargetInv
  <2>7. Alone' /\ OneEnd'
    BY <1>0, <2>1, <2>2, <2>3, <2>4 DEF CleanInv, Alone, OneEnd
  <2>8. ForIt'
    BY <2>1, <2>2, <2>3, <2>4, <2>5, <2>6 DEF ForIt, Inside
  <2> QED
    BY <2>1, <2>3, <2>7, <2>8
<1>14. ASSUME CancelDone PROVE CleanInv'
  <2> SUFFICES ASSUME clean PROVE ~crossed' /\ Alone' /\ OneEnd' /\ ForIt'
    BY <1>14 DEF CleanInv, CancelDone
  <2>1. PICK c \in Cancellers : th[c].pc \in {"signal", "wait"}
    BY <1>0, <1>14 DEF CleanInv, OneEnd, CancelDone
  <2>2. (\A u \in Cancellers \ {c} : th[u].pc \notin Inside) /\ told \subseteq {c} /\ ~crossed
    BY <1>0, <2>1, AloneFacts DEF Inside
  <2>3. cancelQ = {} /\ sem = 0 /\ ~TakenBack
    BY <1>0, <1>14 DEF CleanInv, OneEnd, CancelDone
  <2>4. told = {} /\ (status = "SUCCESS" <=> hand.req # None) /\ hand.req \in {None, th[c].want}
    BY <1>0, <1>14, <2>1, <2>2 DEF CleanInv, ForIt, CancelDone
  <2>5. UNCHANGED <<th, cancelQ, status, crossed>> /\ sem' = 1 /\ task' = "work" /\ ~TakenBack'
    BY <1>14, <2>3 DEF CancelDone, RelWait, TakenBack
  <2>6. told' = IF hand.req # None THEN {c} ELSE {}
    BY <1>14, <2>1, <2>2, <2>4 DEF CancelDone, Inside
  <2>7. Alone' /\ OneEnd'
    BY <1>0, <2>1, <2>3, <2>5 DEF CleanInv, Alone, OneEnd
  <2>8. ForIt'
    BY <2>1, <2>2, <2>3, <2>4, <2>5, <2>6 DEF ForIt, Inside
  <2> QED
    BY <2>2, <2>5, <2>7, <2>8
<1>15. ASSUME NEW d \in Dummies, FreeCopy(d) PROVE CleanInv'
  <2>1. UNCHANGED <<th, cancelQ, hand, status, sem, sig, alarm, history>>
    BY <1>15 DEF FreeCopy
  <2>2. \A e \in cancelQ : target'[e] = target[e]
    BY <1>0, <1>15, <2>1, ForgetFacts DEF FreeCopy
  <2>3. task # "done" /\ task' # "done" /\ (task = "cancel" => task' = "cancel")
    BY <1>15 DEF FreeCopy
  <2> QED
    BY <1>0, <2>1, <2>2, <2>3 DEF CleanInv, Alone, OneEnd, ForIt, TakenBack
<1>16. CASE \/ NoCancel \/ TakeDevice \/ Sleep \/ Event
            \/ \E r \in Reqs : Start(r) \/ Answer(r) \/ AddRequest(r)
  <2>1. UNCHANGED <<th, cancelQ, target, hand, status, sem, alarm, history>>
    BY <1>16 DEF NoCancel, TakeDevice, Sleep, Event, Start, Answer, AddRequest
  <2>2. task' = task \/ (task # "done" /\ task' # "done")
    BY <1>16 DEF NoCancel, TakeDevice, Sleep, Event, Start, Answer, AddRequest
  <2>3. (cancelQ # {} /\ (sig \/ task = "cancel")) => (sig' \/ task' = "cancel")
    <3>1. CASE NoCancel \/ TakeDevice \/ Sleep
      BY <3>1 DEF NoCancel, TakeDevice, Sleep
    <3>2. CASE Event \/ \E r \in Reqs : AddRequest(r)
      BY <3>2, Zenon DEF Event, AddRequest, SignalDev
    <3>3. CASE \E r \in Reqs : Start(r) \/ Answer(r)
      BY <3>3 DEF Start, Answer
    <3> QED
      BY <1>16, <3>1, <3>2, <3>3
  <2> QED
    BY <1>0, <2>1, <2>2, <2>3 DEF CleanInv, Alone, OneEnd, ForIt, TakenBack
<1> QED
  BY <1>1, <1>2, <1>3, <1>4, <1>5, <1>6, <1>7, <1>8, <1>9, <1>10, <1>11, <1>12, <1>13, <1>14,
     <1>15, <1>16, NextCases
  DEF TaskSide, Moves

(****************************************************************************)
(* The theorems.                                                            *)
(****************************************************************************)
LEMMA InitInv == Init => IInv
<1> SUFFICES ASSUME Init PROVE IInv
  OBVIOUS
<1> USE DEF Init
<1>1. \A c \in Cancellers : th[c] = Idle
  OBVIOUS
<1>2. Shape
  BY IdleType DEF Shape, Empty, NoArg, AlarmStates
<1>3. Bounded
  BY DEF Bounded, Size
<1>4. Holders = {} /\ Waiters = {} /\ InCancel = {}
  BY <1>1, IdleType DEF Holders, Holding, Waiters, InCancel, Inside
<1>5. OwnInv
  <2>1. Elsewhere = Dummies
    BY DEF Elsewhere
  <2> QED
    BY <1>4, <2>1
    DEF OwnInv, Owned, Disjoint, HeldOnce, HandOnce, RemovedOnce, Covered, Empty
<1>6. TargetInv /\ HoldInv
  BY <1>1, <1>4, IdleType DEF TargetInv, HoldInv
<1>7. RequestsAccounted
  <2>1. \A q \in {"rx", "tx"} : InQueue(q) = {}
    BY DEF InQueue
  <2>2. Cardinality({}) = 0
    BY FS_EmptySet
  <2> QED
    BY <2>1, <2>2 DEF RequestsAccounted, Empty
<1>8. EndForEachWait
  <2>1. Cardinality({}) = 0
    BY FS_EmptySet
  <2> QED
    BY <1>4, <2>1 DEF EndForEachWait, Ends
<1>9. CallbackInv
  BY DEF CallbackInv, Running
<1>10. CleanInv
  BY <1>1, IdleType DEF CleanInv, Alone, OneEnd, ForIt, Inside, TakenBack
<1> QED
  BY <1>2, <1>3, <1>5, <1>6, <1>7, <1>8, <1>9, <1>10 DEF IInv

LEMMA StutterInv == ASSUME IInv, UNCHANGED vars PROVE IInv'
<1> USE DEF IInv, vars
<1>1. Shape' /\ Bounded' /\ TargetInv' /\ HoldInv'
  BY DEF Shape, Bounded, TargetInv, HoldInv, Holders
<1>2. OwnInv'
  BY DEF OwnInv, Owned, Disjoint, HeldOnce, HandOnce, RemovedOnce, Covered, Elsewhere, Holders
<1>3. CallbackInv'
  BY DEF CallbackInv, Running, Armers, InCancel
<1>4. RequestsAccounted' /\ EndForEachWait'
  BY DEF RequestsAccounted, InQueue, EndForEachWait, Ends, Waiters
<1>5. CleanInv'
  BY DEF CleanInv, Alone, OneEnd, ForIt, TakenBack
<1> QED
  BY <1>1, <1>2, <1>3, <1>4, <1>5

\* The four arguments hold in every state that is reached.  What they say of the places of
\* the dummies and of the ends of waits is said as long as the callback has not run while
\* two cancels overlapped (crossed): then it may take the one's dummy out and give the
\* other's back.
THEOREM Invariant == Spec => []IInv
<1>1. ASSUME IInv, [Next]_vars PROVE IInv'
  <2>1. CASE Next
    <3>1. OwnInv' /\ EndForEachWait'
      BY <1>1, <2>1, OwnStep, EndStep, EnoughIsIt, PTL DEF OwnInv
    <3>2. Shape' /\ TargetInv' /\ HoldInv' /\ CallbackInv' /\ CleanInv'
      BY <1>1, <2>1, ShapeStep, TargetStep, HoldStep, CallbackStep, CleanStep
    <3>3. Bounded' /\ RequestsAccounted'
      BY <1>1, <2>1, AccStep
    <3> QED
      BY <3>1, <3>2, <3>3 DEF IInv
  <2>2. CASE UNCHANGED vars
    BY <1>1, <2>2, StutterInv
  <2> QED
    BY <1>1, <2>1, <2>2
<1> QED
  BY InitInv, <1>1, PTL DEF Spec

LEMMA OwnedOnce == ASSUME Shape, OwnInv PROVE DummyOwnedOnce
<1> SUFFICES ASSUME ~crossed PROVE
      /\ \A i, j \in 1..7 : i # j => Owners[i] \cap Owners[j] = {}
      /\ \A d \in Dummies : \E i \in 1..7 : d \in Owners[i]
      /\ \A c, u \in Cancellers :
           th[c].pc \in Holding /\ th[u].pc \in Holding /\ th[c].dummy = th[u].dummy => c = u
  BY DEF DummyOwnedOnce
<1> USE DEF OwnInv, Owned
<1>1. Owners = <<free, lost, cancelQ, copies, HeldDummies, InHand, InCallback>>
  BY DEF Owners
<1>2. HeldDummies = {th[c].dummy : c \in Holders}
  BY DEF HeldDummies, Holders
<1>3. HeldDummies \cap Elsewhere = {} /\ HeldDummies \cap InHand = {} /\ InHand \cap Elsewhere = {}
  BY <1>2 DEF HeldOnce, HandOnce, InHand
<1>4. InCallback \cap Elsewhere = {} /\ InCallback \cap InHand = {} /\ InCallback \cap HeldDummies = {}
  BY <1>2 DEF RemovedOnce, InCallback, InHand
<1>5. \A i, j \in 1..7 : i < j => Owners[i] \cap Owners[j] = {}
  BY <1>1, <1>3, <1>4 DEF Disjoint, Elsewhere
<1>6. \A i, j \in 1..7 : i # j => Owners[i] \cap Owners[j] = {}
  BY <1>5
<1>7. ASSUME NEW d \in Dummies PROVE \E i \in 1..7 : d \in Owners[i]
  <2>1. d \in Elsewhere \/ d \in InHand \/ d \in HeldDummies \/ d \in InCallback
    BY <1>2 DEF Covered, InHand, InCallback
  <2> QED
    BY <1>1, <2>1 DEF Elsewhere
<1>8. \A c, u \in Cancellers :
        th[c].pc \in Holding /\ th[u].pc \in Holding /\ th[c].dummy = th[u].dummy => c = u
  BY DEF HeldOnce, Holders
<1> QED
  BY <1>6, <1>7, <1>8

\* Types and bounds: in particular no queue is longer than it may be
\* (CNL_addRequest, CNL_checkCancel, CNL_completeRequest), whatever cancels have crossed.
THEOREM CancelTypes == Spec => []TypeOK
<1>1. IInv => TypeOK
  BY TypeParts DEF IInv
<1> QED
  BY Invariant, <1>1, PTL

\* No dummy is given back twice, lost between task and alarm, or had by two threads, whatever
\* the task, the other threads and the callback do meanwhile, as long as the callback does
\* not run over two overlapping cancels.
THEOREM DummiesOwnedOnce == Spec => []DummyOwnedOnce
<1>1. IInv => DummyOwnedOnce
  BY OwnedOnce DEF IInv
<1> QED
  BY Invariant, <1>1, PTL

\* Each request is answered once, cancelled or not, whatever cancels have crossed; the counter
\* that counts dummies too tells what is queued under the condition of DummiesOwnedOnce.
THEOREM AllRequestsAccounted == Spec => []RequestsAccounted
<1>1. IInv => RequestsAccounted
  BY DEF IInv
<1> QED
  BY Invariant, <1>1, PTL

\* No thread waits for a cancel whose end will not come, under the condition of
\* DummiesOwnedOnce.
THEOREM EndsForAllWaits == Spec => []EndForEachWait
<1>1. IInv => EndForEachWait
  BY DEF IInv
<1> QED
  BY Invariant, <1>1, PTL

\* The answer of a cancel is true as long as cancels come one after the other.
THEOREM ResultsAreTrue == Spec => []ResultIsTrue
<1>1. IInv => ResultIsTrue
  BY DEF IInv, CleanInv, ForIt, ResultIsTrue
<1> QED
  BY Invariant, <1>1, PTL

\* Nor does the task sleep over one.
THEOREM CancelsAreSeen == Spec => []CancelIsSeen
<1>1. IInv => CancelIsSeen
  BY DEF IInv, CleanInv, OneEnd, CancelIsSeen
<1> QED
  BY Invariant, <1>1, PTL
=============================================================================

----------------------------- MODULE CnlCoreProps -----------------------------
(****************************************************************************)
(* What is asked of the CNL core.  The first part holds (Props_*.cfg and    *)
(* Live_powersave.cfg); the second part is what comments and assertions of   *)
(* the code say and the code does not do.  Find_close.cfg shows one of them, *)
(* README.md names the instances that refute the others.                    *)
(****************************************************************************)
EXTENDS CnlCore

Waiting == {c \in Callers : req[c].caller = "waiting"}

\* The action in hand will put the semaphore of c up, whether it succeeds or fails:
\* its request left the queue when the action was taken.  The callers share one
\* semaphore, so that the answer to a request answered at once, which may be one the
\* alarm had taken before, releases whoever waits.
Answers(c) ==
  /\ act.req \in Callers
  /\ \/ act.op = "HANDLE_COMPLETE" /\ act.arg = "COMP_NULL"
     \/ /\ act.req = c /\ req[c].state = "COMPLETED"
        /\ act.op \in {"HANDLE_COMPLETE", "HANDLE_ERROR"}

\* A caller that is blocked in CNL_request is queued still, or its semaphore is up,
\* or the task is about to put it up, though purges, completions, resets and the
\* alarm remove requests in five different places (cnl_sm.c, cnl_schd.c, cnl_if.c) and
\* two of them may remove another caller's request with one the alarm took first.
NoCallerForgotten == \A c \in Waiting : ctrlQ = c \/ Answers(c) \/ sem > 0

\* The request object lives on the stack of its caller: once the caller has
\* returned, neither the queue nor the action in hand refers to it.
NoUseAfterReturn == \A c \in Callers \ Waiting : ctrlQ # c /\ act.req # c

\* A request is answered once: the semaphore never counts more answers than
\* there are blocked callers (CNL_releaseRequestBlocking).
AnsweredOnce == sem <= Cardinality(Waiting)

\* While the power state changes, the completion that ends the change is still
\* to come: no change of state, reset or purge may lose it (cnl_task.c, actionWake
\* and actionSleep).
TransitionIsAwaited ==
  /\ pwr = "HIBERNATE_TO_AWAKE" =>
       \/ (phy = "wake" \/ "AWAKEPRIOD" \in sta) /\ "AWAKEPRIOD" \in en
       \/ "COMP_WAKE" \in irq \cup ev \cup {act.arg}
  /\ pwr = "AWAKE_TO_HIBERNATE" => "COMP_SLEEP" \in ev \cup {act.arg}

\* A frame or data leaves or is read, and the chip changes state, only while the
\* chip is awake in the eyes of the scheduler and of the driver.
ChipOps == {"SEND_MNG_FRAME", "SEND_DATA", "RECEIVE_DATA", "CLOSE", "SLEEP",
            "WAIT_CONNECT", "CANCEL_WAIT_CONNECT"} \cup StateOps

ChipAwakeWhenUsed ==
  \/ pc = "read"
  \/ pc = "do" /\ act.op \in ChipOps /\ act.arg \notin Finished
  => pmu = "AWAKE" /\ pwr = "AWAKE"

\* With a free bank and nothing more to come from the chip, an idle device that
\* is connected knows that it can send: TX_READY was not lost between the masking
\* of the interrupt, the change of state and the reading of the banks (cnl_schd.c:607,
\* "txReady indicates exisiting empty TX(CSDU) buffer").  A C-Req left over from a
\* set-up that was given up breaks it, on an instance that README.md names.
TxReadyNotLost ==
  /\ IsConnected(main) /\ bank = 0
  /\ pc = "wait" /\ ~signaled /\ irq = {} /\ sta \cap en = {}
  => "txReady" \in flags

\* Received C-Sleep and C-Wake are hidden only during an exchange of frames (or a
\* close) that will end and show them again.
FilterOnlyInExchange ==
  pc = "wait" /\ "filter" \in flags => proc \in {"SEND_MNG_FRAME", "CLOSE"}

\* The upper layer has been told of the link the device has, whenever the task
\* has nothing in hand.
ViewMatchesLink == pc = "wait" => (view = "up" <=> IsConnected(main))

\* Data goes out only over an awake link, and never while a frame of the power
\* protocol or a release is under way.
SendsOnlyWhenConnected ==
  pc = "do" /\ act.op = "SEND_DATA" => /\ IsConnected(main) /\ sub = "CONNECTED"
                                       /\ pwr = "AWAKE" /\ proc = "NOP"

\* In SEARCH the chip listens for C-Req if and only if the upper layer waits
\* for a connection; a C-Req that is being handled leaves it masked.
ListensWhileWaiting ==
  main = "SEARCH" /\ pc = "wait" =>
    /\ "waitConnect" \in flags /\ irq = {} /\ ~signaled => "CREQRCV" \in en
    /\ "waitConnect" \notin flags => "CREQRCV" \notin en

\* When a link is gone, nothing of what was being sent over it is left, neither
\* in the banks of the chip nor in the transmit queue.
NothingLeftInBanks ==
  pc = "wait" /\ ~IsConnected(main) => data.txRun = 0 /\ bank = 0

\* The CSDUs the core believes to be in the banks include those that are, and
\* the count of acknowledged ones (an unsigned byte in CNL_compSendReq) never wraps
\* below zero, though banks empty while they are counted.
BanksAccounted ==
  /\ data.sending >= bank
  /\ pc = "do" /\ act.op = "SEND_DATA" => data.sending >= TxCsduNum - data.ready

\* What the scheduler would find if it ran: no event, nothing to receive or to
\* send, no reason to sleep, and no request of a blocked caller it could begin.
NothingToDo ==
  /\ ev = {}
  /\ RxRequest = Nop /\ TxRequest = Nop /\ SleepReady = Nop
  /\ ctrlQ \in Waiting =>
       /\ ~Queued({"INIT_REQ"})
       /\ Queued({"CLOSE_REQ"}) => main # "CLOSE" /\ pwr \in Transitional
       /\ \A o \in CtrlOutcomes : o.act = Nop

\* No wake-up is lost: the task sleeps on an empty list of signalled devices only
\* when there is nothing to do, whatever was queued or added by others while it
\* looked (CNL_addRequest, CNL_addEvent).
SleepsOnlyWhenDone == pc = "wait" /\ ~signaled => NothingToDo

\* The core implements what it promises of a link.
Phase == [CLOSE |-> "closed", SEARCH |-> "idle", CONNECTION_REQUEST |-> "outgoing",
          ACCEPT_WAITING |-> "incoming", RESPONSE_WAITING |-> "answering",
          RESPONDER_RESPONSE |-> "accepting", INITIATOR_CONNECTED |-> "up",
          RESPONDER_CONNECTED |-> "up"]

DozeOf == [NULL |-> "none", CONNECTED |-> "active", TARGET_SLEEP |-> "peer",
           LOCAL_HIBERNATE |-> "local"]

Link == INSTANCE LinkService WITH link <- Phase[main], doze <- DozeOf[sub], told <- view

\* Every step of the core is a step of the link or leaves it alone.
LinkRefined == Link!LinkSpec

\* Every blocked caller is released.
CallersAnswered ==
  \A c \in Callers : req[c].caller = "waiting" ~> req[c].caller # "waiting"

\* A change of the power state ends.
PowerSettles == pwr \in Transitional ~> pwr \notin Transitional

(****************************************************************************)
(* Statements of the code that the code does not keep.                      *)
(****************************************************************************)
\* cnl_task.c:263, "CNL_CLOSE.request completion will be notified by
\* CNL_EVENT_COMP_REQUEST": while CLOSE is awaited, its interrupt is enabled or on
\* its way.
CloseIsNotified ==
  proc = "CLOSE" /\ pc = "wait" /\ irq = {} /\ ~signaled => "AWAKETOSLEEP" \in en

\* cnl.h:424, ctrlReqCnt is the "current CTRL request count".
CountIsTrue == ctrlCnt = IF ctrlQ = NoReq THEN 0 ELSE 1

\* cnl_schd.c:741 asserts that WAKE_REQUIRED comes only in hibernation or while
\* waking.
WakeRequiredExpected ==
  pc = "event" /\ Prior("WAKE_REQUIRED", ev) => pwr \in {"HIBERNATE", "HIBERNATE_TO_AWAKE"}

\* cnl_schd.c:1092 asserts that the request a completion answers was begun.
CompletesWhatWasBegun ==
  [][pc = "event" /\ act'.op = "HANDLE_COMPLETE" /\ act'.req \in Callers
       => req[act'.req].state # "QUEUED"]_<<pc, act>>

\* cnl_task.c:570 asserts that an acknowledged request had been sent.
CompletesWhatWasSent ==
  pc = "do" /\ act.op = "SEND_DATA" /\ Acked > data.txRun => data.txNew = 0

\* cnl_schd.c:1171, "ACCEPT_WAITING(delay receive) : skip handling": a second
\* C-Req is skipped, and is no error.
SecondRequestSkipped ==
  [][pc = "read" /\ act.op = "SKIP_MNG_FRAME" => act'.op # "HANDLE_ERROR"]_<<pc, act>>

\* cnl_task.c:345, "sleep request completion will be notified by
\* CNL_EVENT_COMP_REQUEST": a device that goes to sleep gets there.
SleepCompletes == pwr = "AWAKE_TO_HIBERNATE" ~> pwr # "AWAKE_TO_HIBERNATE"
=============================================================================

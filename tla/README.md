# A verification development for the TransferJet driver (TJET)

The repository is a Linux driver for the TransferJet chip IZAN: a character
device over a *fitting* layer over the *CNL core*, which runs the
connection-layer protocol and drives the chip over SDIO. This directory holds
TLA+ models of it, the TLC configurations that check them, and proofs that
TLAPS checks. The core comes first, because that is where the driver's own
logic and most of its concurrency are; the layers around it follow. Paths below are relative to
`src/tjet-driver/src/`, and `core/` stands for `cnl/core/izan/`.

- [Inventory](#inventory)
- [The model of the core](#the-model-of-the-core)
- [The models around the core](#the-models-around-the-core)
- [What each run checks](#what-each-run-checks)
- [Bounds, fairness, deadlock](#bounds)
- [What is proved](#what-is-proved)
- [Where the code differs from what it says](#findings)
- [What is not modelled](#not-modelled)
- [Plan](#plan)

## Inventory

| component | source | state | operations |
|---|---|---|---|
| request entry | `core/cnl_if.c` | one mutex for blocking requests, a wait semaphore, the command alarm | check the state, queue, block, time out, cancel |
| scheduler | `core/cnl_schd.c` | `ctrlQueue` (one request), `txQueue`, `rxQueue`, `event`, `eventFilter`, `txReady`, `rxReady`, `txComp`, `procAction` | look for the next action; add and clear events |
| task | `core/cnl_task.c`, `cnl_util.c` | the action in hand, `txSendingCsdu` | perform an action; count CSDUs in banks |
| state machine | `core/cnl_sm.c` | `cnlState` (state and sub-state), `pwrState`, the flags `waitConnect`, `crossover`, `missCaccAck` | completions, frames, timers, orders, errors; purges, resets, notifications |
| IZAN driver | `core/cnl_izan.c` | `currIntEnable`, `pmuState`, the chip's registers and banks | the operations of the device table, the interrupt handler |
| life cycle | `core/cnl.c`, `cnl_km.c` | device list, list of signalled devices, the task thread | register, open, close, suspend, remove; wait for a signalled device |
| fitting | `cnl/fitting/*.c` | ports, IO containers, an event queue | open and close a port, pass requests on, collect completions, disable |
| character device | `io/fitting/cnlio_fit.c` | per file: the list of argument boxes of requests that are not over, a wait queue | `ioctl`, `poll`, `open`, `release` |
| bus | `bus/*`, `sdioapi/*` | none of its own | register reads and writes |
| OS layer | `os/linux/syscall/*.c` | memory pools, lists, locks, semaphores, alarms | allocate, wait, signal |

**How they interact.** A caller thread enters `CNL_request`, which reads the
state with no lock held, takes the mutex of blocking requests, queues the
request under the scheduler lock, signals the task and sleeps on a semaphore.
Data requests are queued without waiting. The interrupt handler masks and
clears what fired under the interrupt lock, releases it, and then adds the
events it derived, which signals the task. The one CNL task takes a signalled
device and asks the scheduler again and again for an action, which it performs
without the scheduler lock: it programs the chip, writes `cnlState`, answers
requests by callback (which ups the semaphore) and notifies the upper layer.

**What is hard about it.** (1) Locks are given up between any two of: deciding
on an action, reading the frame it is about, programming the chip, writing the
state, answering. (2) Events outlive the state they belong to: a change of state
clears the sources the new state does not use, and the events derived from
them, but the interrupt handler may hold others it has not added yet. (3) An
action that is completed by an interrupt leaves only `procAction` behind; the
completion answers whatever request is at the head of the queue. (4) Requests are
answered in four places (completion, immediate answer, reset, error purge) and by
the alarm. (5) Three power states, of the link, of the core and of the chip, have
to agree. (6) CSDUs in the banks are counted in an unsigned byte from a
difference of two readings. `PROJECT.json` lists these hazards line by line.

**What makes it right.** Every blocked caller is answered, once, and nothing
refers to its request afterwards. The upper layer is told of exactly the links
there are. The chip is used awake, and every power transition ends. A free
bank is never forgotten and none is filled twice; nothing of a dead link
survives. A cancel ends its target or says that it did not, and gives its dummy
back (cancelling). A container of the pool has one owner, and the controller is
told once that a port it disabled is disabled (fitting). The two ioctls that
share an argument box agree on who frees it, no data buffer is lost, no poller is
left asleep (character device). An open device outlives its file, and a signal to
the task is not lost (life cycle). The pools of the OS layer are seen through
these: what one owner has nobody else is given.

## The model of the core

| module | what it is |
|---|---|
| `IzanInt` | the interrupt sources and the driver's tables: which sources a state enables (`IZAN_stateToIntEnable`), which a change of state clears (`IZAN_changeState`), which events they stand for (`IZAN_intToEvent`). The three fatal errors are one source |
| `CnlCore` | one device with its callers, data senders, chip, interrupt handler and task; one action per stretch of code between two lock operations |
| `LinkService` | the abstract specification: what the core promises of one link |
| `CnlCoreProps` | the properties, and the refinement mapping to `LinkService` |
| `MCCnlCore` | who issues which requests and what the peer does, for TLC |
| `CnlCoreProofs`, `CnlCallerProofs`, `CnlChipProofs` | the theorems: types, link and refinement; blocked callers; power state, interrupt masks, banks and what is known of them |

**State.** `main`, `sub`, `pwr`, `proc`, `flags` are `cnlState`, `pwrState`,
`procAction` and the BOOLEAN fields of `S_CNL_DEV` (`"filter"` stands for
`eventFilter`). `ev` is `event` as a set, `signaled` the membership in the list
of signalled devices, `ctrlQ` and `ctrlCnt` the queue of control requests (which holds
one) and its counter (a byte, which removals lower without looking for the request),
`req` the request object each caller keeps on its stack, `sem` the semaphore it
waits on. `data` holds the counters of data requests: new and begun ones in
`txQueue`, `txSendingCsdu` (a byte), the free banks last read, requests in
`rxQueue`. `en`, `gate`, `pmu` are `currIntEnable`, the enabling of the
interrupt in the SDIO function, and `pmuState`; `sta`, `tx`, `bank`, `phy` are the
chip: latched statuses, the frame on the air, banks in use, the power
transition asked for. `irq` is what the interrupt handler has fetched and not yet
added. `view` is a history variable: the link as the last notification left it.

**Steps of the task.** `pc` says where the task is:

    wait -> sched -> event -> [read] -> request -> do -> [commit -> reset]
              ^                                                     |
              +-----------------------------------------------------+

`CheckInitClose`, `CheckEvent`, `ReadMngBody` and `CheckRequests` are
`CNL_getAction`, cut where it gives up the scheduler lock. An action in hand
(`act`) is performed at `do`; a change of state is cut in three, because
`changeState` programs the chip first, `cnlState` is written next and the resets
follow, each under a lock of its own. `Take` answers or marks the request the
action is about, as `CNL_setCtrlReqCompAction` does inside the scheduler.

**Failures.** Every device operation may fail (`*Fails`), after any number of the
register accesses it makes; `k` counts them, and the action becomes
`HANDLE_ERROR`, as in `CNL_actionHandler`.

**Environment.** `Air` is the set of sources that may fire spontaneously: frames
of the peer, timers, the probe, the arrival of data, a hardware error. A frame
the chip was asked to send is reported by `FrameSent`; `DataAcked` frees a
bank. The chip's behaviour is taken from how the driver uses it and is
marked external in `PROJECT.json`. It is otherwise unconstrained: a source of
`Air` may fire at any time it is enabled, which covers late, repeated and
reordered frames.

## The models around the core

Each of the other parts has a module of its own, in which the neighbours are
reduced to what they may do to it; together they cover the way of a request from
the application to the core and back, and that of received data to a request.

| module | models | neighbours, reduced to |
|---|---|---|
| `CnlCancel` | `CNL_cancelRequest` and its alarm, `CNL_checkCancel` and the dummies that take the place of requests (`core/cnl_if.c`, `cnl_schd.c`, `cnl_util.c`) | a scheduler that starts and answers requests |
| `CnlRx` | the reception of data: `CNL_checkRxRequest`, `CNL_actionReceiveData`, the reading of the banks (`core/cnl_schd.c`, `cnl_task.c`, `cnl_izan.c:4390-4926`), discarding (`cnl_if.c`) | a link that is up or down; a chip with its banks, a peer that sends messages |
| `CnlLife` | `core/cnl.c` and the registration of `cnl/fitting/cnlfit.c`: register, unregister, open, close, signal; the loop of the CNL task | the card, which interrupts; requests, which signal |
| `CnlFit` | `cnl/fitting/`: both files, the port, requests, completions, events, the pool of containers | the core: its link and the data requests it holds; the waiting for events |
| `IoFit` | `io/fitting/cnlio_fit.c`: data requests that outlive their ioctl, GETEVENT, STOP_EVENT, poll, release | the fitting: its list of events and the data requests of the core |

Each has an `MC*` module with the sets for TLC and a `*Proofs` module with
theorems.

**`CnlCancel`.** `free`, `cancelQ`, `copies` are the three places of a dummy;
`lost` holds those a refused cancel did not give back (`core/cnl_schd.c:2351`),
`hand` is what `CNL_checkCancel` carries from the critical section to the
callbacks after it. `req` and `pending` tell a request in its queue from one whose
owner waits, `cnt` is the counter by which a queue is full. `arg` is the pair
`g_cnlCancelToutArg`, tested, set and cleared in steps of which others may come in between;
the callback of the alarm takes five, in each of which it reads `arg` anew (`alarm` says
how far it is; it holds the scheduler lock for two of them, `Unlocked`). `AddCancel` and
`Signal` are the queueing of the dummy and the signalling after it. `told`, `clean` and
`crossed` are history variables: who was served; whether two cancels overlapped or a wait
was interrupted, which the code does not exclude and does not survive truthfully, since
there is one `cancelStatus`, one semaphore and one alarm; and whether the callback ran
while two cancels overlapped, from which on it may act on the dummy of the wrong one.

**`CnlRx`.** Lengths are counted in units, of which a CSDU has `CsduSize`. The chip is
`banks` with the headers of what was received, `pos`, how far the first of them was
read, and `fifo`, the address in the RXFIFO. `dev` holds the fields by which the driver
reckons how much there is without asking again: `rxRemain`, `rxFragment`,
`rxNeedReset`, `rxBankHeadPos`. `Headers` is what one reading of the headers may
tell while CSDUs arrive: the whole run of the first profile, or less of it when it
goes on. `task.pc` cuts the task where the chip or the interrupt handler matter:

    wait -> sched -> rx -> ready -> receive <-> after
                                       |
                                     unmask -> drop -> enable -> end -> sched
            sched -> reset -> state -> purge -> clear -> sched

A request has history variables: `from`, the messages it was given data of,
`ended`, whether the last of it ended a message, `read`, whether every reading
succeeded.

**`CnlLife`.** Two mutexes, `devMtx` of the core and `ctrlMtx` of the fitting, are
variables with their holder, because some operations hold one while they wait for
the other. `sig`, `waking` and `wakes` cut `CNL_signalDev` in two: to put the device
into the list, and to wake the task. `cur` is `g_pCurrentCnlDev`.

**`CnlFit`.** `free`, `queue`, `list` and what the threads hold are the places of a
container. `cont` is the status in it, which the call that queued it resets
(`Accepted`) and looks at again (`LookAtStatus`) with no lock held: the completion may
come before either, and the container may by then be in a list, or another's. `twice` is a
history variable: such a call found an error and freed the container. The mutex of the
controller is held while an event of the port waits for
a container (`AddPortEvent`). The CNL task is `idle`, answers the data requests of a
lost link (`purge`) or has an event to report and needs a container for it
(`event`). `owed` is a history variable: disablings accepted and not yet reported.

**`IoFit`.** A box is named by its request. `live` are the boxes allocated, `async`
those in the list of the file, `sema` those held by the ioctl that made the request,
`buf` the address of the buffer in the box and in the request the core holds, which
is kept when the buffer is released, and `spare` the pool. `Ctrl` is the way into the core,
`LookAtStatus` the last look at the status, after which a request that completed with an
error in between is taken for a failed one (`mistaken`, a history variable). `poll` is cut
at the point where the thread is known to the wait queue, has looked for an event and goes
to sleep.

## What each run checks

Properties that hold:

| run | question | properties |
|---|---|---|
| `Props_initiator` | a caller that opens, connects, is accepted, releases and closes, with one failing operation | `AnsweredOnce`, `LinkRefined` |
| `Props_responder` | the side that waits, with power save of link and device and a peer that calls, releases, sleeps, wakes and probes when it likes | `NoUseAfterReturn`, `ViewMatchesLink`, `ListensWhileWaiting`, `TransitionIsAwaited`, `ChipAwakeWhenUsed`, `FilterOnlyInExchange` |
| `Props_transmit` | two data requests and two banks, on a link lost or released with data in the banks and set up again | `TxReadyNotLost`, `SendsOnlyWhenConnected`, `BanksAccounted`, `NothingLeftInBanks` |
| `Props_data` | two callers, sending and receiving, while the command alarm expires or an operation fails at any of its steps | `TypeOK`, `SleepsOnlyWhenDone`, `NoCallerForgotten` |
| `Live_powersave` | set-up and power save with a waking peer, fairly scheduled | `CallersAnswered`, `PowerSettles` |
| `Cancel` | two cancels against task, alarm and requests that are queued, processed, answered | `DummyOwnedOnce`, `RequestsAccounted`, `EndForEachWait`, `ResultIsTrue`, `CancelIsSeen` |
| `Fit` | two threads over a controller and two adapter files, as many data requests as containers, and a core that completes at any time, loses its link and reports events | `OneOwner`, `PortInUse`, `DisablingToldOnce` |
| `Io` | two threads that make data requests, take completions before or after the call is over, stop and poll | `NoUseOfFreedBox`, `BuffersKept`, `PollNotLost`, `CompletionTaken` |
| `Life` | a card that comes and goes and interrupts, under three threads | `DeviceOutlivesFile`, `UnregisteredUnused`, `NoLostSignal`, `SignalHandled` |
| `Rx` | a request and a discard for two profiles: what is reckoned to be in the banks is there, known, and taken | `ReadyIsLeft`, `FifoAtRest`, `Reported`, `OneMessage`, `RequestsSound`, `DataTaken` |

The runs `Find_close` and `Find_rxpos` each refute one statement the code makes of
itself; see [below](#findings). Each module has a `TypeOK`; TLC checks the one of the core, and all
are proved.

`LinkRefined` says that the core implements `LinkService`: a link is set up in
one of the orders the protocol has (called, or calling, or both crossing), goes
up and is reported as up in one step, dozes only while it is up, and is reported
as down before another one is begun. `TxReadyNotLost` is about three places that
must work together (masking in the interrupt handler, unmasking when banks are
counted, clearing at a change of state): if the device is idle and connected and
all banks are free, it knows. `SleepsOnlyWhenDone` says that no wake-up is lost: the
task looks at events, data and requests one after the other and gives its lock up in
between, so that what comes behind its back must have signalled the device again.
`TransitionIsAwaited` says that while the power
state changes, the completion that ends the change is somewhere on its way
(asked for and unmasked, latched, fetched, pending or in hand). `OneOwner`,
`DummyOwnedOnce` and `BuffersKept` say of three pools what a pool cannot know:
that what it handed out is in exactly one place until it comes back.
Each of the three is broken by one race of the code ([below](#findings)), and they say that nothing else breaks it: the history variables `crossed`,
`twice` and `mistaken` are set by that race and by nothing else.
`RequestsAccounted` ties the counters of the queues to what is in them, with the
dummies. `ResultIsTrue` compares what a caller of `CNL_cancel` is told with what
happened to its target. `NoCallerForgotten` is
checked with two callers because the alarm leaves a request that is removed from the queue
a second time: what is dropped then is the request of the next caller, who must
still be in the hands of the task or answered. `CompletionTaken`, `SignalHandled` and
`DataTaken` are liveness.

`ReadyIsLeft` and `FifoAtRest` tie the driver's reckoning to the chip: the cached
length less the cached position is what is left of the message, and the address in the
RXFIFO is where the rest of the first bank is. `OneMessage` is what a reader of data
relies on: a buffer holds one message or the first part of one, and says which, although
requests are cancelled in its midst and the rest arrives while the first part is read.
`Reported` is about the order of clearing, counting, masking and enabling between
the interrupt handler and `IZAN_receiveDataIntUnmask`.

## <a name="bounds"></a>Bounds, fairness, deadlock

**Bounds.** One control caller, because `CNL_request` holds a mutex while a
request is outstanding and a caller that finds the queue full is refused
without effect (`AddRequest`); the caller repeats requests without limit, in any
order its state check allows. Two in `Props_data`: the alarm lets a caller go whose request
the task still has in hand, and the next one comes in before that is
over. `MaxData` bounds data requests outstanding in each
direction: one or two, with one or two banks, is enough for a bank to be free
while another is in use, for data to outnumber the banks' capacity and for a
link to end with data both queued and in the banks. `MaxTimeout` and `MaxFault`
bound expiries of the alarm and failing operations: one, at any moment and at
any step of an operation; in `Props_data` one of either (`OneMishap`), where both together
were checked without arriving data, which is 1,820,090 states. There is no bound on frames, timers, events or links.
The byte arithmetic of `txSendingCsdu` is kept modulo 256, so a wrap shows with
the first CSDU miscounted. Requests and sources are divided over the runs, so that
every action, every request and every source but the repetition of some occurs
in one of them.

Some properties are checked only where they hold, and fail elsewhere for a reason
worth knowing: `BanksAccounted` without errors (a purge forgets
neither the banks nor `txSendingCsdu`: `CompletesWhatWasSent` below), `FilterOnlyInExchange`
and `ListensWhileWaiting` without failing operations (a COMP_RELEASE_REQ whose change of state
fails leaves the filter on with no exchange to end it, and a C-Req whose body cannot be read
leaves the source masked), and `NoUseAfterReturn` and `AnsweredOnce` without the command alarm, which answers a request that
`WAIT_CONNECT` has in hand, or that is being completed, a second time
(`core/cnl_if.c:600-621` looks at the queue alone).

The other instances:

| run | instance | distinct states | why it is enough |
|---|---|---|---|
| `Cancel` | 2 cancellers, a request to receive, one to send, 3 dummies, `MaxSem` 1 | 3,261,388 | two cancels overlap in every way, on one target or two; a dummy is in hand, one in the queue and one a copy at the same time; ids are used again |
| `Fit` | 2 threads, 3 containers, a controller and two adapter files, `MaxData` 3 | 938,770 | data requests alone can hold the pool, as they can in the code (queues of 12, `core/cnl.h:66-69`, ten containers), and it runs empty while a port is disabled, the link is lost or an event is due; a second adapter file follows the first |
| `Io` | 2 threads, 3 requests, 2 buffers | 2,078,790 | requests outnumber buffers; the ioctl that makes a request and the one that takes its completion overlap; a file is closed over requests and opened again |
| `Rx` | a request, a discard, 2 profiles, 2 banks, CSDUs of 2 units, requests of 3, 3 CSDUs, one link | 1,838,118 | messages of one to three CSDUs, shorter than the request and longer; banks full, and read in part; both profiles in the banks at once, data nobody asks for ahead of data somebody does; a request is cancelled, answered and made again; the link ends at any step |
| `Life` | 3 threads, `MaxWake` 3 | 3,558 | one thread uses the device, one tries to open it and one closes it while the card is removed |

`MaxSem` bounds the ends of waits that nobody waits for (an interrupted wait leaves
one behind), `MaxWake` the wakeups of the task that are not consumed; both
semaphores are unbounded in the code. `Fit` and `Cancel` use symmetry, and check no
liveness.

`Rx` has one link. On a second one `ReadyIsLeft`, `OneMessage` and `Reported` fail,
with a second request `FifoAtRest` too, each for one of two reasons: the position that is not reset
(`Find_rxpos`), and RX_READY of the dead link ([below](#findings)). `RequestsSound` does not depend on it and is
proved for any number; the others are proved of the first link, whatever follows it. Lengths are reckoned modulo `Word`, 64 in place of 2^32, which
is more than all banks hold, as in the code: a difference that is negative wraps and is
seen.

The constraints `NotCrossed` of `Cancel`, `NotTwice` of `Fit` and `NotMistaken` of `Io`
stop the search at the first state in which a dummy, a container or a box may be freed
twice. TLC checks the invariants in that state, too. What a pool does that was given the
same thing twice is not worth following, and nothing is claimed of it but types; the
theorems need no constraint.

**Fairness.** `Live_powersave` assumes weak fairness of the task and of both
halves of the interrupt handler (threads of the kernel that run whenever they
can), of `Return` (a caller whose semaphore is up), and of the chip's own duties:
`FrameSent`, `DataAcked`, `PhyDone`, and raising a status that is latched and
enabled. Nothing is assumed of the peer, the timers, the callers' requests or the
data senders. That the peer acknowledges data stands in `DataAcked`; its
absence would be reported by T_Retry, which is in `Air`.

`Io` assumes weak fairness of the steps by which a thread in an ioctl goes on
(`Ctrl`, `LookAtStatus`, `PostProc`, `TakeBox`): a thread inside the driver is not stopped.
`Life` assumes it of whoever has put the device into the list and goes on to wake
the task (the interrupt handler, a request, the removal), and of the task, which is
a kernel thread. `Rx` assumes it of the task and of the interrupt handler. None
of them assumes anything of applications, the card or the peer.

**Deadlock** is checked in `Live_powersave`, `Cancel`, `Io` and `Life`. In `Fit` the
system may really stop: with every container in the lists of files that are
closed nothing frees one (`cnl/fitting/cnlfit.c` forgets them when a file is
opened). In `Rx` it stops when the last link is over. In the other runs of the core it may too, in ways that are documented findings or consequences of a fault:
CLOSE waits for an interrupt that was masked (`Find_close`); after an error purge
a late completion finds the queue empty and leaves `procAction` at
`SEND_MNG_FRAME`, so that no later control request is ever looked at
(`core/cnl_schd.c:1086`, `2190`), for instance a RELEASE that was under
way while a second C-Req was refused; and a wake that fails half-way leaves the
interrupt shut off.

## What is proved

For every set of callers, threads, request types, sources, files, containers,
buffers, and every number of banks, requests, links, timeouts and faults:

| module | theorem | statement |
|---|---|---|
| `CnlCoreProofs` | `Inductive` | `Spec => []IInv` |
| | `Types` | `Spec => []TypeOK` |
| | `LinkReported` | `Spec => []ViewMatchesLink` |
| | `SendsOverAwakeLink` | `Spec => []SendsOnlyWhenConnected` |
| | `ImplementsLink` | `Spec => LinkRefined` |
| `CnlCallerProofs` | `RequestsFollowed` | `Spec => []CallerInv` |
| | `NobodyForgotten` | `Spec => []NoCallerForgotten` |
| | `AnswersOnce` | `MaxTimeout = 0` implies `Spec => []AnsweredOnce` |
| | `NothingLeftBehind` | `MaxTimeout = 0` implies `Spec => []NoUseAfterReturn` |
| | `NoWakeUpLost` | `Spec => []SleepsOnlyWhenDone` |
| `CnlChipProofs` | `WakingReported` | `Spec => []WakeInv` |
| | `TransitionsAwaited` | `Spec => []TransitionIsAwaited` |
| | `AwakeWhileOpen` | `Spec => []UseInv` |
| | `AwakeWhenUsed` | `Spec => []ChipAwakeWhenUsed` |
| | `Emptied` | `Spec /\ []SendsNotWhileClosing => []EmptyInv` |
| | `BanksLeftEmpty` | `Spec /\ []SendsNotWhileClosing => []NothingLeftInBanks` |
| | `BanksLeftEmptyUnclosed` | no `CLOSE_REQ` in `ReqTypes` implies `Spec => []NothingLeftInBanks` |
| | `BanksCounted` | `MaxFault = 0` and fewer than 256 banks imply `Spec /\ []SendsNotWhileClosing /\ []NoByteOverflow => []BanksAccounted` |
| | `WakesOnce` | `MaxFault = 0` implies `Spec => []OnceInv` |
| | `FilterEnds` | `MaxFault = 0` implies `Spec => []FilterOnlyInExchange` |
| | `CallsKept` | `MaxFault = 0` implies `Spec => []ListenInv` |
| | `Listens` | `MaxFault = 0` implies `Spec => []ListensWhileWaiting` |
| | `TxReadyKeptUncalled` | `MaxFault = 0` and no `CREQRCV` in `Air` imply `Spec => []TxReadyNotLost` |
| | `TxReadyKeptCalled` | `MaxFault = 0` and neither `CONNECT_REQ` nor `CLOSE_REQ` in `ReqTypes` imply `Spec => []TxReadyNotLost` |
| `CnlFitProofs` | `FitTypes` | `Spec => []TypeOK` |
| | `ContainersHaveOneOwner` | `Spec => []OneOwner` |
| | `ActivePortInUse` | `Spec => []PortInUse` |
| | `DisablingTold` | `Spec => []DisablingToldOnce` |
| `IoFitProofs` | `OneCompletion` | `Spec => []IInv` |
| | `IoTypes` | `Spec => []TypeOK` |
| | `BoxesSafe` | `Spec => []NoUseOfFreedBox` |
| | `BuffersSafe` | `Spec => []BuffersKept` |
| | `PollWoken` | `Spec => []PollNotLost` |
| `CnlLifeProofs` | `Together` | `Spec => []LifeInv` |
| | `LifeTypes` | `Spec => []TypeOK` |
| | `OutlivesFile` | `Spec => []DeviceOutlivesFile` |
| | `UnusedWhenReleased` | `Spec => []UnregisteredUnused` |
| | `SignalKept` | `Spec => []NoLostSignal` |
| `CnlRxProofs` | `RxTypes` | `Spec => []TypeOK` |
| | `RequestsStaySound` | `Spec => []RequestsSound` |
| | `LeftIsReady` | `Spec => [](links <= 1 => ReadyIsLeft)` |
| | `FifoKept` | `Spec => [](links <= 1 => FifoAtRest)` |
| | `ReportedOnce` | `Spec => [](links <= 1 => Reported)` |
| | `AnsweredWithOne` | `Spec => [](links <= 1 => OneMessage)` |
| `CnlCancelProofs` | `Invariant` | `Spec => []IInv` |
| | `CancelTypes` | `Spec => []TypeOK` |
| | `DummiesOwnedOnce` | `Spec => []DummyOwnedOnce` |
| | `AllRequestsAccounted` | `Spec => []RequestsAccounted` |
| | `EndsForAllWaits` | `Spec => []EndForEachWait` |
| | `ResultsAreTrue` | `Spec => []ResultIsTrue` |
| | `CancelsAreSeen` | `Spec => []CancelIsSeen` |

Assumed are only the named assumptions of each module on its constants (no
caller is one of the two reserved request objects, sets that must differ are
disjoint, there is at least one bank, a word holds what the banks do, what is counted
in cancelling is finite), which TLC evaluates in every run, and what the table states:

- in `AnswersOnce` and `NothingLeftBehind`, that the command alarm does not expire, which
  breaks both;
- `MaxFault = 0`: no device operation fails, for the reasons given under the bounds;
- `SendsNotWhileClosing`: data is not sent once CLOSE was begun. CLOSE empties the banks
  first, and its last step to CLOSE clears none. `procAction` keeps data back meanwhile, but a
  late completion of another exchange resets it (`core/cnl_sm.c:483-575`), and what is sent then stays. `BanksLeftEmptyUnclosed` does without
  it where nobody closes;
- `NoByteOverflow`: `txSendingCsdu`, a byte, does not overflow. It would if the handling of
  the chip's reports were delayed while 256 CSDUs are sent; fewer banks than 256 alone do not
  exclude it, since banks that the chip has freed are filled again at once;
- of `TxReadyNotLost`, a device whose peers do not call it (`TxReadyKeptUncalled`), or one that
  only waits to be called and is not closed (`TxReadyKeptCalled`), which covers the sets of
  `Props_transmit`. A device that connects and is called as well loses TX_READY: TLC shows
  it for `CrossingTypes` ([below](#findings)).

The history variables `crossed`, `twice` and `mistaken` stand in the properties, not among the
hypotheses: the theorems say what holds until the race that sets them, and the type
invariants, `RequestsAccounted` (but for one counter) and all of `CnlFit`'s port hold after it
as well.

**The argument, core.** None of these is inductive. What the scheduler finds true when
it takes an action must still be true when it is performed, although every lock is
given up in between and callers, chip and interrupt handler run. It is,
because only the task writes `cnlState`, `pwrState` and `procAction`; but the
task has to carry what it found. `Fits(act)` says what that is for each action:
that a completion, frame or timer is valid in the state at hand, that the core is
awake, that a C-Req is handled in SEARCH or CONNECTION_REQUEST only. The
invariant `IInv` has five parts:

- `TypeOK`;
- `TaskInv`: which action may be in hand at each place, and that it fits;
- `StateInv`: there is a sub-state exactly in the connected states, and `view`
  agrees with `main` but between the writing of the state and the reset;
- `PowerInv`: the core is awake unless it is in SEARCH or hibernates its link, and
  is falling asleep exactly while COMP_SLEEP is pending or in hand;
- `BankInv`: the banks counted as free when sending was decided are still
  free when they are filled, although the chip frees others meanwhile.

`TypeOK` needs all of them: without `BankInv` the counters leave their range,
without `StateInv` and `PowerInv` a change of state has no target. The proof goes
action by action: the steps of callers, chip and interrupt handler leave what the
task holds alone (`TaskUndisturbed`); the scheduler takes actions that fit
(`TakesFitting`, and one lemma per source of actions); every action that is
performed restores the invariant, and `TargetFacts` says where each change of
state leads. For the refinement, `QuietStep` shows that only `CommitState` and
the two resets mean anything to `LinkService`, and `CommitIsLinkStep` maps each
change of `cnlState` to the step of the link it is. `IInv` was checked with TLC on
the state spaces of `Props_data` and `Props_transmit` before it was proved.

**The argument, callers and power.** `CnlCallerProofs` follows the one request there is
(the mutex lets one caller block). `Handed` says what a step of the scheduler does
to it: nothing, or it goes from the queue to the hand of the task to be answered,
or it is in both to be executed; each source of actions has a lemma. `ForgetInv`:
whoever waits is in the queue, in the hand of an action that will answer him
(`Answers`), or the semaphore is up. What makes it inductive is the state
COMPLETED: an action that has taken its request out of the queue and then fails
becomes HANDLE_ERROR, which answers its own request only if it is COMPLETED
(`core/cnl_sm.c`). `AnswerInv`, for `MaxTimeout = 0`: what is in the queue or in hand is
unanswered, and where an action ends the queue is empty if it carries a caller's
request, so that no place answers twice. With the alarm `AnswerInv` is false, and
`NobodyForgotten` does without it. A removal does not look for what it removes
(`RemoveRequest`), so that a second one drops whatever is queued and lowers the count once
more. That the request of the next caller is not lost with it holds because it cannot be
queued unseen: the count admits one only at 0 (`CountInv`: what is queued is counted as one),
and what a removal inside the scheduler or by an action drops is its own, or one
that an answer to somebody else (`Answers`, `Own`) puts the semaphore up for, which is the one the
caller who waits is asleep on.

`NoWakeUpLost` needs one thing beside the property (`IdleInv`): INIT and CLOSE requests are
looked at first, the others last, and what was passed over at the beginning of a round without
a signal since is still no reason to act at its end (`PassedOver`); the state, the
events and the queues the scheduler then finds empty are those of the moment it sleeps
(`ScheduleFindsNothing`), and whoever changes them afterwards signals (`CallersSignal`,
`EventsSignal`).

`CnlChipProofs` accounts for what the chip and the driver owe each other. The scheduler only
moves things (`Steering`), callers leave the task and the chip alone (`CallersLeave`),
the chip latches (`ChipLatches`), the handler makes events of what it masks (`HandlerMoves`),
and an action adds no completion of the chip (`Performing`); the accounts that follow cite
these five in place of the actions.

- Waking: while it lasts, the chip will raise AWAKEPRIOD, or it is latched and enabled, or
  COMP_WAKE is on the way (`WakeReported`); and neither of the other two power sources is
  latched (`WakeInv`), since `IZAN_intToEvent` makes COMP_INIT or nothing of AWAKEPRIOD in
  their company. `InHandWhileWaking` shows that no action that would reprogram the mask or
  clear statuses is in hand meanwhile.
- The chip's own power state: in the open states it follows the core's (`OpenAwake`), but
  INIT wakes the chip while `cnlState` is still CLOSE, and CLOSE puts it to sleep before.
  `Opening` follows COMP_INIT through the mask, the handler and the events: the chip is awake
  as long as it is anywhere, and never meets COMP_CLOSE in the handler.
- Banks: they are empty from the moment the chip was put into SEARCH or CLOSE until the next
  link (`EmptyInv`). What is counted covers what is there since sending counts the free banks
  first, and the chip's frees are noted only after (`BanksAccounted` is inductive beside it).
- Filter: it is on only over a link that is awake, where no power transition can end, so that
  no COMP_WAKE or COMP_SLEEP ends the exchange instead of its own completion (`FilterInv`).
  That COMP_WAKE comes once, and only of a waking, is `OnceInv`: a second one would reset
  `procAction`.
- Listening: C-Req is enabled while the upper layer waits, or is an event or in the hands
  of the task; where a change of state leads to SEARCH it is masked (`ListenInv`).
- Free banks: TX_READY is added to the events where a change of state leads to SEARCH, and no
  answer to a peer or to the upper layer is in hand there before it is noted, so that a link
  is set up only by a device that knows; on a link, `txReady` is cleared only by a sending
  that fills every bank counted as free, and then a report is pending, latched, or enabled with
  a bank still to be freed (`ReadyInv`). The scheduler notes data events only when no other event
  gives an action: a C-Req found together with TX_READY is handled first. What the two theorems
  add is why that does not happen on their devices.
- Calls: without peers that call there is no C-Req (`Uncalled`). A device that only waits to be
  called enables C-Req in SEARCH once TX_READY is noted. The interrupt handler may be
  late with a repeated one, and add it when another was already answered; but it reports nothing
  else before that, so that whatever ends the set-up comes after it and the change
  of state back to SEARCH clears it (`CalledInv`).

TLC checked these on the sets of the four `Props` runs before they were proved; `CalledInv`
on larger ones, with C-Req repeated and links released and lost.

**The argument, around the core.** `CnlFitProofs`: whoever gives a container away no longer has it (`OwnerInv`). Of the one a
call has queued and will look at again nothing is said, because it may be anybody's by then;
the one step that frees it sets `twice`. The thread that adds an event of the port holds the
mutex over a state of the port that fits its command (`PortInv`), so that it is asked,
confirmed and told in turn. `IoFitProofs`: a request has one completion, which is on its way in the core, in
the list of events or in the hands of one thread (`CompletionInv`), and a box that
has left the list of the file is in the hands of the thread that will free it
(`BoxInv`); that the ioctl which made the request still holds the semaphore is what
keeps the other from freeing the box (`IssueInv`). All three say so until a
queued request is taken for a failed one; only the addresses of buffers are accounted for
after that, too (`AddressInv`). For `PollNotLost` the invariant
covers the poller that has looked and not yet slept (`PollInv`). `CnlLifeProofs`:
`LifeInv` says which states of the two layers go with which place of the one thread
that uses the device and of the bus, although no mutex covers both.
`CnlRxProofs`, on any link: a piece is no longer than what is ready and than what is missing,
so that a stale cache, which a second link may have, cuts data but does not write past a
buffer; a request joins its queue empty (`RequestInv`) and is touched only as the first
of the queue of `rxPid` (`TaskInv`), which leaves the order of the others to
`AppendStep` and `LeaveStep`. On the first link (`LinkInv`) there are three accounts.

- Who knows of the data (`TokenInv`): the chip with the interrupt enabled, the handler, the
  event or the scheduler, and never two of them, so that RX_READY is not added twice; what
  the status misses between being cleared and the mask being lifted, the counting of the
  banks finds.
- What the cached reading stands for (`AccountInv`): what is left of a run of banks that
  begins with the first one. A reading extends to the last bank of the run that was there
  (`RunRead`); a piece empties exactly the banks it ends in or passes (`RunEmptied`), and what is
  left is a run again, its end, the position and the address in the RXFIFO moved together
  (`RunLeft`). The headers are not read anew while something of the run is left, unless the
  message goes on behind it.
- Whose data it is (`MessageInv`): a request that was begun waits for the rest of its
  message, which is what comes next in the banks or from the peer (`Continues`); two of them
  cannot, since both would be first in the queue of that profile. Nothing else in the banks
  is of another message before this one ends (`BanksInv`, `RunOfOne`).

`PhaseInv` has what is so before the link and after it: until it is connected the task has not
looked at the banks, and when it is released only the handler may still be at work, which is
why the account does not extend to a second link. TLC checked `LinkInv` on the set of `Rx`, with
a second request or a third bank, and with reads that fail, before it was proved.
`CnlCancelProofs`: until the callback has run while two cancels overlapped, a dummy is in
one place (`OwnInv`), so that moving one from the
cancel queue to a request queue or to the hand of the task changes the counter of the
queue, and the number of ends of waits, by exactly one (`LeaveStep`, `EndStep`; these
count, and need the sets finite). `CallbackInv` says why the callback may read the global as
often as it does if there is one cancel: the thread that set it has not cleared it, since it
stops the alarm first, which waits for the callback; and what the callback found in the queue
is there when it is removed, for the lock is held. `ResultIsTrue` and `CancelIsSeen` follow from
`CleanInv`: the one thread whose cancel is under way is the one that waits as long as
there is a dummy in the queue, an answer in hand or an end of a wait, and all three
are about its target.

**Model-checked only**: the liveness properties (fairness is out of reach of the
prover). Every invariant and action property of the runs that are to pass is stated by a
theorem of the table, under the hypotheses it gives.

## <a name="findings"></a>Where the code differs from what it says

Two have a run that shows them; the lines quoted are in `PROJECT.json`.

- `Find_close`: CLOSE waits for an interrupt; a frame or timer already
  fetched when CLOSE began changes the state, which masks it. CLOSE never completes.
- `Find_rxpos`: the position in the first bank (`rxBankHeadPos`) is not cleared when a
  link is released (`core/cnl_izan.c:1021`). If the link ended in the middle of a bank,
  that much is subtracted from the length of the first message of the next link, and its
  end stays in the bank.

The following have no run; TLC refutes each on `MCCnlCore` with the
properties of `CnlCoreProps` and the definitions named, with
`TxCsduNum = 1`, `MaxTimeout = 0`, `MaxFault = 0`, `CHECK_DEADLOCK FALSE`, and
`MaxData = 0` if nothing else is said:

| property | `ReqTypes`, `Air` | what happens |
|---|---|---|
| `WakeRequiredExpected` | `PowersaveTypes`, `PowersaveAir`, `MaxData = 1` | an interrupt between the chip's going to sleep and the handling of COMP_SLEEP is asserted to be impossible, and purges every request |
| `CompletesWhatWasBegun` | `InitiatorTypes`, `ReleasingAir` | a completion fetched before a reset is added after it and answers the next request with success |
| `CompletesWhatWasSent` | `PowersaveTypes`, `WakingAir`, `MaxData = 1` | an error purge leaves the count of CSDUs in the banks, and a later acknowledgement completes a request that was not sent |
| `TxReadyNotLost` | `CrossingTypes`, `CrossingAir` | a C-Req of a set-up that was given up is handled before TX_READY is noted; the link that follows never sends |
| `SecondRequestSkipped` | `TransmitTypes`, `RepeatedAir` | a repeated C-Req is to be skipped, but the reading of its body refuses it and purges every request |
| `CountIsTrue` | `AlarmTypes`, `AlarmAir`, `TwoCallers`, `MaxTimeout = 1` | a request that the alarm took (`core/cnl_if.c:609`) while `pWaitConnect` ran (`core/cnl_schd.c:1557`) is removed and counted a second time: `ctrlReqCnt`, the "current CTRL request count." (`core/cnl.h:424`), wraps to 255 and every control request is refused until an error purge, or is 0 with the request of the next caller in the queue or dropped from it |
| `SleepCompletes` (with `FairSpec`) | `InitiatorTypes`, `AcceptingAir` | a completion left over from before is deferred ahead of COMP_SLEEP, which is never looked at: the task spins |

and in the modules around the core, each on the instance of the module's run but for
what is said:

- `OneReserves` of `CnlCancel`: `g_cnlCancelToutArg.pCnlDev` is tested and set without a lock
  (`core/cnl_schd.c:2351`, "the function has already reserved" at `:2329`), so two cancels
  pass the test. They share one alarm, whose callback reads the global anew at every use
  (`:2726-2739`): it may take the dummy of the other cancel out of a queue it is not in, and
  release it before that thread queues it, or meet the NULL that the end of the other has
  written. From there on the pool may have a dummy that is also queued (`crossed`): without
  its premise `DummyOwnedOnce` fails;
- `ReuseIsSafe` of `CnlFit`: "re-use IO_CONTAINER." (`cnl/fitting/cnlfit_cnl.c:230`), the
  completion makes the container of a request that of an event. The call that queued the
  request looks at the status in it once more (`:875`) and frees it when that is an error:
  a request that ended with an error in between, cancelled or purged, leaves its container in
  the pool and in the list of events (`twice`). When the error comes before
  `core/cnl_if.c:434` resets the status, it is overwritten with success instead;
- `PoolNeverLocked` of `CnlFit`: "ERR_NOMEM (memory or resource is depleted)"
  (`cnl/fitting/cnlfit_cnl.c:827`), but an empty pool is waited for without end, by the CNL
  task, too, when it has an event to report (`:1327`). Data requests alone can hold all ten
  containers, since the queues of the core hold 12 (`core/cnl.h:66-69`), and only the CNL task
  ends them;
- `FailedIsQueued` of `IoFit`: "DataRequest failed, remove from async queue and free data
  buffer." (`io/fitting/cnlio_fit.c:996`). By the same look at the status a request that was
  queued and ended with an error comes back with SUCCESS, and with the status the application
  had put into its argument, which is not written on that path; if it was not 0 the
  ioctl takes the request for a failed one (`:794`). Its completion is in the list of events,
  so a GETEVENT frees the box and releases the buffer as well (`mistaken`);
- `PendingIsKnown` of `IoFit`: a data request that the core refuses comes back with
  SUCCESS from the call, and with its refusal in a status that is not handed on
  (`io/fitting/cnlio_fit.c:1009`, "success to request."). The ioctl tells the application that
  the request is pending and keeps its box for a completion that does not come;
- `RequestsCleared` of `IoFit`: "force clear all data request."
  (`cnl/fitting/cnlfit.c:333`), where nothing is cleared. Releasing the file gives the
  buffers of its requests back to the pool (`io/fitting/cnlio_fit.c:509`) while the core holds
  the requests and the addresses, for a later file to be given them;
- `ReleasedUntouched` of `CnlLife`: "no more access to this device." says the comment
  where the close of a device that is gone releases it (`core/cnl.c:759`). The removal has
  just signalled the device: the CNL task may have it in hand, or find it in the list of
  signalled devices. `CNL_unregisterDevice` waits for the task, with no lock held and
  not for ever, which does not keep the file from closing. The next card is given the memory
  and has its list entry initialised, in the list or not (`core/cnl.c:414`, `:235`);
- `ReadyAddedOnce` of `CnlRx`, with `MaxLinks = 2`: RX_READY is asserted not to be
  pending when it is added (`core/cnl_schd.c:2437`). The interrupt handler has fetched it
  when the link is released, adds it afterwards, and the next link adds it again;
- `OwnProfile` of `CnlRx`, with `MaxLinks = 2`: the same left-over event makes the
  profile of the data be read from empty banks and kept; data of the other profile then
  goes into the request (`core/cnl_schd.c:541`);
- `ReleasedWhenRead` of `CnlRx`, with `ReadsFail = TRUE`: banks that could not be read in
  three tries are released like those that were, and the request is answered with
  success (`core/cnl_izan.c:4463` says "if read data is completed, set READDONE");
- `DataDiscarded` of `CnlRx`: a discard is put into the queue without waking the task
  (`core/cnl_if.c:520`), so that data that is there already is not discarded until
  something else wakes it;
- the wait for the adapter when the controller is closed stands behind a condition
  that is never true (`cnl/fitting/cnlfit.c:264`, `AdapterAwaited`);
- opening takes the mutex of the fitting, then that of the core; the bus takes
  them in the other order when it removes the card (`core/cnl.c:579`,
  `cnl/fitting/cnlfit.c:610`). In `Life` TLC reaches, five steps from the start, a
  state in which a thread at `open` and the bus at `unregister` wait for each other
  (the invariant `devMtx = Bus /\ At(Bus, "unregister") => \A t \in Threads : ~At(t, "open")`
  fails);
- a refused cancel keeps its dummy (`lost` of `CnlCancel`, `core/cnl_schd.c:2351`).

Seen on the way, without a run of their own: a second T_RESEND in TARGET_SLEEP
(its source stays enabled there) and a T_ACCEPT that crosses the acknowledgement
of C-Acc are treated as errors and purge every request; a C-Req whose body
cannot be read leaves C-Req masked; a POWERSAVE request that is retried for ever
keeps TX completions from being handled, and a flood of frames keeps requests from
being looked at; a CSDU whose writing fails is not counted, and its
acknowledgement wraps the byte; the same frame received while the body of
the first is read is forgotten (`core/cnl_schd.c:1330`); an id used again while the
copy of its cancelled predecessor is queued cannot be cancelled
(`core/cnl_schd.c:212`). In reception: a request that passed the check before a discard
of its profile was queued is queued behind it and never served, and two discards may be
queued, since the test and the adding are under two holds of the lock
(`core/cnl_if.c:231`, `:497`); a message of which a send request was cancelled in its
midst has no end, and the receiver joins the next one to it. In the character device: a signal while waiting for a data
buffer goes unnoticed (`io/fitting/cnlio_fit.c:924`); when copying an answer back
fails, the box stays held (`:657`).

## <a name="not-modelled"></a>What is not modelled

In the core: suspension and resumption of the device, the answering of outstanding
requests when it is removed, keep-alive, POWERON, POWEROFF and register access,
the data of notifications, parameters of requests other than "the same power-save
parameters or not", send requests of several CSDUs, payloads, and failures of register
accesses inside the interrupt handler. In reception: register accesses that fail other
than the reading of the banks, fragmented CSDUs that are not full (the driver reckons
as if there were none), and the registration of a callback for data that nobody asked
for. In cancelling: the order within queues, the control queue apart from the transmit queue
(a request in either is replaced by its dummy in the same way).

Around it: the conversion of events and parameters and GETSTATS in the fitting; in the
character device ioctls that are answered at once, which share nothing, data
requests without a buffer, failing copies from and to the application, and the
compat ioctl; several devices, of which the code allows one.

The SDIO layer is pure I/O: it is seen only as probe, remove and operations that
succeed or fail. The bodies of the kernel's locks and semaphores, and the lists of
the OS layer, are taken as given; that a wait may be interrupted and nobody looks at
it (`os/linux/syscall/cmn_sync.c:295`) is modelled for the wait of a cancel only.

## Plan

1. `CnlTx`: transmission with requests of several CSDUs, in order, under cancelling and
   purging. Abstract specification for it and `CnlRx`: a FIFO channel per
   direction that may lose its tail when the link ends.
2. The removal of a device with requests outstanding, and its suspension, in
   `CnlCore`.
3. The list of signalled devices of `CnlLife` against the flag `signaled` of `CnlCore`, as
   a refinement.

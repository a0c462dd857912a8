# FuzzyBunnies RTX: TLA+ models, checks and proofs

The repository is a small real-time executive (RTX) that runs as one Linux
process: eight processes (three i-processes, five user processes) with
priorities and message passing, three signals for interrupts, and two child
programs that stand for a keyboard and a CRT. This directory holds TLA+ models
of its kernel, the TLC configurations that check them, and machine-checked
proofs about them.

## 1. The system

| Component | Source | State | Operations |
|---|---|---|---|
| Queues | kernel.c 123-332, init.c 79-221 | `head`, `tail` per queue; one link `p` per PCB and per envelope | `PCB_ENQ/DEQ/REMOVE`, `env_ENQ/DEQ/REMOVE` |
| Scheduler | ProcessSwitch.c, kernel.c 605-665 | `curr_process`, `state`, `priority`, four ready queues | `process_switch`, `release_processor`, `change_priority`, `null_process` |
| Messages | kernel.c 337-394, 448-600 | a receive queue per process, `sender_id` | `send_message`, `receive_message`, `get/send_console_chars` |
| Envelope pool | kernel.c 399-443, init.c 251-285 | `envelope_q`, `blocked_on_envelope` | `request_msg_env`, `release_msg_env` |
| Atomic sections | kernel.c 18-53 | `Atom`, the signal mask | `atomic(ON)`, `atomic(OFF)` |
| I-processes | iproc.c | `interrupted_proc` of each handler on the signal stack, shared buffers, `sleep_Q`, `pulse_counter` | `kbd_iproc`, `crt_iproc`, `timer_iproc` |
| Delays | kernel.c 705-740, iproc.c 170-240 | `sleep_Q` | `request_delay`, the timer's traversal |
| Clocks | clock.c, CCI.c 84-107 | `systemclock`, `wallclock`, `wallClockOut` | `clock_increment`, `clock_set`, `clock_out` |
| Traces | kernel.c 495-510, 582-594, 758-819 | two arrays of 16, `start`, `end`, `counter` | the recorders, `get_trace_buffers` |
| CCI | CCI.c | its envelope | the console commands |
| User processes | userprocesses.c | local queue of C | A, B, C |
| Children | keyboard.c, crt.c | shared buffers, flags | read a line, print a text |
| Boot and exit | init.c | all of the above | `main`, `cleanup`, `terminate` |

How they interact. User processes call *user primitives* that bracket a
*kernel primitive* with `atomic(ON)` and `atomic(OFF)`. Kernel primitives share
the queues and end, where the caller must wait, in `process_switch`, which
swaps contexts: the caller goes on behind that call only when it is dispatched
again. Signals start the i-processes *on the stack of the interrupted process*;
an i-process makes itself `curr_process`, calls the same user primitives and
restores `curr_process`. The children signal the RTX and share a buffer and a
flag byte with an i-process.

What is hard here:

- **One flag for nested sections.** `atomic` is not a counter. A handler's own
  call of a primitive ends the section the handler began, and the flag and the
  mask change in two steps.
- **Code behind `process_switch` is unprotected**, because the context that
  resumes has atomicity off. The dequeue of a receiver is there (kernel.c:580), and
  a handler may send to the same queue in the middle of it.
- **One link field per node.** A node that is put on a second queue, or leaves
  a queue at its tail, corrupts the first queue later.
- **Block and wake.** A message may arrive around the moment its receiver
  blocks; a released envelope wakes a process but is not given to it.
- **Handlers in handlers**: `curr_process` and a call inside `clock_out` must
  survive any nesting, and copy loops share one `buf_index`.
- **Leaks by design.** The timer forgets every acknowledgement of a displayed
  second, and the CCI overwrites its only pointer to an envelope on most commands,
  so the pool of a running RTX only shrinks.
- **Signals sent once.** The keyboard child signals a line once; a handler that
  has no envelope then clears the flag, and the line is gone.

What makes each part correct: the queues are the FIFO sequences their callers
believe in and never contain a cycle; the RUNNING process is the one that
executes, the ready queues hold the READY ones, and the highest is dispatched;
messages are delivered once and in order (but for those the code loses in an
unprotected dequeue), no wakeup is lost and no receiver
wakes to an empty queue; envelopes are neither lost nor duplicated, and none
idles while a process waits for one; a user process is not interrupted in the
kernel; one side at a time uses a shared buffer, and what was typed or displayed
arrives whole; a delay ends when it is due and every sleeper is woken; the console
answers until the pool is spent, and the pool is spent by what is known to cost
an envelope only; clocks stay within their fields and in step with the pulses; a
dump shows the last events.

## 2. Modules

| Module | What it is |
|---|---|
| `LinkQueue` | the six queue functions, on a *store*: `head`, `tail` and `p` as functions. `Chain` reads a queue off the memory |
| `QueueUse` | a store next to the sequences its callers believe it holds |
| `Kernel` | scheduler, messages and pool with nested i-processes |
| `Mailbox` | the abstract specification of message passing: one FIFO per owner |
| `Atomic` | `atomic`, the signal mask and nested handlers, one action per system call or assignment |
| `Trace` | recorders and printer of the trace rings |
| `Clock` | pulses, the two clocks, `clock_set` store by store |
| `Devices` | the two children and `kbd_iproc`, `crt_iproc` on their shared buffers, byte by byte |
| `Delay` | `request_delay`, the timer's queue, `sleep_Q` and its traversal |
| `Alarms` | the abstract specification of delays: an alarm rings once, not early, and at most `Slack` ticks late |
| `RTX` | the closed system: the programs of all processes and the three i-processes on `Kernel` |
| `MCQueueUse`, `MCKernel`, `MCAtomic`, `MCDevices`, `MCDelay`, `MCRTX` | the instances TLC checks |
| `LinkQueueProofs` | lemmas about the six queue functions |
| `QueueUseProofs`, `KernelProofs`, `AtomicProofs`, `DelayProofs`, `ClockProofs`, `DevicesProofs`, `RTXProofs` | the theorems of section 4 |

`Kernel`, `QueueUse` and `Delay` extend `LinkQueue`, so every scheduler, message or
timer step works on the same pointers as the C code; `RTX` extends `Kernel`, and its
programs take the steps of the kernel's actions, never of their own. `Kernel` and `Atomic` are two views
of one program at different grain: in `Kernel` a kernel section of a user
process is one action and a handler is one action per kernel call; `Atomic`
shows what that rests on (`UserSectionAtomic`: a user section is indeed not
interrupted). `Devices` shows where it is generous: a *handler's* section ends with
the first primitive it calls, and another handler may then interrupt it.

### Kernel, in terms of the code

`state`, `priority`, `sender_id` and `curr_process` are the fields and the
global of the same names; `pcbs` and `envs` are the stores of the PCB queues and
the envelope queues. `at[p]` is the program counter as far as it matters: in
user code, behind `process_switch` in `k_receive_message` or in
`k_request_msg_env`, at two points inside the dequeue of a resumed receiver, or
between the drain loop and the release in `null_process`. `frames` is the stack of signal handlers, each with its
`interrupted_proc` and its envelope. `held` says which envelopes a user program
may still use; `lost` and `fault` are history: envelopes a handler returned with or
that were sent into a dequeue about to empty its queue, and how the RTX stopped if it
did.

| Action | Code |
|---|---|
| `RequestEnv`, `ReleaseEnv` | the pool; the loop of `k_request_msg_env` tests again after each dispatch |
| `SendMessage`, `k_send_message` | sender stamp, enqueue, wake a receiver that is `BLK_ON_RCV` |
| `ReceiveMessage`, `TakeMessage` | `k_receive_message` with a message, atomic, or up to `process_switch` |
| `ResumeReceive`, `StoreHead`, `StoreTail` | the same behind `process_switch`: the queue is not tested, and nothing is blocked. `env_DEQ` of the last message is three steps: it reads the NULL link (`at` becomes `"taking"`), stores `head` (`"emptied"`) and stores `tail` |
| `SendFaults` | `env_ENQ` on a queue that has a head and no tail (`NullTail`) |
| `ReleaseProcessor`, `NullDrain` | `k_release_processor`; the drain loop, which names process 7 whoever runs it |
| `ChangePriority` | `k_change_priority` behind its argument tests |
| `Interrupt`, `Reply`, `Return` | a handler up to its `receive_message`, its `send_message`, its end |

Three idealisations. (1) A client uses only envelopes it holds: an envelope
released twice or used after it was sent is the business of `QueueUse`, where
callers do that, and of `RTX`, whose CCI does. (2) The i-processes are those that
answer messages; the timer, which keeps, re-sends and requests envelopes, is not among
them: it is in `RTX` and `Delay`. (3) The user half and the kernel half of a primitive
are one step. The kernel half is, because atomicity is on; what runs with atomicity off
behind `process_switch` is one step only where a handler cannot tell:

- A resumed receiver with more than one message. A handler may send to this very queue
  at any point of `env_DEQ`, but it appends behind the tail and `env_DEQ` then changes
  only the head and the link of the first envelope. With one message they do interfere,
  and there the steps are separate: `env_DEQ` has read the NULL link, a handler appends
  an envelope, and `head = NULL` loses it (`lost`); or a handler appends between the
  test of the new head and `tail = NULL`, and the queue keeps an envelope and no tail.
  The test itself belongs to the store of `head`: what arrives between the two is kept
  either way. That `temp->p = NULL` comes last in the code makes no difference either:
  nobody reads the link of an envelope that is off its queue, and in `RTX`, where it may
  be on another one too, it is NULL already unless a line was typed ahead.
- The loop of `k_request_msg_env`. Handlers take envelopes from the pool only in
  `clock_out`, whose timer is in `RTX`; there a resumed `RequestEnv` is one step still.
  But only the CCI releases envelopes, so of the processes in `RTX` only A is ever woken
  to resume it, and about envelopes nothing is claimed there once A runs (`Flooded`).
- `NullDrain`, on the queue of process 7. Handlers reply to whoever has sent them
  something, which process 7 never does.

`process_switch` with all ready queues empty returns to its caller: `fault` becomes
`"null_env"` (`k_receive_message` dereferences NULL) or `"spin"` (`k_request_msg_env`
loops with the signals blocked). `"null_tail"` is a send to a queue without a tail,
which writes through a NULL pointer; any process or handler may be the sender.

### Atomic, in terms of the code

A context has a program counter, the mask its return restores and its copy of
`curr_process`. `on_test`, `on_block`, `on_set` and `off_test`, `off_unblock`,
`off_set` are the lines 25, 33, 34 and 38, 43, 44 of kernel.c. A signal is
delivered between any two steps if it is not blocked, and blocks itself until
its handler returns or calls `atomic(OFF)`. `process_switch` appears as its
calls of `atomic`: off before `swapcontext` (`ProcessSwitch`), off again behind
it (`SwitchedBack`), on when `k_request_msg_env` loops (`SwitchAgain`). A handler
without a message turns atomicity off twice (`ReceiveNothing`, `KernelReturn`).

### Devices, in terms of the code

`indata`, `outdata` and each `msg_text` are functions from addresses to bytes; a
raised flag is the byte 1 at address `BufSize`. A frame's `pc` is the next
statement of its handler: `nothing` (no envelope), `flag` (the test of the flag),
`store`, `inc`, `test` (the copy loop), `nul`, `raise`, `clear`, `send`, `return`. One
action is one load or store of shared memory, so the other handler, or a child, may
come between any two. What is before the end of `receive_message` is one step,
`Interrupt`: the handler has the signals blocked there. `pending` is the set of
signals the children have sent: signals of one kind do not queue. The rest is history:
`meant`, what an envelope should carry; `mixed`, the envelopes whose loop another loop
has interrupted; `loaded`, the last text given to the CRT; `dropped`.

The model includes that `crt_iproc` without an envelope clears the flag of a text
that is not printed yet (`CrtNothing`), and that the keyboard child waits for the
flag without a time limit.

### Delay, in terms of the code

`Tick` is `timer_iproc` to the end of its `receive_message`, and the passing of
100 ms. The steps behind it (`EnqueueRequest`, `StartTraversal`, `Visit`, `Remove`,
`Wake`, `Return`) are the statements on `sleep_Q`, which run unprotected. `Remove`
does what `env_REMOVE(sleep_Q, removeid)` does: it takes the *first* envelope of that
sender. `alarm` is history: when each delay was asked for, and whether it has rung.

### RTX, in terms of the code

`pc[p]` names the call that program `p` makes next and `env[p]` is the pointer
variable it makes it with; `first` is the CCI's second variable. A program step is an
action of `Kernel` and the move of `pc`; a call that waits keeps `pc` until its second
half has returned an envelope. `hpc` runs parallel to the kernel's `frames` and says
what each handler does next. `content` is the part of a message the programs branch
on: the command of a line, or that it is an acknowledgement. The command `print`
stands for ps, b, e and any invalid input, which each post one text. `ct` and `c`
have no effect but `wallClockOut` and the clock, and are not typed in the instance.
Signals whose handler would find nothing to do are left out: such a handler restores
what it found. `KbdSignal` may come for every line as soon as it is typed, whatever the
CCI is doing. `crt_iproc` transfers its text (`CrtTransfer`) or finds the flag up and
returns with it (`CrtDrop`): the CRT child does not test the flag between its sleep and
its signal (crt.c:88-92), and when the flag is up is the business of `Devices`, so here
every signal may find it either way. `ADequeue` is process A's own `env_DEQ`
(userprocesses.c:29), unprotected like that of a receiver and split in the same way.
`SendsNowhere` is `SendFaults` for the sends of these programs. Unlike clients in `Kernel`, the CCI here does use envelopes it no
longer holds, as in the code (`CCIRelease` behind s, ps, b, e).

`ahead` is history: a line was signalled while the text of the last command had not been
printed, or its acknowledgement not been taken (`LastTextAcknowledged` is false). That
is a matter of how fast one types; the code does nothing about it, and section 3 says
what then happens.

`fault = "iproc_blocked"` is `clock_out` finding the pool empty: the kernel marks the
i-process blocked, with priority -1, and switches to a user process inside the
handler. What follows is outside the model.

## 3. Runs

Run a configuration with `tlc -config X.cfg M`.

| Run | Instance | Shows |
|---|---|---|
| `queues` | 3 nodes, 2 queues, careful and careless callers | `Represents`: with careful callers every queue is the expected sequence, and free nodes have clear links. `LinksAcyclic`: whatever callers do, no cycle, so every traversal ends |
| `kernel_distinct` | 2 i-processes, 2 clients on levels of their own, null process, 2 envelopes, a priority change across the other client | the state, the queues, the mail and the pool agree, no call faults, the highest ready process is dispatched |
| `kernel_shared` | the same with both clients on level 2 and no change | what survives the dropped process of `kernel_dispatch`: one RUNNING process, envelopes in one place or lost in one of the two known ways, FIFO wake-ups, refinement of `Mailbox` |
| `kernel_dispatch` | the CCI, the two processes of level 2 and the null process of level 3 of `init_processes`; process 5, at level 1, is left out | **violated**: `PCB_DEQ` of the caller's own level drops a READY process |
| `kernel_change` | the same, console commands `n` | **violated**: stale tail after `PCB_REMOVE` |
| `atomic` | 3 signals, 3 nested handlers | user sections are not interrupted, every context in the kernel is `curr_process`, nothing stays blocked |
| `trace` | 16 slots, modulus 15, 33 events | **violated**: an empty dump from the fifteenth event on |
| `clock` | 3 pulses a second, 2 seconds, 2 minutes, last hour 1, 30 pulses | fields in range, system clock in step with the pulses |
| `devices` | buffer of 4 bytes, a line of 2 letters, a text of 1, 2 envelopes, 2 nested handlers | the flags keep the two sides of a buffer apart; an undisturbed line arrives as it was typed and an undisturbed text is printed whole, once and in its turn; the keyboard child does not wait for ever and every text is taken |
| `devices_mixed` | the same | **violated**: a line is mixed up by the other handler's copy loop |
| `delay` | 2 processes, 3 envelopes (two of one process), delays of 0, 2 and 3 ticks | `Delay` implements `Alarms`; no delay is forgotten; who sleeps is woken |
| `rtx` | table of `init_processes`, 4 envelopes, 3 lines, 1 displayed second, 2 nested handlers, the change `n 1 3` | what costs an envelope, and that nothing else does; the RTX stops only when all but two are spent; until then the console always has a request at the keyboard, executes a line and waits again, as long as no line is typed ahead and A has not come into play; whatever is typed, no receiver reads NULL, and processes 3, 4 and 7 never run with the priorities of the table |

The four violated runs each check a sentence of the source against the code;
section 6 has the details.

**Bounds.** `MaxNest` bounds the signal stack: 2 in `Kernel` lets a handler
interrupt a handler of the same or of the other i-process, 3 in `Atomic` is
one handler per signal, or the same one three times. Two envelopes let two
messages meet in one queue, and the pool runs empty when both are in use. Two
clients that contend and a null process make every pair of states meet; three
nodes are the least for a node between two others, and two queues for a node on
both. `MaxPulses = 30` passes the end of the scaled day (24 pulses).
`MaxEvents = 33` fills the ring twice. The clock's fields and the pulses per
second are scaled; its constants occur only in comparisons with the limits.
In `Devices` a line of two letters is the least with a byte between its first and its
NUL, the letters of line and text differ so that a mixture shows, and 2 nested
handlers are each handler within itself and within the other. In `Delay` three
envelopes put one between two others on `sleep_Q`, two of them of one process so that
`env_REMOVE` has a choice; the delays are 0, the special case, and two that several
ticks count down. In `RTX` `NUM_ENV = 4` is the two envelopes of the CCI and two to
spend: with one displayed second (`MaxShown`) and three lines (`MaxLines`) the pool
runs dry by two commands or by a command and a second, the timer or the CCI may be
the one that finds it empty, the clock can be switched on before, between and
after other commands, and the envelope of a text is on the queue of `crt_iproc` and in
the pool at once. With `NUM_ENV = 5` the run passes as well (409 412 states).

**Deadlock** is checked except where a bound ends the run (`clock`, `trace`), and
where the model stops as the RTX does: in `rtx`, its timer blocked inside a handler or a
send to a queue without a tail, and in the two passing runs of `Kernel`, such a send.

**Fairness.** `Kernel`, `Atomic`, `QueueUse`, `Trace` and `Clock` state none: the
signals there come from an open environment, and their properties are safety.

- `Devices`: weak fairness of each child, which the operating system runs. Strong
  fairness of the handler at each depth of the stack: a handler above disables it and
  comes again only with the next signal of a child that sleeps between two. Strong
  fairness of each `Interrupt`: a pending signal is delivered once the stack has
  room. Nobody has to type or to display.
- `Delay`: weak fairness of `Tick`, because `ualarm` repeats, and of the handler.
- `RTX`: strong fairness of the program (handlers disable it, and they end), weak
  fairness of the handlers, strong fairness of the keyboard's and the CRT's signals
  (the first is sent once and stays pending, the second is repeated every 100 ms).
  Neither lines nor displayed seconds are assumed to come.

**Timing assumptions.** The models are untimed; two guards state what the 100 ms of
the children and of the timer give. `Devices!SignalReady`: the handler of the CRT
child's last signal has returned when the child has slept. `Idle` in `RTX` and
`MaxNest = 1` in `Delay`: a handler of the timer returns within a tick. Nothing is
assumed about when lines are typed.

**Properties that hold only in one instance.** `QueuesMatchStates`,
`NoEnvelopeIdles`, `WokenHasMail`, `NoFault` (no receiver reads NULL and no caller
spins) and `DispatchesHighest` are checked where no two clients share a level and the only change of priority moves the
process that may then be alone on a queue; with the table of the code the two
defects of `kernel_dispatch` and `kernel_change` break them. `MailboxSpec` and
`EnvelopesConserved` do not depend on the scheduler and are checked where it
fails.

`DelaysKept` and `AlarmsSpec` are checked where delays end in the order they were
asked for (`InOrder = TRUE`). With `InOrder = FALSE` both fail, for two reasons in
the code: an envelope removed from the tail of `sleep_Q` leaves the tail on it, so
the next request is linked behind an envelope that is gone and is never woken; and
`env_REMOVE` by sender takes the first of two delays of a process, which then ends
early. With `MaxNest = 2` a tick inside the traversal may remove the envelope the outer
traversal is about to remove: `env_REMOVE` finds nothing, the outer handler dereferences
NULL (`fault`), and nothing is claimed about that.

The properties of `RTX` that count envelopes claim nothing once `Excused` holds, which is
`Flooded` or `ahead`. Both are things the code lets happen, and in both the pool breaks:

- `ahead`. The CCI's release puts the envelope of a text into the pool while it is still
  on its way to the CRT and back. When a line comes to the CCI's queue before the
  acknowledgement has gone from it, the acknowledgement is linked behind the line, or the
  line behind the acknowledgement, whose link is the pool's: what follows it in the pool
  is lost, or received as a message. Or the acknowledgement arrives inside the
  unprotected dequeue of the line, or the other way round, and is lost or leaves the queue
  without a tail.
- `Flooded`. A second `s` sends process A another envelope while the first one, released
  by the CCI, is back in the pool: linking the second behind the first cuts the pool
  there. And once `s` and a change of priority have started process A, it sends every
  envelope it gets to B, which forwards it to process 5, whose queue nobody empties.

`LowLevelsStarve`, and that no receiver reads NULL and nobody spins, are claimed whatever
is typed. `ConsoleHasRequest` and the two liveness properties also stop where all
envelopes but the CCI's two are spent, as the RTX does.

`StopsOnlyWhenSpent` also depends on the changes of priority. It is proved while there is
none, and the run checks it with `n 1 3`. With the two changes `n 1 3` and `n 3 4` it
fails: process A blocks on receive and takes process 5 off the queue of level 1, B takes 7
off the queue of level 3 (the dequeue of `kernel_dispatch`), and when the CCI waits for its
next line `process_switch` finds nobody and receive goes on without a message, with the
pool still full.

## 4. Proofs

Check a module with `tlapm M.tla`.

| Theorem | Statement | Hypothesis | Inductive invariant |
|---|---|---|---|
| `QueueUseProofs!TypeCorrect`, `LinksStayAcyclic` | `TypeOK`, `LinksAcyclic`, whatever callers do | | `StoreInv` |
| `QueueUseProofs!QueuesAreBelieved` | `Represents` | (careful callers: in the property) | `StoreInv` with what each queue holds |
| `AtomicProofs!TypeCorrect`, `SectionAtomic`, `Interruptible` | `TypeOK`, `UserSectionAtomic`, `NothingStaysBlocked` | | `AtomicInv` |
| `AtomicProofs!CurrentIsSelf` | `RunsAsItself` | | `CurrentInv`: `AtomicInv` and `Current` |
| `KernelProofs!TypeCorrect`, `NoLostWakeup`, `TraversalsEnd` | `TypeOK`, `BlockedHasNoMail`, `LinksAcyclic` | | `KernelInv`: their conjunction and `Taking` |
| `KernelProofs!EnvelopesKept` | `EnvelopesConserved` | | `MailInv` |
| `KernelProofs!KernelImplementsMailbox` | `MailboxSpec` | | `MailInv` |
| `KernelProofs!OneProcessRuns`, `MessageIsThere` | `OneRunning`, `WokenHasMail` | `MovedAlone` | `SchedInv` |
| `KernelProofs!WokenInTurn` | `WakesBehind` | `MovedAlone` | `SchedInv` |
| `KernelProofs!PoolIsOwed` | `NoEnvelopeIdles` | `MovedAlone` | `PoolOwed` with `SchedInv` and `MailInv` |
| `KernelProofs!QueuesAgree` | `QueuesMatchStates`, but for READY processes that share a level with a client | `MovedAlone` | `SchedInv` |
| `KernelProofs!KeptNotPassedOver` | `DispatchesHighest`, with the same exception | `MovedAlone` | `SchedInv` |
| `KernelProofs!NeverStops` | `NoFault` | `MovedAlone`, `Kept(NULLPID)` | `SchedInv` |
| `DelayProofs!TypeCorrect` | `TypeOK` | | `TypeInv` |
| `DelayProofs!DelaysAreKept` | `DelaysKept` | `InTurn` | `TypeInv` and `TurnInv` |
| `DelayProofs!DelaysAreOnTime` | `AlarmsSpec` | `InTurn` | `TypeInv` and `TurnInv` |
| `ClockProofs!ClocksStayInRange`, `SystemClockNeverFast` | `TypeOK`, `SystemClockKeepsTime` | | `ClockInv`: `TypeOK` and `Counted` |
| `DevicesProofs!KeyboardKeepsRequests` | `KeyboardDropsNone` | | `SideInv` |
| `DevicesProofs!TypeCorrect`, `OneSideAtATime` | `TypeOK`, `BuffersExclusive` | `RoomToSpare` | `DevInv` |
| `DevicesProofs!LinesArrive`, `TextsArePrinted`, `OneTextAtATime` | `LineArrives`, `TextPrintedWhole`, `TextsTakeTurns` | `RoomToSpare` | `DevInv` |
| `RTXProofs!RTXTypeCorrect`, `RTXNoLostWakeup` | `RTXTypeOK`, `BlockedHasNoMail` of the closed system | | `RTXInv`: `KernelInv`, `Programs` and `Stack` |
| `RTXProofs!OnlyTwoProcessesRun` | `LowLevelsStarve` | `TableOrder`, `NeverRestored` | `StarveInv` with `RTXInv` |
| `RTXProofs!RTXEnvelopeBudget`, `RTXPoolLasts` | `EnvelopeBudget`, `PoolLasts` | | `BudgetInv` with `RTXInv` and `Nested` |
| `RTXProofs!RTXConsoleHasRequest` | `ConsoleHasRequest` | | `BudgetInv` with `RTXInv` and `Awake` |
| `RTXProofs!RTXStopsOnlyWhenSpent` | `StopsOnlyWhenSpent` while the priorities are those of the table | `TableOrder`, `NeverRestored` | `StopInv` and `NowhereInv` with `StarveInv`, `RTXInv`, `BudgetInv` and `PoolLasts` |

They hold for all values of the constants under the named assumptions of the
modules: sizes are natural numbers with at least one user process and one
envelope, NULL is no number (for the queues: no node), the table is a function
into the levels and BootPid is the first of its level; lines and texts fit
their buffers and hold neither NUL nor the value of a raised flag, 1. No bound of the
runs is used; `MaxNest` is any natural number.

**The hypotheses.** `MovedAlone`, `RoomToSpare` and `InTurn` leave out systems in which
known defects of the code show:

- `MovedAlone`: a process whose priority is ever changed shares no level, before or
  after. `PCB_REMOVE` leaves the tail of a queue on the node it took from the end, and
  the next process put on that queue is lost (`kernel_change`). A system that never
  calls `change_priority` satisfies it with any table, the one of `init_processes`
  included.
- `Kept(p)`, which is no hypothesis of the whole but of what is said of a process: no
  client but `p` itself ever has a level of `p`. `k_receive_message` dequeues the head of
  its caller's level (`kernel_dispatch`), so a READY process that shares its level with
  a client may be off its queue. In the table of the code the CCI, process 5 and process 7
  are kept; A and B, which share level 2, are not, and `QueuesAgree` and
  `KeptNotPassedOver` say of them only what is true: that nobody else is on their queues.
  `NeverStops` needs it of process 7, `NULLPID`.
- `RoomToSpare`: lines and texts are two bytes shorter than the buffer, not one. Both
  i-processes count with one static `buf_index`, so a loop that another one has
  interrupted goes on from an index that may be one too far. With lines *and* texts of
  `BufSize - 1` letters the loop of `crt_iproc` so reaches the flag behind its own
  buffer and stores a letter there. `BuffersExclusive` then fails: TLC finds it with
  `BufSize = 2` and one letter each. The programs have 1028 bytes for a buffer and
  2048 for `msg_text`, and no text the kernel writes is near that; a line can only be
  as long as its user types it. That a mixed loop ends at all also rests on the zero
  bytes behind a text, see section 5.

- `InTurn`: `InOrder` and `MaxNest = 1`, as in the run `delay`; section 3 says what
  fails without either. With delays that are all equal, as process C's, `InOrder` holds
  by itself.

`LowLevelsStarve` is about the table of `init_processes` and is proved from what the
proof uses of it:

- `TableOrder`: the CCI (0) is above process 5 (1), and process 5 above all others (2, 2
  and 3).
- `NeverRestored`: no command gives a process the priority it has in the table, as `n 1
  3` in the run `rtx`. Otherwise the table can look untouched when the queues are not:
  after `n 1 3` process A, now on the level of process 5, receives, which takes process 5
  off its queue (`kernel_dispatch`), and `n 2 3` restores the table. Before the first
  change the theorem says that only the CCI and process 5 run; after it, nothing.

The arguments:

- **Acyclic links.** Enqueueing can create a cycle only through the link of
  the tail, and it clears the link of the new node in the same call; so each set
  of nodes that had a node pointing out of it still has one. The traversals
  need nothing else: `From` is the least closed set, and `FirstOn`, what
  `env_REMOVE` finds, exists because links are acyclic (`FirstOnExists`).
  This is why `StoreInv` needs acyclicity even to type `env_REMOVE`.
- **Queues are what callers believe.** That a sequence of sends of any length is the
  `Chain` of a queue is no statement for induction over its length here. The proof
  says it link by link: the first of the sequence is the head, each next one the link
  of the one before, the last has no link and is the tail, and a node of the sequence
  is on no other queue. `env_REMOVE` keeps that because the traversal stops at the
  first node of the sender. That a free node has a clear link is part of it, because
  `PCB_ENQ` into an empty queue does not touch the link of its node.
- **Envelopes.** `WellFormed` says the same of all the kernel's queues at once:
  apart from each other, tails on their queues, loose nodes with clear links.
  `MailInv` adds that an envelope is queued, in a program's hands, in a handler's
  hands or lost, and never in two of them; each primitive moves one envelope from one
  of those to another. `Cardinality(Places(e)) = 1` follows. `WellFormed` is too much once a dequeue is
  interrupted: a lost envelope may keep a link into the queue it was sent to, and the queue
  of a user process may have no tail. `Ordered` allows just that, and `Taking` says that
  the message a receiver is about to take stays at the head of its queue. The refinement of
  `Mailbox` has one lemma for what `env_ENQ` and `env_DEQ` make of a `Chain`, append
  and tail, and one step for each kernel action: a send, a receive or a stutter. While a
  receiver is `"taking"` its mailbox is the one message it has read (`Delivered`), so a
  send into that gap is a stutter and `StoreHead` the receive. A
  dequeue by a nested handler is the receive of another owner. Nothing about the
  scheduler is used, so both hold where the scheduler fails.
- **Scheduler.** `OneRunning` is not inductive: a handler saves `curr_process` and
  gives it back, so `FramesNest` says that each handler has saved the one below it and
  the lowest one a user process. `PcbsInOrder` says that a process on a ready queue is
  READY and of that level, that the queue of blocked processes holds those that are
  BLK_ON_ENV, and that each READY process that is `Kept` is on its queue.
  `Whereabouts` keeps what a blocked process is waiting for, and that a priority is one
  of the `Levels` its process may ever have, which is what makes the hypotheses
  about levels facts about reachable states. `NeverStops` needs a null process that is
  always there to be dispatched, which never blocks. `WakesBehind` and what
  `KeptNotPassedOver` says are action properties: `SchedStep` says them of one step.
- **The pool.** `NoEnvelopeIdles` is not inductive either: a released envelope wakes
  one process, which takes it only when it is dispatched, and meanwhile the pool may
  lose it to someone else. `PoolOwed` counts: there are at least as many woken
  processes that have not yet taken their envelope as envelopes in the pool, as long
  as anyone is still blocked.
- **Atomic.** `UserSectionAtomic` is not inductive: it needs the relation of
  flag, mask and program counter. `AtomicInv` says that while the user process
  is alone the flag, the mask and its place agree; that while handlers are on
  the stack the user process stands at a step where it found the mask empty, so
  the first handler restores the empty mask; and that a handler about to return
  has cleared the flag. What handlers do to flag and mask in between is not
  constrained.
- **curr_process.** A handler owns `curr_process` between `SetCurrent` and
  `RestoreCurrent`, the user process always. `Current` says that `curr_process`
  names the last owner on the stack and that every handler that has saved it
  saved the last owner below itself. A handler interrupted before `SetCurrent`
  or after `RestoreCurrent` owns nothing, so the handler above it saves, and
  gives back, the name of an owner further down.
- **No lost wakeup.** The only step that adds mail to a user's queue is
  `k_send_message`, which makes a blocked receiver READY in the same step; the
  only step that blocks is `ReceiveMessage` with an empty queue, the steps of an
  interrupted dequeue are those of a receiver that runs, and a
  dequeue from any other queue cannot give the process mail. The last point needs
  the types and names of the queues, hence `TypeOK` in `KernelInv`; typing
  `ChangePriority` needs the traversal, hence the links.
- **Delays.** `OrderInv` holds the argument that delays are on time. Of the delays on
  `sleep_Q` those the traversal has passed have been counted once for each tick of
  their age, less the ticks they waited in the timer's queue, which are fewer than
  there are envelopes (`Passed`); the others have one tick to be counted (`Due`). The
  i-th request in the timer's queue is at least i ticks younger than there are
  envelopes (`TimerOk`): with n envelopes the queue is never longer, and a tick takes
  one. Because delays end in the order of the requests, `sleep_Q` is sorted, and what
  the traversal has passed has strictly less time left than what it has not. `removeid` was read when the
  envelope was visited, and with one handler at a time it still names its sender (`Named`).
  So the envelope found to be due is the first one, for which `env_REMOVE` is `env_DEQ`
  (`RemovesTheFirst`): no other envelope of its sender comes before it and no tail is
  left behind. Each defect of section 3 needs one of the two. `Hand` covers the envelope
  between two queues.
- **Clock.** Seconds shown times pulses per second, plus the counter, is the number of
  pulses, until the wall clock is displayed: pulses that come while `clock_out` runs in
  the handler take the counter past its limit and are forgotten. `Counted` says so as
  inequalities, for both halves. The fields stay in range between the stores of
  `clock_set` because each store is in range by itself.
- **Devices.** On the keyboard's side at most one handler has not cleared the flag yet,
  and while there is one, or a signal for one, the flag is up and the child waits
  (`KbdInv`); on the CRT's side there is one handler at most (`CrtOnce`). What a
  handler has done is a predicate of its own frame and of the memory it names
  (`FrameOk`), whatever its place on the stack, so a step of the top handler leaves the
  others' as they are. The loops share `buf_index`: at most two can be on the stack, the
  keyboard's and the CRT's; the lower one is then `mixed` and the upper one has started
  from zero (`LoopInv`). A mixed loop ends because bytes near the end of a buffer are
  never letters (`NulTails`), which is where `RoomToSpare` is needed. So the copy of a
  loop that is not mixed is the line or the text, byte by byte (`Upto`), and stays it
  until the envelope is sent or the CRT child has printed it (`ScreenInv`).

- **RTX.** Its programs break the rule that `MailInv` needs: the CCI releases an envelope
  it has just sent. But `KernelInv` does not need that rule. An enqueue of an envelope
  that is on a queue already clears its link, which takes links away, and then adds the
  one from the tail: no cycle comes about. So types and links are kept by every call of
  every program, and with them that nobody is blocked with mail in his queue; `Programs`
  and `Stack` add what the programs and handlers keep themselves: an i-process is on the
  stack once at most, `kbd_iproc` finds the line it transfers, and `timer_iproc` displays
  a second only with an envelope.
- **Who runs.** `Starved` says where the CCI and process 5 are, RUNNING or alone on the
  queue of their level, and that no other queue of a level as high has a head; what the
  lower queues hold does not matter. `SwitchStarved` is the one lemma about the
  scheduler: `process_switch` then takes the CCI or process 5. The other processes are
  READY for ever and never make a call, and a message for one of them wakes nobody.
- **What an envelope costs.** `MailInv` says that every envelope is in one place. Behind
  ps, b, e and every invalid line the CCI breaks that: the envelope of the text, `x`, is
  on the queue of `crt_iproc` and at the end of the pool, with one link for both. The
  theorems need no rule that forbids it, but a description of it that every step keeps.
  `Layout` has these parts, for some sequences `b` and `c` and a set `D`:
  - `Threads`: the pool spells `b`, the queue of `crt_iproc` spells `c`, and all links of
    `D`, which holds the envelopes on their way back to the timer, stay in `D`. Only `x`
    can be on both sequences, at the end of `b`; its link may lead out of the pool, and
    then it is the link of the other queue. A step that clears the link of `x` cuts `c`
    behind it, and what follows joins `D` (lemma `Cut`): these are displayed seconds,
    whose envelopes are spent in any case. The pool loses nothing. If the timer takes
    `x` as the last of the pool, the pool's head is what followed `x`, which is not the
    pool's, until the second is sent and the link is set again;
  - `Console`: the envelope `k` of the console is with the CCI, at the keyboard, with
    `kbd_iproc`, on the CCI's queue or inside the CCI's dequeue;
  - `Text`: `x` is on the queue of `crt_iproc`, with `crt_iproc`, back with the CCI as
    an acknowledgement, or dropped by `crt_iproc`, when it is in the pool only. Once the
    line is in the hands of `kbd_iproc` it is none of the first three: this is where `~
    ahead` is used;
  - `Enough`: the pool, `k`, the envelope of a second in the hands of the timer and the
    one the CCI never uses are all but the spent ones.

  `BudgetInv` says that a line was typed ahead or that A has been sent two envelopes or
  runs (`Excused`), or the CCI has not begun its loop (`Boot`), or all but two are spent, or
  the state has a `Layout`. `Excused` is never left once it holds. Until all but two are
  spent the pool has an envelope whenever the CCI or the timer asks, so the exit of the
  third case is taken only by spending. `EnvelopeBudget` counts the
  envelopes that `Layout` names (`CountKnown`), `PoolLasts` is `Enough` with an empty `b`,
  and `ConsoleHasRequest` is `Console` while the CCI's queue is empty.
- **How the RTX stops.** With the priorities of the table only the CCI and process 5 give
  up the processor, process 5 is ready when the CCI blocks, and so `process_switch` always
  finds somebody; nobody else takes the CCI's messages, so it finds one when it was woken
  (`CCIMail`). What is left is the timer in `clock_out` and the CCI without an envelope,
  which `PoolLasts` bounds, and a send to a queue without a tail (`NowhereInv`): in a state
  with a `Layout` every queue somebody is about to send to is empty or has a tail, the
  CCI's because nobody has anything to send to it while it is inside its dequeue
  (`SentSomewhere`).

Model-checked only:

- `QueuesMatchStates` and `DispatchesHighest` in full, in `kernel_distinct`: with the table
  of the code they are false (section 6), and the theorems say what is left of them;

- liveness, which with `ENABLED` is out of the prover's reach: `KeyboardGoesOn`,
  `TextsAreTaken`, `SleepersWake`, `ConsoleReturns`, `ConsoleAnswers`;
- `StopsOnlyWhenSpent` after a change of priority, which depends on the change (section 3);
- the sentences of the source the code contradicts (section 6).

Induction over data is out of reach as well; that is why queues are described link by
link, and no module has a RECURSIVE operator.

## 5. Not modelled

- Text: formats, prompts, process status, the layout of a dump.
- The operating system's part of boot and exit: `kb_crt_start`, `cleanup`,
  `terminate`, `mmap`, `fork`. The modules begin with the state `main` leaves.
- Arguments that a primitive refuses without effect (NULL envelopes, pids and
  priorities out of range).
- The command t, which ends the program.
- The state SLEEP that `k_request_delay` gives its caller, which keeps running: its
  next primitive that waits or yields overwrites it, and nothing tests for it.
- `ProcessC`, which `main` does not start: process 5 runs `null_process`. Only its wait
  for a delay is in `Delay`, as the process that receives its own envelope.
- Lines and texts that fill a buffer: `LengthAssumption` in `Devices`. Empty lines are
  allowed by it and covered by the proofs; the instance of the run has none, because with
  one it has 698 106 states and its liveness takes longer than five minutes. Texts are
  not empty: the programs post none.
- What `malloc` leaves in a `msg_text` behind "no_text" (init.c:270): in `Devices` it is
  zero, as unused heap is, and the rest of a longer text of the same envelope is kept.
  Only a copy loop with a changed index reads there.
- Signals that arrive during boot, before `curr_process` is set.
- What the RTX does after an i-process was blocked in `clock_out`, or after a store
  through a NULL pointer.

## 6. Where the code and its words disagree

1. `kernel_dispatch`: kernel.c:572 dequeues the head of the ready queue of the
   *caller's* level before blocking. The caller is RUNNING and on no queue, so
   another READY process is dropped for good. With processes A and B, which
   share level 2, A blocking on receive removes B: the README's "Process A is
   not sending to Process B".
2. `kernel_change`: kernel.c:215 unlinks the tail of a queue and leaves
   `queue->tail` on it. The next enqueue links behind the removed PCB.
3. `trace`: kernel.c:505-509 and 787 use modulus 15 and 16 for 16 slots.
4. `devices_mixed`: kbd_iproc and crt_iproc count with one static `buf_index`
   (iproc.c:107; kbcrt.h:39 declares a `k_buf_index` that nothing uses). The flag of
   `atomic` does not keep them apart: `receive_message` turned it off (kernel.c:43-44).

Known and without a run of its own: clock.c:45 compares the hour with 0 instead of
assigning, so the last hour of the day does not end. README.txt:22 reports the symptom
("the wall clock doesn't stop at 24 hours for some reason"). `Clock` models the line as
it is. And CCI.c:169 releases whatever `env` points to, which after s, ps, b and e is an
envelope that has just been sent: it is on `free_env_queue` and on the queue of
`crt_iproc` (or process A) at once, with one link for both, and the pool may hand out
again an envelope that has yet to be printed. `RTX` models the call as it is. Third, the
dequeue of a receiver that was blocked (kernel.c:580) runs with nothing blocked: a handler
that replies to that receiver in the middle of `env_DEQ` has its envelope lost
(kernel.c:286-288) or leaves the queue with a head and a NULL tail (kernel.c:290-292), and
the next sender writes through it (kernel.c:254). `Kernel` and `RTX` model both.

## 7. Plan

Done: all the modules of section 2, and the theorems of section 4: all properties of
`QueueUse`, `Kernel`, `Atomic` and `Clock`, all safety properties of `Devices`, `Delay`
and `RTX`, the refinements of `Mailbox` and `Alarms` included, as far as section 4 says. What is left:

1. That a kernel section of `Atomic` is the one action it is in `Kernel`.
2. The changes of priority after which `StopsOnlyWhenSpent` still holds.


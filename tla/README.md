# Verification of the Gramado kernel

Gramado is an operating system for x86_64 written in C: a kernel
(`src/coreos/kernel`), an init process, a display server and network servers in
ring 3, and programs. This directory holds TLA+ modules that model

* the core that every other part depends on: the thread table, the round-robin
  scheduler, the task switch of the timer interrupt, the services that change
  thread states, and the message queues;
* sockets, and over them the protocol between the display server and the
  programs that draw;
* descriptors, pipes and terminal queues;
* the network from the card to the DHCP client and the port of the system.

TLC checks the modules on small instances; TLAPS proves every safety property of the
runs, and the four refinements, for every size of the system.

All paths below are relative to `src/coreos/kernel/halls/apphalls/exec/ke/intake`
unless they start with `src/`.

## 1. Inventory

| Part | State it keeps | Operations | Interacts with |
|---|---|---|---|
| thread table (`thread.c`, `thread.h`, `tlib.c`, `ithread.c`) | `threadList`: state, quantum, flags, saved context, links | create, start, message control | everything below |
| scheduler (`sched/sched.c`, `sched/schedi.c`) | round (links `next`, `currentq`), scheduler lock, load balancer | one pass per round: wake, block, kill, enrol | called by the task switch; resets the input focus |
| task switch (`disp/ts.c`, `disp/dispatch.c`, `disp/spawn.c`, `disp/callback.c`) | `current_thread`, `runningCount`, the task switch lock, one callback context | a timer tick: keep, preempt, spawn, select, dispatch, callback | calls the scheduler; serves deferred yield and sleep |
| cloning (`clone.c`), processes (`te.c`) | process list, flower thread of a process | `copy_process00` | creates threads, changes the state of the parent |
| messages (`ipc.c`) | 64 entries per thread, head, tail, `msgctl` | two posts, two gets | makes receivers READY, sets the event responder, asks the scheduler to block |
| input broker (`src/coreos/kernel/gthouse/wink/evi/ibroker.c`), display server link (`.../gdi/dispsrv.c`) | foreground thread, display server tid | keyboard and mouse events, registration | posts messages from interrupt context |
| services (`src/coreos/kernel/gthouse/kwrap/sci/sci.c`) | locks, roles | `sci0` .. `sci2` | enters all of the above with interrupts off |
| sockets (`.../per/net/socket.c`, `sockint.c`, branches of `.../per/fs/fslib.c`) | socket states, one packet and two flags per file, list of pending clients, descriptor 31 of the server | socket, connect, listen, accept, shutdown, close, read, write, synchronise | programs; a write may wake a thread |
| display server (`src/chrome/winu/core/ds/ds00/ds.c`) and its library (`src/chrome/apps/api/libs/libgws/gws.c`) | request buffer, place in the loop; place in a call | accept and dispatch; call, poll, read | over a socket file and its action |
| descriptors, pipes (`.../per/fs/pipe.c`, `fslib.c`) | `Objects[]` of each process, `fd_counter`, `pipe_info` | open, pipe, dup, dup2, dup3, close, clone, read, write | clone shares the files |
| terminals (`src/coreos/kernel/halls/uhalls/chardev/tty/tty.c`) | two queues per terminal | read, write, keyboard input, flush | input broker, programs |
| network card driver (`.../per/netdev/e1000/e1000hw.c`) | receive ring, registers of the card | interrupt, receive, send | the card; calls the protocols with interrupts off |
| protocols (`.../per/net/net.c`, `.../per/net/prot`) | network lock, DHCP data, buffers of port 11888 | handle a frame, DHCP dialogue, services 118, 119, 22001, 22003 | driver, programs, other hosts |
| FAT16 (`.../per/fs`) | disk image in memory | load, save, search | open |
| memory (`.../req/mm`) | heap, frame pool, page tables | allocate, map | every creation |
| keyboard and mouse drivers, buses, graphics, libk | buffers, device registers | I/O | input broker, services |
| init, netd, programs | their own | system calls | ring 3 callers of the services |

What is hard in it: services do not act on a thread, they leave a flag
(`yield_in_progress`, `sleep_in_progress`, `exit_in_progress`,
`block_in_progress`) that a later tick or a later round acts on, and between the
two a message, an event of the display server, a clone or an interrupt may have
written the state of the same thread. `ipc_post_message_to_tid` writes
`state = READY` whatever the state was. The task switch loops with interrupts
off until it finds a READY thread. Roles (foreground thread, display server,
event responder) are kept as tids or pointers and outlive what they name. The
queue has no test for full or empty.

A connection has no buffers of its own: server and client share one packet and
two flags, and the server knows its client only as descriptor 31, which any
`connect()` overwrites. The list of pending clients is a ring whose count is its
tail. The counter that decides whether `dup2` closes a file is kept by some of
the calls that give or take names and not by others. The card writes into a ring
while the driver empties it; the interrupt handler serves one cause and clears
all; the DHCP client takes any answer at any time and never tries again, over a
medium that loses and reorders. `PROJECT.json` lists each of these hazards
at its line with the properties that watch it.

What makes the modelled parts correct: one thread runs; the walk along the round
stays inside the table and ends; a switch never panics by itself; nobody wakes
up without a cause; READY threads run, sleepers sleep and wake, exiting threads
stop; the input focus is never a zombie's; a message is delivered at most once,
and a polling reader gets it after a bounded number of calls. Flags and buffer of
a socket file agree; a pending client is not forgotten while there is room; every
call of a program to the display server is served once, gets its own answer and
ends. A file that somebody names is not closed; pipes and terminal queues are
streams of bytes. The card does not write over a frame in use, the address of the
host is leased, and the host gets one when not too much is lost.

## 2. Modules

| Module | Models |
|---|---|
| `ThreadTable` | constants, the variables, `Init` (the init process in ring 3) |
| `Sched` | `__scheduler_rr` as one state change, and `psScheduler` |
| `Disp` | the timer tick, one action per label of `__task_switch`, spawn, dispatcher, callback |
| `Intake` | the services and interrupt handlers between two ticks; `Next`, `Spec`, the invariants |
| `MCIntake` | temporal properties of `Intake`, and a sentence of a comment that does not hold |
| `Wakes` | `Intake` with a history of who waits for messages, beside `wait_reason` |
| `MsgQueue` | the message queue of one thread, both posts and both gets |
| `Mailbox` | what a queue promises: at most once, nothing made up |
| `Socket` | the socket calls of one server and its clients |
| `MCSocket` | `Socket` with a symmetry |
| `DisplayServer` | the server's loop and the library's calls, over `Socket` |
| `Rpc` | what the server promises to a caller |
| `FdTable` | descriptors, file structures and `fd_counter` |
| `Pipe`, `Tty` | the bytes of a pipe; a queue of a terminal |
| `Files` | `FdTable`, `Pipe` and `Tty` together |
| `ByteStream` | what a pipe or a terminal queue promises |
| `Nic` | the driver of the network card, and the card |
| `Dhcp` | the state of the DHCP client and the lock of the network |
| `PacketRing` | the buffers of port 11888 |
| `Net` | driver, handlers, services, servers and medium together |
| `MCNet` | budgets for `Net` |
| `IntakeProofs` | proof of type correctness |
| `SwitchProofs` | proofs of `OneRunning` and `PanicCause` |
| `RoundProofs` | proofs of `RoundEnds`, `NoSpuriousWake`, `FocusAlive`, `CallbackOnCurrent`, and of `ListenerRecorded` of `Wakes` |
| `QueueProofs` | proofs of the properties of `MsgQueue` |
| `SocketProofs` | proofs of the properties of `Socket` |
| `DisplayProofs` | proofs of the safety properties of `DisplayServer` |
| `FilesProofs` | proofs of the properties of `Files` |
| `NetProofs` | proofs of the safety properties of `Net` |

Each of the first four EXTENDS the one above it (`ThreadTable`, `Sched`, `Disp`,
`Intake`), and `MCIntake`, `Wakes` and `IntakeProofs` EXTEND
`Intake`; `SwitchProofs` EXTENDS `IntakeProofs`, and `RoundProofs` both
`SwitchProofs` and `Wakes`. `MsgQueue` stands alone and instantiates `Mailbox`. `Intake` says what a message does to the scheduling of
its receiver, `MsgQueue` what happens to the message; they meet in
`get_message_empty` (the request to block) and in `BlockThread`. `DisplayServer`
EXTENDS `Socket`, and `DisplayProofs` both it and `SocketProofs`; `Files` EXTENDS `FdTable`, `Pipe` and `Tty`; `Net` EXTENDS
`Dhcp`, `PacketRing` and `Nic`. The abstract specifications `Mailbox` (twice),
`Rpc` and `ByteStream` (twice) are instantiated with a refinement mapping and
checked as properties.

### State and actions

A variable of `ThreadTable` is a field of `struct thread_d` as a function of the
tid, or a global of the kernel. `flags[t]` is the set of those boolean fields of
`t` that are TRUE. Three fields are kept as what the code compares:

* `wake[t]` is the number of ticks until `jiffies >= wake_jiffy`;
* `credits[t]` is cut at 2, the value the scheduler compares it with;
* `runningCount` is kept for the current thread only, since every switch to a
  thread resets it.

`pc` is "user" outside the timer interrupt. Services run with interrupts off, so
each is one step, guarded by `pc = "user"`. A tick is several steps, one per
label, because the loop over `ZeroGravity` and `go_ahead` is where a property
could fail; interrupts are off, so no other action is enabled between them. A
`panic()` is a terminal value of `pc` named for the routine.

The scheduler pass is a single action. Its loop handles each thread on its own;
the three early `continue` branches are `DsEventDue`, `BlockDue` and `ExitDue`,
in the order the code tries them, and the rest of the loop body is `WakeDue`,
`Reaped` and `Enrolled`. `Reaped` needs a zombie without an exit flag, and
`__scheduler_rr` makes zombies only of threads with one, so it never happens
(section 6).

`Socket`. A call is one step (interrupts are off). `file[c]` is the file of
client `c`: the flags `__SRD` and `__SWR` of `sync`, `socket_buffer_full`, the
packet and the action. The server reads and writes that same file through
`fd31`. A read takes the packet out of the model; in the code the bytes stay but
nothing looks at them before the next write. `panic`, `woken`, `forced` and
`spoiled` are history: they record the two branches of `fslib.c` that a property
is about and the calls that excuse them. A packet of `BUFSIZ` bytes or more is
the packet `None`.

`DisplayServer`. `cpc[c]` is where a program is in `gws.c` (`start`, `connect`,
`idle`, `written`, `wait`, `read`, `clear`), `spc` where the server is in its loop
(`register`, `socket`, `listen`, `accept`, `check`, `read`, `send` or `quiet`,
`answer`): a step is one system call, since everything else runs in ring 3 and
may be preempted between any two. A packet is the kind of the request, its client
and the number of the call modulo 2, which tells a stale answer from a fresh one.
The kinds of call differ in which actions end the polling: *strict* ones want an
answer, *lenient* ones also accept NULL, *async* ones get none. The requests are
those that the library builds (section 6 has what other packets would do). `disturbed` are the clients of a dispatch that a `connect()` hit; for
them the promises are broken, as the run `reply_misrouted` shows.

`Files`. A regular file is made once by `open()`, which stands for the paths that
set `fd_counter` to 1; `sys_pipe` leaves its counters uninitialized and takes any
value of `Junk`. The loops of the pipe and of the terminal over bytes are
recursive functions of the step.

`Nic`. The driver is `npc`: `run` when it is not running, `clear` between the read of ICR and
its clearing, `receive` at the head of the loop, `handle` while a frame is with
the protocols, `send` while it waits for the card. The card (`CardReceives`,
`CardTransmits`, `CardLinkChanges`) may step between any two of these, which is
what makes the ring and the causes of interrupt hard. `Net` gives the handlers:
a frame is dropped when the network is locked, and otherwise goes by its kind to
the DHCP client, to the port or to ARP. Address number 0 of a server belongs to
another host; its acknowledgement is seen too, because the card is in promiscuous
mode and the client does not look at `chaddr`. After a frame has been handled the
model empties its buffer, which nobody reads again before the card has written
it.

### Constants and bounds

`THREAD_COUNT_MAX`, `USER_THRESHOLD_TID` and the quantum levels are parameters.
The instances have one, two or four user slots (tids from 2 on; the code has 1024
slots and gives users those from 100 on), `QUANTUM_MAX = 3` (6), so that a quantum of 1,
of 2 and the largest differ, `FOCUS_BONUS = 1` (88), one length of sleep, and at
most `MaxPosts` messages.

* `intake_exit` and `lost_wakeup` have two user slots: with init that is enough
  for one thread to act on another while a third is selected, and a third creation
  runs out of slots.
* `intake_liveness` has four, because the load balancer acts on more than three
  READY threads (sched/sched.c:80): with fewer the quantum of init never changes.
* `intake_ds`, `stale_reason` and `intake_modes` have one: a wake up needs only the
  thread that is woken and the one that wakes it (the display server may be
  either), and `intake_modes`, which has the most services, asks about the current
  thread, the foreground thread and the switch between two threads. The
  properties of the passing two are proved for any number of threads.

`Calls` selects the services
that the programs of an instance use and `Callers` the threads that use them:
all of them together are too many states for one run, so each run takes the ones
its question is about. The proofs make no such choice. tids are data to the
code beyond their order, and the round depends on that order, so no symmetry is
used.

Service 94 makes a thread STANDBY whatever its state is. Starting a thread that
is not INITIALIZED is allowed only when `Calls` has "restart": it ends in the
panic of `spawn.c` if the thread has run, and otherwise links a thread of the
round back to init. No run has it. `RoundEnds` excludes it in so many words, and
the liveness properties are about programs that start a thread once; the other
theorems cover it, and `PanicCause` names it.

`MsgQueue` runs with three entries (64 in the code): the smallest size with a
first, a middle and a last entry, and so with a wrap of both ends; four or five
messages overwrite the whole circle. `waits` and `miss_count` are cut where
they are compared.

`sockets` has a server and three clients with a list of three places
(`PENDING_MAX`, 32 in the code) and a default backlog of 1 (4), so that `listen`
cuts its argument at both ends and connections overflow; `Users` restricts reads
and writes to the file of one client, because files do not interact. A process
makes one socket, and the server does not close its own or listen through 31.
`display` has two callers and a third client that may only connect, in a backlog
of two: a third connection is the smallest overflow. Its programs make strict and
async calls; a lenient one polls like an async one and reads like a strict one.
`SEND_TRIES = 2` (8).

`files` has two processes, two regular files, four descriptors of which one is a
standard stream, counters up to `MaxCount`, buffers of three and four bytes: the
smallest in which a call can wrap and leave a rest. `Workloads` lists the sets of
calls that a behaviour may consist of; the pipe and the terminal do not depend on
the descriptors beyond being reachable. The terminal has one queue, used by the
calls of both kinds, and the standard stream is a file that `close` leaves alone.

`network` has a receive ring of three descriptors (`RECEIVE_BUFFER_MAX`, 32), two
slots of the port (32), two Discovers (5) and up to two servers. `Budgets` lists
what may happen in a behaviour: which servers are up, how many dialogues, locks,
link changes, payloads, ARP requests and acknowledgements for other hosts there
are; each budget is for one question (a restart with a lock and a link change;
a foreign acknowledgement and an ARP request; payloads against a dialogue; two servers; the port alone).
`losses` is cut at `DISCOVERS`, where `GetsAddress` no longer promises anything.

### Fairness

`WF(Tick)`: the timer interrupts for ever and ring 3 runs with interrupts on.
`WF(Switch)`: a tick that has started is executed to its end, as nothing can
interrupt it. No fairness is assumed of any service, message or device: programs
need not call anything.

`DisplayServer`: weak fairness of the server's loop and of each program that has
begun a call (`Proceed`). Both are READY threads that poll, and `ReadyRuns` says
that such a thread runs again and again. Opening the display and beginning a call
is up to the program.

`Net`: weak fairness of the driver (interrupts are taken, and what it does with
interrupts off is executed to its end), of the card (what it has to send is sent, and a frame
for which there is a descriptor is received) and of the servers. None of the
medium's losses, the other hosts or the programs.

## 3. Runs

| Run | Shows |
|---|---|
| `intake_ds` | `NoSpuriousWake`: a display server, socket credits, threads that sleep and that block on an empty queue |
| `intake_exit` | `OneRunning`, `RoundEnds`, `PanicCause`, `ExitStops`, `TickReturns`: processes and threads that are created, started, wait for a child, post and exit |
| `intake_modes` | `TypeOK`, `FocusAlive`, `PanicCause`, `CallbackOnCurrent`: clones, failed clones, yields, exits, input focus, keyboard input, callbacks, both locks, stray messages, from before service 643 on |
| `intake_liveness` | `ReadyRuns`, `SleeperWakes`, `SleepTakesEffect`: clones, sleeps and a message, with enough threads for the load balancer |
| `queue` | `MsgTypeOK`, `BoundedWait`, `ImplementsMailbox`: all readers and senders, restarts, bad indexes |
| `sockets` | `SocketTypeOK`, `FileSound`, `NeverWakes`, `PanicIsForced`, `ForgetsOnlyWhenFull`: all socket calls in any order |
| `display` | `NeverServesReply`, `ImplementsRpc`, `CallEnds`: two programs that call the display server, a third that connects |
| `files` | `FilesTypeOK`, `NamedIsOpen`, `ImplementsStreams`: descriptors, a pipe, a terminal queue |
| `network` | `NetTypeOK`, `RingSound`, `LeaseValid`, `ImplementsPort`, `GetsAddress`: card, driver, DHCP, port 11888 |
| `reply_misrouted` | refutes `AnswersRequester` |
| `lost_wakeup` | refutes `ReceiverRuns` |
| `stale_reason` | refutes `WakesListener` |

In `intake_exit` all three threads call services: the jump back from `go_ahead`
to `ZeroGravity` needs a thread of the round that is blocked before its turn, and
only `do_waitpid`, called by a thread that was spawned in the middle of the round
and shares the process of the blocked one, does that. The run has no sleeps, no
blocks on an empty queue and no events of the display server, so `ExitStops` is
about exits among spawns, waits for a child and messages.

`SleepTakesEffect` makes an exception for the init thread in a behaviour in which
more than three other threads are READY again and again: the load balancer then
gives it a quantum of one tick, and a tick at the end of a quantum does not look
at `sleep_in_progress` (section 6). The case happens in `intake_liveness`: without
the exception TLC finds it there, and a threshold that is lower by one violates
the property as it stands.

`NoSpuriousWake` accepts an event of the display server for a thread whose
`wait_reason` is LOOP. That is a record of the past: it stays when a message ends
the wait, and a thread that then sleeps or waits for a child is still woken by an
event. The run `stale_reason` shows it with a history of the wait itself, and
`ListenerRecordedCorrect` (section 4) that the record errs on this side only.

`queue` and `sockets` do not check for deadlock: a reader that is blocked and
senders that have used up their messages may stop, and after a panic of the
kernel, or when every socket is closed, there is nothing left to call.

`CallEnds` and `ImplementsRpc` make an exception for the clients of a dispatch
that a `connect()` hit, and `CallEnds` for a client that the list has lost: both
are things the code does. `GetsAddress` makes an exception for `Stuck`: frames
wait in the ring, no cause of interrupt is left, and nothing more will come or
can come. The interrupt handler reads all causes, clears them and serves only the
first of TXDW, LSC and RXT0 (e1000hw.c:1001-1033); an Offer that arrives while
the last Discover of the burst is being sent is left in the ring for that reason.
Without the exception TLC finds this behaviour; with it, the run shows that
nothing else keeps the host from an address.

The three refuted properties are sentences of the source:

* `AnswersRequester`: socket.c:1382-1383 says that accept() makes the connection,
  taking the client from the list of pending connections. `connect()` puts its
  caller in descriptor 31 as well (socket.c:1353), so that an answer on its way
  goes to a client that has not asked.
* `ReceiverRuns`: ipc.c:108-109, a message gives the receiver "the opportunity
  to run immediately". A block that is still deferred outlives the message that
  should have prevented it (sched/sched.c:674).
* `WakesListener`: thread.h:90, WAIT_REASON_LOOP is "Waiting for a system message
  (event loop)", and schedi.c:798-800, a sleep lasts "ms ticks. After that the
  thread will wake up". The reason is cleared only by an event (sched/sched.c:662),
  so that an event ends a sleep before its time.

## 4. Proofs

Assumptions of the thread proofs: `TableAssumption` of `ThreadTable` only (at least one user slot
above `USER_THRESHOLD_TID > 1`, `QUANTUM_MAX >= 3`, natural numbers otherwise).
Nothing is assumed of `Calls`, `Callers`, `MaxPosts` or `SleepMs` beyond their
types: the theorems hold for any services in any order and any number of
messages and threads.

* `TypeCorrect` (`IntakeProofs`): `Spec => []TypeOK`. `TypeOK` is inductive. The
  work is in the lemmas on the operators: the minimum of a nonempty set of tids
  is a member (`MinIn`), from which follow the types of the link that the
  scheduler gives to a thread (`SuccessorType`), of the first STANDBY thread and
  of the first free slot; the scheduler pass (`RoundType`); and the bounds of
  the quantum.
* `OneRunningCorrect` (`SwitchProofs`): `OneRunning` is inductive together with
  `TypeOK`. Actions outside the tick are first shown to satisfy one relation,
  `Outside`: what services and messages may do to the state of the threads
  (`PostOutside`, `ServiceOutside`). Each invariant is then proved preserved by
  `Outside`, once, and by the actions of the tick, one by one.
* `PanicCauseCorrect` (`SwitchProofs`): `PanicCause` is not inductive. The
  dispatcher must find `current_thread` READY, so `SwitchInv` records at each
  label what the switch knows: outside a tick and before a spawn the current
  thread is valid; at `dispatch_current` it is valid and READY, or there is none
  because the scheduler is locked; and, unless programs start threads twice, a
  thread that has not run yet has no saved context and is not the init thread,
  which is why `SpawnStandby` cannot panic.
* `RoundEndsCorrect` (`RoundProofs`): the existence of a round around `currentq`
  is inductive together with `SwitchInv`, once "restart" is excluded. A pass of
  the scheduler makes a new set (`NewRound`: what it links is READY, and the
  minimum of the larger threads is larger, `SuccessorIn`). A service keeps the
  old set, because nothing makes a thread of it INITIALIZED or STANDBY; a spawn
  links its thread to init, which would close a circle if the thread were in the
  set, and it is not, because it is STANDBY.
* `NoSpuriousWakeCorrect`: an action property, from `TypeOK` and `SwitchInv`. It
  goes over the places that write READY: a service or a message is covered by
  `Outside`; the pass of the scheduler wakes a sleeper only for an event
  (`PassWakeCause`); a spawn touches only a STANDBY thread; and the dispatcher
  finds the current thread READY, which is what `SwitchInv` is needed for.
* `ListenerRecordedCorrect`: `Wakes` follows each wait for messages in `listening`,
  and every thread in it has the reason LOOP. `ListenInv` adds that a slot without
  a thread asks for no block and waits for nothing, so that a creation, which
  writes `wait_reason`, forgets nobody; `OutsideReason`, `PassReason` and
  `ReasonStep` go over the other places, of which only the pass of the scheduler
  clears the reason, and then makes the thread READY.
* `FocusAliveCorrect`: inductive with `TypeOK`. Only the scheduler makes zombies,
  and it resets the focus in the same branch.
* `CallbackOnCurrentCorrect`: not inductive, because the switch changes
  `current_thread`. `CallbackInv` adds that a callback exists only in ring 3: a
  tick inside one panics, or returns because the task switch is locked.

The proofs about the message queue assume `QueueAssumption`: two entries or more.

* `MsgTypeCorrect` (`QueueProofs`): the ends of the queue stay inside the array.
* `BoundedWaitCorrect`: `BoundedWait` is not inductive. `WaitInv` is: the calls of
  service 111 that a message has waited and those until the head is at its entry
  are together less than one turn of the queue.
* `MailboxCorrect`: the queue implements `Mailbox`, by a step simulation. `MailInv`
  says that the messages in the queue have been posted and differ.

The proofs about sockets assume `SocketAssumption`: a server that is not a
client, and a default backlog smaller than the list.

* `SocketTypeCorrect` (`SocketProofs`): the indexes of the backlog stay inside
  the list, because `listen` and the two ring operations cut them.
* `FileSoundCorrect`, `NeverWakesCorrect`, `PanicIsForcedCorrect`: `FileInv`, the
  conjunction of the three, is inductive. `FileSound` alone is not enough for the
  others, and they need it: a write wakes a thread only if a full file is
  writable, and a read panics only if an empty one is readable.
* `ForgetsCorrect`: an action property. The proof needs `FillOrder`: as long as
  the ring has not gone round, the places behind the count are empty, so that a
  place that is taken again means a full backlog.

The proofs about the display server assume `DisplayAssumption` besides: packets
are packets of the sockets, at least one attempt to write, and callers that are
clients. The backlog and the number of clients and callers are free.

* `NeverServesReplyCorrect` (`DisplayProofs`) needs to know where a call is, since
  server and client never agree on anything but the file and its action. `DsInv`
  has eight stages (`Resting` to `Over`), each of which fixes the place of the program, the
  flags, the packet and the action of its file, how often it was served and where
  the server is with it; a client that no `connect()` hit is in one of them. Two
  more parts are about all clients: a full file of a client holds a packet of that
  client or an answer (`OwnRequests`), and the server has a client in descriptor
  31 whenever it uses it (`Connected`). For each stage and each step of the server
  or of the client there is a lemma with the stage that follows, and `Bystander`
  and the frame lemmas say that the stages of the others stay.
* `RpcCorrect`: the server and the library implement `Rpc`, by a step simulation
  from `DsInv` and `PhaseInv`, which reads the phase of a call off the stage. The
  steps that hold a promise of `Rpc` are the read of the request (served once),
  the poll and the end of the call.
* `DsUsesSockets`: each step is a step or a stutter of `Socket`, so that
  `FileSound`, `NeverWakes`, `PanicIsForced` and `ForgetsOnlyWhenFull` hold of the
  display system as well.

The proofs about files assume `FdAssumption`, `PipeAssumption` and
`TtyAssumption`: finitely many processes, names that differ, a buffer of one byte
(a pipe) or two (a terminal). Counters are integers up to `MaxCount`, which stands
for the largest `int`: an overflow is outside the model (section 6).

* `NamedIsOpenCorrect` (`FilesProofs`): `NamedIsOpen` is not inductive, because
  what keeps `dup2` from closing a file is a number. `FdInv` says that the counter
  of a regular file is at least the cardinality of the set of its names
  (`Counted`), and needs two facts to keep that: a process that does not run has
  no descriptors, so that a clone overwrites none (`Unborn`), and a file that was not made
  has no names (`Unmade`). A clone adds many names at a time; they are the product of
  the child and a set of descriptors of the parent, and the counter of the file
  grows by the cardinality of that set.
* `StreamsCorrect`: pipe and terminal queue implement `ByteStream`. `RingInv` says
  how the two positions and the counter agree, whether a position has wrapped yet
  or not: the next byte goes behind the last one. A loop over bytes is a recursive
  function in the model; `LoopExists` proves, for a set of states and a step given
  as a function, that such a function exists, by an induction over a set of
  numbers (`SetInduction`), so that no theorem with an operator as parameter is needed. Then
  what the loop has taken or stored after `k` turns is proved by the same
  induction, and the lemmas `IsFront`, `IsRest` and `IsGrown` turn it into the
  sequences of `ByteStream`.
* `FilesTypeCorrect`: no position leaves its buffer, from the same invariants.

The proofs about the network assume the named assumptions of `Nic`, `PacketRing`,
`Dhcp` and `Net`: rings of two places or more, a server's pool that is not empty,
and names that differ.

* `NetTypeCorrect`, `RingSoundCorrect` and `LeaseValidCorrect` (`NetProofs`)
  follow from `NetInvCorrect`: `NetInv`, the conjunction of `NetTypeOK`,
  `RingInv` and `LeaseInv`, is inductive. `RingInv` adds the reason why the order
  of two writes in `__e1000_on_receive` is safe: RDT always names the descriptor
  before `rx_cur`, and the frame in use is in it, where the card stops.
  `LeaseInv` says that every acknowledgement is true wherever it is: on the wire,
  in the ring, in the hands of the driver. That those in the ring stay so needs
  `RingInv`.
* `PortCorrect`: the buffers of port 11888 implement `Mailbox`, by a step
  simulation. `PortInv` says that the payloads in full slots differ, which makes
  a pop take one message and no more.

`SwitchInv`, `CallbackInv`, `DsInv`, `FdInv`, `RingInv` and the other inductive
invariants were checked by TLC on the instances of the runs before they were proved.

Only model-checked: the liveness properties (`TickReturns`, `ExitStops`,
`ReadyRuns`, `SleeperWakes`, `SleepTakesEffect`, `CallEnds`, `GetsAddress`), since
liveness under fairness is beyond the prover, and the three refuted
sentences.

## 5. Plan

Done: the core, sockets and the display server, files, pipes and terminals, the
network. Left, in this order:

1. Proofs: of the operators that the liveness runs rest on (that a pass of the
   scheduler enrols every READY thread, that the head of the backlog goes round),
   as action properties.
2. `FramePool` (`req/mm/mmpool.c`): allocation of pages and its limit.
3. The process table: the limit of `create_and_initialize_process_object`.
4. ARP replies and the saved gateway, `gprot`, the stubs of TCP.

## 6. Not modelled

* The priority policy and the interleaving by priority: not configured.
  `exit_thread`, `kill_thread`, `do_thread_dead`, the broadcast of messages and
  the dead thread collector are compiled but not reached from any service.
* Priorities and statistics: no decision of the round-robin policy reads them.
* The wake up of `tid_waiting` in a write to a socket is not an action of
  `Intake`: `NeverWakes` shows that it is never reached.
* Sockets of the network (UDP, the loopback to the network server) and `bind`,
  whose name nothing looks up. Windows, input and drawing behind the services of
  the display server.
* Programs that write to the socket of the display server without its library. The
  services GWS_Disconnect (ds.c:3275), GWS_RefreshScreen (3284), 2030 (3312),
  GWS_Quit (3385), GWS_DrainInput (3395) and unknown codes (3419) leave the global
  `NoReply` as the request before them, perhaps another client's, set it, so
  that they are answered or not by chance; a packet that is too short (3547) or has
  code 0 (3558) is taken while the action stays REQUEST. The library sends
  none of these, and `ImplementsRpc` and `CallEnds` are about calls through it.
* Regular files' content and FAT16: layout of a disk, without concurrency.
* Canonical input of a terminal (`__tty_write3` and its twin have no callers) and
  `ioctl`.
* ARP replies, TCP, `gprot`, and the services that only send test packets;
  the transmit ring, which never holds more than one frame because
  `e1000hw_send` waits for each; lengths and checksums of frames.
* Lack of kernel memory in the middle of a call: the heap is data.
* The failure of `copy_process00` for lack of process slots; its only effect on
  the state here is a RUNNING parent, which it is already or becomes anyway.
* The function-key and mouse paths of `ibroker.c` that post to a tid they have
  not validated; they panic like a stray message if the thread is gone.
* Multiprocessor start-up: the other processors do not run threads.
* Drivers, graphics, formatting, the C library, boot code and ring 3 programs:
  I/O, layout, or arbitrary callers of the services that are modelled.

Differences between comments and code seen on the way, for which no run was
made, because no property of two states is needed to see them:

* zombies are not cleaned up, although sched.c:479-480 says "Cleans up,
  unregisters display server if needed": the exit branch (683) comes first and
  ends in `continue`, for ever;
* clone.c:1138-1139 says of a bad ELF signature "Vamos matar a thread e o
  processo" (kill the thread and the process); both stay, the thread BLOCKED;
* a message makes an INITIALIZED thread READY, which thread.h:204 calls "created
  but not yet ready to run";
* the repeat count of a key starts at the value of `jiffies` (ipc.c:418), while
  ipc.c:327 reads it as "has repeated N times";
* misses are counted over the life of a queue and not in a row, so a get may ask
  to be blocked soon after a message was read (ipc.c:829);
* a message to a zombie makes it READY (ipc.c:119), and it runs until the next
  round, although thread.h:206 says "ZOMBIE: Thread has finished executing";
  `ExitStops` shows that it stops when the messages are over;
* a tick before the init process calls service 643 panics (disp/ts.c:717), while
  sw2.asm:183-184 says "From this point on, hardware timer interrupts can fire.
  The kernel's scheduler can preempt tasks"; `PanicCause` names it;
* with more than three READY threads the load balancer gives the init thread a
  quantum of one tick (sched/sched.c:82), and then its sleep requests are never
  looked at, against schedi.c:798-800; `SleepTakesEffect` excepts this case by name;
* messages may be delivered out of order, since the head moves over empty entries
  (ipc.c:838); ipc.c:857 speaks of "consuming messages in order";
* a connection more than the backlog holds takes the place of a client that is
  connected (socket.c:1425), while socket.c:1420 says "Actually we're gonna reject
  the new connections when the queue is full";
* `connect()` does not need a server that listens, and `listen()` forgets who was
  faster; a `connect()` to a server without a free descriptor panics the
  kernel (socket.c:1304-1316) instead of failing;
* `fd_counter` does not count the names of a file, as kstdio.h:408-410 says it
  does: `close` never lowers it, sockets start at 0, `sys_pipe` does not set it
  (pipe.c:286), and `dup2` over one name of such a file closes it for all; it also
  overflows after 2^31 pairs of `dup` and `close`;
* `__tty_write` reports bytes that it dropped as written (tty.c:583-585);
* __e1000_on_receive "Drains RX descriptors" (e1000hw.c:857), but only when RXT0
  is the first cause of the interrupt: see `Stuck`; with a full ring the receiver
  is dead for good;
* dhcp.c:533 prints the hardware address of an answer "Pra certificar que a
  mensagem foi pra nós" (to make sure that the message was for us), and nothing
  compares it, so that the acknowledgement for another host is adopted;
  `LeaseValid` is about addresses leased to anybody for that reason.

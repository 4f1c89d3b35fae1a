# A TLA+ model of the TAU operating-systems course programs

This directory specifies, model-checks and proves properties of the programs of
the repository: five assignments of an operating-systems course, each a small
C program (or two) on top of the kernel's or the C library's primitives. The
programs do not talk to each other; each is a system of its own.

## The parts of the system

| part | source | state | operations | interaction |
|---|---|---|---|---|
| pfind: worker pool | `Assignment 4/Solution/pfind.c` | FIFO of directories, the three thread counters, `counter`, `run_ended`, one place per thread | take a directory, scan it, enqueue, count, sleep, wake, die, test for the end | shared memory, five locks, three condition variables, no join |
| pfind: linked FIFO | `pfind.c` 22-93 | `front`, `rear`, nodes | `enQueue`, `deQueue` | under `queue_is_free_lock` |
| message_slot | `Assignment 3/Solution/message_slot.c/.h` | per minor a linked list of channels, per open file a channel number | open, ioctl, read, write, release, init, exit | system calls of several processes at once, without a lock |
| message_sender, message_reader | `Assignment 3/Solution/` | a file descriptor | open, ioctl, then write or read, exit | the system calls of the device |
| pcc_server | `Assignment 5/Solution/pcc_server.c` | `pcc_total`, `pcc_total_temp`, `sigint`, `client_flow`, signal mask | accept, two recv, count, send, commit or revert, print | TCP with its clients, SIGINT |
| pcc_client | `Assignment 5/Solution/pcc_client.c` | the file read so far | send size, send text, receive the count | TCP with the server |
| myshell | `Assignment 2/Solution/myshell.c`, `shell.c` | signal dispositions, children, descriptors | run in foreground, in background, as a pipe | fork, exec, wait, SIGINT, SIGCHLD, pipes |
| page table | `Assignment 1/Solution/pt.c` | five-level tree of frames | update, query | calls of the frame allocator |
| frame allocator | `Assignment 1/Solution/os.c` | `nalloc`, `pages` | `alloc_page_frame`, `phys_to_virt` | |

What is hard in each, and what makes it correct:

* **pfind** has no barrier at its end: the main thread concludes from counters,
  each read under a lock of its own, that no directory is left. Correct means:
  no directory lost or scanned twice, the printed number right, the end
  reached, and reached only when nothing is left to do.
* **message_slot** runs in the kernel without any locking: two system calls
  interleave anywhere. Correct means: a read returns the last message written
  on the channel, whole; channels are never lost; limits and error codes hold.
* **pcc_server** must treat one client as a unit with respect to SIGINT and to
  connection errors. Correct means: the totals are those of the clients that
  were served to the end, and the server ends after SIGINT.
* **myshell** handles signals and processes that live on their own. Correct
  means: SIGINT reaches the foreground child only, no zombies, every pipe
  reader sees the end of its input.
* **page table** is sequential; what is hard is the tree behind the map: nodes
  must not be shared and unmapping must leave every other page alone.

`PROJECT.json` lists the hazards line by line.

## Modules

| module | what it is | composed with |
|---|---|---|
| `Pfind` | the worker pool of pfind and its main thread | implements `DirSearch` |
| `DirSearch` | what a directory search promises, in five variables and three actions | |
| `MessageSlot` | the message_slot kernel module and the processes that call it | implements `AtomicSlot` when calls do not overlap |
| `AtomicSlot` | what message slots promise when calls do not overlap, and the four ways in which the driver departs from it | |
| `SlotClients` | message_sender and message_reader | makes the system calls of `MessageSlot` |
| `PccServer` | pcc_server, its clients and SIGINT | |
| `Shell` | myshell, the processes it starts, a pipe, SIGINT and stops | |
| `PageTable` | page tables, the frames they live in, and the allocator | |
| `MCPfind`, `MCMessageSlot`, `MCSlotClients`, `MCPccServer`, `MCPageTable` | instances for TLC (`Shell` has two numbers for constants and needs none) | |
| `PfindProofs`, `DirSearchProofs`, `MessageSlotProofs`, `SerialSlotProofs`, `PccServerProofs`, `ShellProofs`, `PageTableProofs` | theorems for all constants | |
| `DataInduction` | induction over numbers and over finite sets, for the proofs | |

Definitions introduced by "Altered form" are the same operation with a
plausible mistake in it; `PROJECT.json` names, for every property, one of them
that violates it. No specification uses them.

### Pfind

The variables carry the names of the program. `pc[t]` is where worker `t` is,
`mpc` where main is. One action is one critical section that takes no other
lock, or one unprotected access to a shared variable with the thread-local code
next to it. The only lock held while another is taken is `queue_is_free_lock`
(lines 290-302, `Wake` and `Unsleep`), so only this lock has an owner
variable. Waiting on a condition variable is a program counter
(`gate_wait`, `slot_wait`, `asleep`, and `waiting` for main); a broadcast moves
all of the waiters on, a signal one of them, and, with `SpuriousWakeups`, a
waiter may move on by itself.

| code | actions |
|---|---|
| `initiate_threads` 310-337 | `EnqueueRoot`, `CreateThread`, `OpenGate`, `CountMain` |
| `thread_routine` 228-308 | `PassGate`, `LoopTest`, `AwaitSleepingThread`, `DequeueNothing`, `DequeueDirectory`, `CountError`, `SignalAndDie`, `CountSleeper`, `Sleep`, `Wake`, `Unsleep` |
| `folder_scan` 340-437 | `Opendir`, `OpendirFails`, `ReadEntry`, `EnqueueDirectory`, `BroadcastQueueNotEmpty`, `CountFile`, `FinishScan` |
| `check_threads_running` 201-226 | `ReadErrors`, `ReadSleeping`, `ReadLiving`, `CheckSleeping`, `CheckErrors` |
| `main` 456-501 | `AwaitNewSleepingThread`, `EndRun`, `PrintAndExit` |
| the C library | `SpuriousWakeup`, `SpuriousMainWakeup` |

The file system is a constant tree of model values (`Contents`), with sets of
directories that cannot be opened, entries on which lstat fails and threads that
pthread_create may fail to start. An entry whose lstat fails keeps the mode of the
entry before it, or an uninitialised one, so `ReadEntry` takes it for a
directory or for a file. `scanned` is a history variable. Not in the model: path
strings and their lengths, `.` and `..` (skipped by the code; a failing lstat of
`.` goes with failing lstats of the other entries), the output of file names,
and the `sched_yield` of line 411.

### DirSearch

The abstract search: directories become known, their entries are handled one by
one, a read directory is closed, and the number of matching files is reported
once every known directory is closed. `Pfind` implements it when nothing fails
(`SearchSpec`): `known` is the root and the directories dealt with, `handled`
the entries that the finished scans and the scans under way have dealt with,
`answer` the printed number.

### MessageSlot

The driver takes no lock, so what two calls do interleaves at every access to the
memory they share: `devices`, the slots, the nodes of the lists. One action is
one such access together with the private work next to it; `task[p]` holds the
locals of the call process `p` is in, `file[p]` its open file. Pointers are
indices into the sequences of slots and nodes ever allocated, 0 is NULL.

| code | actions |
|---|---|
| `prepare`, `finalize` 392-439 | `Register`, `AllocateDevices`, `Finalize` |
| `device_open` 185-224 | `OpenKnownSlot`, `OpenNewSlot`, `OpenBeforeAllocation`, `OpenRefused`, `AllocateSlot`, `StoreSlot`, `CountSlot` |
| first checks 236-240, 278-290, 324-333 | `Enter`, `CheckIoctl`, `CheckWrite`, `CheckRead` (each loads the slot) |
| `find_channel` 165-175 and its results | `LoadRoot`, `FindNext`, `IoctlFound`, `WriteMissing`, `ReadMissing` |
| `ioctl` on an empty slot 342-358 | `InitiateFirstChannel`, `SetRoot`, `CountAndReturn` |
| `ioctl` on a new channel 363-385, `add_node` | `IoctlRefused`, `InitiateChannel`, `WalkToTail`, `Link`, `CountAndReturn` |
| `device_write` 292-304 | `StoreSize`, `StoreMessage` |
| `device_read` 242-265 | `LoadSize`, `TestSize`, `CopyByte`, `ReturnBytes` |
| `device_release` 308-314 | `Release` |

A byte is the message it comes from, `zero` in the buffer of a
channel never written to, and `junk` behind the end of a message, where kmalloc
leaves the memory undefined. `channel_num` of a new file is one of `Garbage`.
`numOfChannels` moves by `INT_SIZE`, because it is an array of `int*`; an
increment that meets another one may be lost. A stored message remembers the
channel it was addressed to, and a byte that was read the message it is from. A
NULL dereference kills the process and closes its file. History: `acknowledged`
and the address of a message. A process
has at most one file open, and no two processes share one. Left out: allocations that fail (the code writes to the NULL it
gets), user memory that cannot be accessed, opens between the allocation of the
tables and their clearing inside `prepare`, and stores or loads reordered by the
compiler or the processor (loads that it merges are covered: nothing happens
between them). Unloading waits for open files, as `.owner` makes the kernel do.

### AtomicSlot

Every call is a request, one step that takes effect, and an answer. The choice
of a channel by ioctl is a step before the answer, as line 329 makes it stay
when the answer is an error.

With `Departures = {}` the module says what the comments of the driver promise.
The driver departs from them in four ways even when calls do not overlap, and
`AtomicSlot` admits the ones that `Departures` names:

| departure | the driver | the comments |
|---|---|---|
| `uninitialised` | a file refers to some channel before it chose one (191) | 279: "no channel num was passed" fails |
| `narrow` | channel numbers are taken modulo 2^32 (273, 329) | 97: "desired channel ID", an `unsigned long` |
| `quarter` | a slot takes `Capacity` channels (47, 352-356, 366) | 47, `message_slot.h` 13: `CHANNELS_LIMIT` |
| `oops` | a read from a channel the slot does not have kills its process (243) | 246-247: `-EINVAL` |

With `Overlap = FALSE` `MessageSlot` implements `AtomicSlot` with these four
departures (`AtomicSpec`): `channels` are the acknowledged ones and `content` is
the message of the node found in the list. What this shows is that there is no
fifth one. None of the four can be spared: with the constants of `slot_serial` TLC
refutes the refinement when any one of them is left out of `Departures`. One of these
disagreements is kept as a run: `slot_promised` refutes the promise itself
(`Departures = {}`) with a read that kills its process, for constants under which
the other three cannot show.

### SlotClients

`message_sender` and `message_reader` are a sequence of system calls, so they
are modelled on top of `MessageSlot` by composition: `prog[p]` is the program a
process runs and the stage it has reached, and every call is an action of
`MessageSlot`.

| code | actions |
|---|---|
| `open` (sender 41-47, reader 42-48) | `Start` with one of the opens of `MessageSlot`; `GiveUp` when it has failed |
| `ioctl` (sender 49-56, reader 50-57) | `Select` |
| `write`, `read` (sender 58-65, reader 59-66) | `Transfer` |
| `close` and `exit` (sender 67-68, reader 68-75) | `Leave` |

The constant `Programs` says which senders and readers are started. A reader reads
into `BUFFER_LENGTH` bytes. A process that has exited may run
another program. Not in the model: the check of `argc`, `atoi`, and printing.

### PccServer

The server serves one client after the other, with SIGINT blocked. While it
serves, nothing but its sockets can reach it, so that an action goes from one
socket call to the next; between two clients every point where the handler can
run is an action of its own.

| code | actions |
|---|---|
| `while (!sigint)` 134-139, and 246, 319-328 after it | `LoopTest`, `End` |
| `accept` 141-144 | `Accept` (it may fail), `Interrupt` (it returns -1) |
| 146-160: what is done about a SIGINT that came first, `sigprocmask`, `client_flow` | `BlockSigint` |
| `recv` of the size, `malloc`, `memset` 162-189 | `RecvSize` |
| `recv` of the text 191-213, `count_chars` 98-113 | `RecvText`, `Count` |
| `send` 215-233 | `Send` |
| the errors that are not fatal, `duplicate_pcc_total(0)` 115-119, 168-175, 198-204, 218-224 | `BreakConnection`, `Undo` |
| the others, and SIGPIPE | `Fail` |
| 235-243: `close`, `duplicate_pcc_total(1)`, `client_flow = 0`, SIGINT let through | `Commit`, `Unblock` |
| `sigint_handler` 249-253 | `Interrupt`, `Handled` |
| pcc_client 79-162 | `Connect`, `SendSize`, `SendText`, `PrintAnswer`, `LoseServer` |
| the kernel, the user | `KillClient` |

`blocked` and `pending` are the signal mask. A file is the sequence of its lines,
because the client resets the index into its buffer at every newline: it
announces the size of the file (`Size`) and sends its last line (`Text`). recv may
return any number of bytes from one on, or 0 when the client has gone; the size
it leaves uninitialised then is one of `Uninitialised`, or one for which malloc
fails and memset crashes. `count_chars` runs over the end of a message that fills
its buffer (`Leftovers`). History: `interrupted`, `counted`, `credited`. Not in the
model: what precedes line 304 (no client can have connected), NUL bytes in
files, and a size that is received in pieces.

### Shell

`jobs` are the children in the order they were forked: what they were forked for,
whether they ignore SIGINT, how far they are.

| code | actions |
|---|---|
| `process_arglist` 267-293 with `disclose_pipe_or_parallel` 89-101 | `Command` |
| `fork` 115, 185, 208, `pipe` 176, `close` of the ends 234-235 | `Fork`, `PassEnds` |
| `fork`, `pipe` or the reading of a line fails (shell.c 28-31) | `Exit` |
| `waitpid(..., WUNTRACED)` 141, 236-237 | `Wait`, `Waited` |
| `handle_sigint`, `dup2`, `close`, `execvp` in the child 122-134, 193-204, 216-227 | `Exec` |
| the program of a child | `Finish`, `Write`, `Read` |
| the terminal and the kernel | `Interrupt`, `Stop`, `Continue` |

The handler of SIGCHLD is never installed: line 156 sets the whole structure to
0 after the handler was assigned, so no action reaps a background child. The
window between `fork` and `handle_sigint(1)`, in which a foreground child ignores
SIGINT, is in the model: a job is `new` before its `Exec` and keeps the shell's
disposition. Not in the model: the words of a command line, exit codes, and
processes that leave the process group.

### PageTable

A virtual page number is the sequence of its symbols, a node a function from
symbols to entries. One action is one turn of the loop of `page_table_update`.

| code | actions |
|---|---|
| `alloc_page_frame` (os.c 17-36) | `NewTable`, `AllocateNode`, `OutOfMemory` |
| `page_table_update` pt.c 34-67 | `Update`, `FollowEntry`, `AllocateNode`, `OutOfMemory`, `Install` |
| `page_table_query` pt.c 69-97 | `Walk`, `page_table_query` |

An entry is a page number and a valid bit. The walk of an update compares a whole
entry with 0, the walk of a query tests its valid bit; unmapping clears the bit
and leaves the number (`Invalid`). A page number loses its upper 12 bits when it
is shifted (`PpnSpan`). `mapping` is the page number the last update of a page has
asked for, as it was asked for.

## What the runs check

| run | instance | shows |
|---|---|---|
| `pfind_search` | 3 workers, 4 directories in 3 levels, 2 files, nothing fails, fair scheduling | `CleanReportComplete`, that `Pfind` implements `DirSearch`, `EveryDirectoryScanned`, `WorkersSettle` |
| `pfind_faults` | 3 workers, any of which pthread_create may fail to start, 3 directories, one unopenable, 2 matching files, one of them unstatable, spurious wake-ups | `TypeOK`, `AllAsleepMeansDrained`, `QueueAttended`, `ScannedOnce`, `NothingLost`, `CounterExact`, `ErrorExitMeansAllDead` |
| `pfind_hang` | 2 workers, fair scheduling | **violated**: `MainFinishes` |
| `slot_overlap` | 2 processes, 1 slot, 2 channel numbers, 2 messages | `TypeOK`, `ReadFitsBuffer`, `OpenSlotExists`, `ChannelIsolation` |
| `slot_serial` | no overlap, 5 parameters (one of them 0, one with 0 for its lower bits, two with the same lower bits), `channel_num` of a new file 0 or 1, limit of 2 channels, 3 messages, 3 read lengths | `ChannelsKept`, `WholeMessages`, `AtomicSpec` |
| `slot_torn` | overlap | **violated**: `WholeMessages` |
| `slot_promised` | 1 process, 2 channel numbers, `channel_num` of a new file 0 | **violated**: `PromisedSpec`, that is `AtomicSlot` without departures |
| `slot_clients` | 2 processes that run senders and readers over and over, 2 channels, one ioctl that is refused, 3 nodes | `ProgramsEnd` |
| `pcc_serve` | 2 clients, one with an unprintable character, counters modulo 4, SIGINT, broken connections, killed clients | `TypeOK`, `TotalsExact`, `SigintHonoured`, `ExchangeEnds` |
| `pcc_newline` | 1 client whose file ends with a newline | **violated**: `ExchangeEnds` |
| `shell_pipeline` | up to 4 children, a pipe of one unit, SIGINT, stops, failing forks | `TypeOK`, `SigintSpares`, `PromptIsClean`, `PipelineEnds` |
| `page_table` | 3 layers of 2 entries, 2 tables, 6 frames, the least and the greatest page number that fit in an entry | `TypeOK`, `QueryCorrect`, `OnePath` |

What they say of pfind:

* *The termination test is sound.* Although `sleeping_threads_available` is
  raised well before a worker waits, lowered well after it is woken, and never
  read under the lock of the FIFO, it reaches `threads_limit + 1` only when the
  FIFO is empty and nobody scans. So a number printed while no worker has
  failed is right, whatever the interleaving.
* *The FIFO is attended.* A broadcast of `queue_not_empty` may be lost, because a
  worker that found the FIFO empty waits without looking again; but the thread
  that filled the FIFO looks into it after its scan. Only parallelism is lost -
  unless that thread ends by a failed scan: a directory it has queued may then
  stay there for good (277-284, 425-432).
* *Main may hang.* It tests the counters, releases the lock, and then waits. If
  the last worker counts itself in between, no signal is left (`pfind_hang`).
  Everything else is done by then (`EveryDirectoryScanned` holds).
* *A failed scan breaks the end.* `check_threads_running` reads three counters at
  three times; the combination can end the run while a worker that main has seen
  asleep is inside a directory: the sleepers are read on line 214, `living_threads`
  without a lock on line 220. Then line 477 ("All threads are either dead or
  sleeping") does not hold. For this reason `CleanReportComplete` speaks of runs without a
  failure.
* *A worker that cannot be created* (314) is counted as living but in no other counter:
  `thread_errors_cntr`, which line 110 calls "How many errors while opening threads",
  stays as it is. The safety properties of `pfind_faults` and their theorems hold
  whichever workers it hits; but as long as no scan fails the number of sleepers stays
  below what main waits for, and main does not end.

What they say of message_slot and its programs:

* *Without overlap it departs from its comments in four ways*, and in no other
  (`slot_serial`): a write through a file that chose no channel may reach one; channel
  numbers that agree in their lower 32 bits are one channel; a slot takes a quarter of
  its channels, because the counter is a pointer, counts in steps of 4 and counts the
  first channel twice; and a read from a channel the slot does not have kills its
  process (`slot_promised`). Messages are whole and channels are kept.
* *With overlap little is left.* Reads mix two messages or return bytes nobody
  wrote (`slot_torn`). Channels that were acknowledged get lost, because
  two processes that open the slot for the first time replace each other's slot, two
  that create the first channel each other's root, and two that create a later one
  each other's link: `ChannelsKept` holds in `slot_serial` only, and fails with the
  constants of `slot_torn`. What does hold: a read never
  overruns the buffer of its caller, since the size is loaded once; no read gets a
  message of another channel, as long as channel numbers differ in their lower 32 bits;
  a slot, once there, is there for every open file.
* *Programs end.* Every call of a sender or a reader returns, since nodes are only
  ever linked behind lists they are not in, and every failed call leads to `exit`,
  whatever the other process does to the list meanwhile.

What they say of pcc:

* *A client is a unit.* At every point at which SIGINT can come, it is remembered, and
  never takes effect before the client being served is done. The counts of a client
  that failed at `send` are undone; before `send` nothing has been counted.
* *The answer may be wrong*, though the comments of both programs promise the number
  of printable bytes of the file (pcc_server.c 78-79, pcc_client.c 27-28). The server
  takes what one `recv` returns for the whole text (192); `strlen` runs over the end of a
  text that fills its buffer, and what lies behind is counted (102); and the client
  sends only the last line of its file (123). The model has all three, so no property
  here says that the answer is the number promised: it is not. `TotalsExact` speaks of
  what `count_chars` has found, not of what the clients have: the totals add up, even
  where a summand is wrong.
* *A file that ends with a newline stops everything.* The client sends its last line,
  which is empty, and waits for the answer; the server has announced no deadline
  and waits for the text (`pcc_newline`). Files of one line, without a newline,
  are always answered or dropped (`pcc_serve`).
* In the model, and not a property of its own: a SIGINT between the test of the loop
  and `accept` leaves the server in `accept` until somebody connects (142); SIGPIPE
  ends it (217); a client whose server has gone prints an uninitialised number
  (143-158).

What they say of myshell:

* *Background children never die by SIGINT*, because they inherit `SIG_IGN` across `fork`
  and `execvp`; the shell itself is exposed until its first command, since
  `prepare` does nothing (263, 271).
* *The prompt is clean*: after a foreground command or a pipeline, whose children may
  finish, be killed or be stopped in any order, nothing of it runs that was
  neither reaped nor stopped, and no end of the pipe is left open in the shell.
* *Pipelines end*: once one side of a pipeline has ended, the other one sees the end
  of its input or the broken pipe, in spite of the descriptors that `fork` copies
  into the second child.
* In the model, and not a property of its own: background children are never
  reaped (156), and a foreground child forked just before SIGINT survives it (126).

What they say of the page table: a query returns what the last update has asked
for, if that has no more than 52 bits; of a longer page number it returns the lower 52
bits (`QueriesKeepLowerBits`), which is not what pt.c 14-15 and 26 say; distinct pages never share an entry, nor do two tables; an update
that runs out of frames ends the program before it has changed what any query returns.

**Bounds.** In `Pfind` nothing is bounded except by the constants: the tree is
finite, so the FIFO, `counter` and the history are. Three workers are enough for one
that fills the FIFO, one about to wait and one that waits; the deep tree makes
a worker find the FIFO empty and be woken again. Symmetry over workers is used
in the run without temporal properties only.

In `MessageSlot` the one bound is `MaxNodes`: no ioctl is issued when the ioctls
under way could exceed it. Two nodes are enough for two ioctls that race on an empty
list, for one that links a node to the first one while a read or a write walks past,
and so for every passing property of `slot_overlap`, which are about lookups. That two
ioctls link to the same last node takes a third node: `slot_clients` has it, so that a
walk passes a node while the other process links one behind it, and nodes are lost under
a walk. Without overlap three
nodes let the limit be met with one parameter to spare. Two processes show every race
of two calls, and the races named above are between two. `BUFFER_LENGTH` is 2: one
message fills it, one leaves a byte, one does not fit. `IdSpan` stands for 2^32.

In `PccServer` the clients bound everything. Two are enough for one that leaves
something behind and one that might find it; a third would only queue. `Width` is 4,
so that four letters make a counter wrap; a backlog of one makes a client wait for its
connection. In `Shell` the bounds are `MaxJobs` and `PipeSize`: four children are a
pipeline among two other commands, in the foreground or in the background (`Command`
starts one pipeline per session, since there is one pipe in the model); the pipe
of one unit is full after one write. In `PageTable` the constants bound
everything. Three layers have an inner node that is neither a root nor a last node;
the four pages part at each of the layers; six frames are fewer than two full tables.

`CHECK_DEADLOCK` is off everywhere: a program that has exited takes no step, and neither
does main in its hang, a kernel module that was unloaded, a server that has ended with
its clients, or a page table without memory.

**Fairness.** `FairSpec` of `Pfind` asks weak fairness of each worker and of main: the
kernel runs every thread that can run, and a mutex that is free again and again
is eventually granted - critical sections are one action, and the one lock with
an owner is released by its owner in the next step. No fairness is asked of
spurious wake-ups. Under them the workers need not settle, so the progress run
excludes them. `ClientSpec` of `SlotClients` asks it of every process: a program that
has been started runs until it exits (nothing in the driver sleeps or waits), but
nobody has to start one. `FairSpec` of `PccServer` asks it of the server and of each
client that has connected; nobody has to connect, no connection has to break, SIGINT
need not come. `FairSpec` of `Shell` asks it of the shell once it has a command, and of
every child that can move; programs may read or write forever, and a stopped
one need not be continued.

## What is proved

`tlapm` proves the following for every value of the constants that meets the
assumptions of the modules. Nothing of it is inductive as it stands; each
theorem rests on the invariant named with it.

**Pfind**, for every number of workers, every finite tree and every choice of
failures (`PfindAssumption`), in `PfindProofs`:

* `TypeCorrect`: `Spec => []TypeOK`, the bounds of the counters included;
* `QueueIsAttended`, `AllAsleepIsDrained`, `ErrorExit`: the safety properties of
  the same names above. `QueueAttended` has an exception: a worker that has died of a
  failed scan, or was never created, counts as one that has still to look into the
  FIFO, so that it says nothing from the first failure on. `CountersExact` says that each counter is the size of a set
  of threads given by their program counters (`sleeping_threads_available` is
  main's unit plus the workers between lines 284 and 298, and so on). It bounds
  the counters, and turns "the counter is `threads_limit + 1`" into "every worker is in
  `Napping`", by the theorem that a subset as large as its finite superset is that
  superset. `QueueAttended` is inductive once `NoneBornYet` says that main fills the
  FIFO before any worker runs: a worker turns away from the FIFO only when it
  has found it empty, and the FIFO is filled by a worker that will look again.
  Both together are the termination test. `HoldsItsDirectory` ties the locals of a
  scan to the place in the code.
* `NeverScannedTwice`: `ScannedOnce`, by `OnceInv`. That a directory is in one place
  is not inductive, as a scan may append what it has read to the FIFO while the same
  directory might be there already. What excludes it is that `Contents` is a tree:
  there is always a part `F` of it, closed downwards, of which nothing is known yet, and
  what a scan has still to read, and what the directories waiting to be read contain, lies
  in `F` (`Fresh(F)`). `OnePlace` says that each known entry is in one place, and
  `ReadsItsDirectory` that a scan reads what its directory contains.
* `NoDirectoryLost`: `NothingLost`, by `LostInv`: what a scan under way has read is
  queued, held or scanned already, so that nothing is missing when it finishes.
* `CountIsExact`: `CounterExact`, by `CountInv`: `counter` lies between the sizes of two
  sets of entries dealt with. It moves by one when one entry is added to them, because an
  entry is dealt with by one scan only (`OnceInv`) and what a scan is about to count is
  what readdir has just returned (`ItemRead`).
* `CleanReportIsComplete`: `CleanReportComplete`. As long as no scan fails, all that was
  read is known and had a type (`CleanInv`). Without a failure main leaves its loop only
  because everybody sleeps, and then every known directory is scanned, nothing is left to
  find, and `counter` does not move again before it is printed (`EndInv`).
* `ImplementsSearch`: `SearchSpec`, the refinement of `DirSearch`, when neither opendir nor
  lstat fails (`NoFailures`). The invariants above give the guards of the abstract steps:
  `Close` needs `OnceInv` and `ItemRead`, `Handle` that a directory comes from the scan of
  another one (`FromHandled`), `Report` that nothing is left (`EndInv`).

**DirSearch**, for every finite tree (the hypothesis `FiniteTree`; the tree may even have
shared entries): `AnswerCorrect` proves `AnswerIsComplete`. No run of its own checks
`DirSearch`; `pfind_search` checks `Pfind` against it. Its invariant says that
`found` counts the matching files handled, and that what is handled comes from known
directories.

**MessageSlot**, for any number of processes, minors and parameters and any overlap
of calls, in `MessageSlotProofs`:

* `TypeCorrect`, `ReadFits`, `OpenSlotIsThere`: `TypeOK`, `ReadFitsBuffer`,
  `OpenSlotExists`, by `SlotInv`. Its parts are the typing of what is shared (`Shared`) and, for
  each process, `Sound(t, f)`: at each place in the code, which of the locals point to a
  node or a slot that exists, and which bound holds for the number of bytes
  copied. Every action of one process leaves the other ones sound because the
  sequences of slots and nodes only grow (`Grows`, `OthersKeep`).
* `IsolationHolds` and `ChannelsAreIsolated`: `ChannelIsolation`, under the assumption
  `IdsAreDistinct` that no two parameters agree in their lower 32 bits (without it
  they are one channel, see above). The invariant `IsolationInv` says that there is an
  assignment of slots and nodes to the minors they were allocated for, such that
  pointers never leave a minor, a node holds messages to its own channel, and what a
  read has copied comes from the channel of its file. The assignment is not
  part of the state: lists lose nodes, and a node that nothing points to anymore is still
  in the hands of a process that found it before.

**MessageSlot without overlap**, for any number of processes, minors, channels and
messages and any lengths, in `SerialSlotProofs`. The theorems have the hypothesis
`Serial`: calls do not overlap. Nothing is assumed of the parameters or of what kmalloc
leaves in `channel_num` of a new file.

* `SerialIsOrderly`: the inductive invariant `SerialInv`, on top of `SlotInv`. It says
  that there is an assignment `L` of a set of nodes to every minor with `Orderly(L)`:
  `L[m]` are the nodes of the list of slot `m`, linked in the order in which they were
  allocated, and no other node is linked to anything (`Lists`); a list has one node per
  channel (`Distinct`); its channels are those acknowledged and the one about to be
  (`Known`); `numOfChannels` is `INT_SIZE` times one more than the number of channels, once
  there are any (`CountsChannels`), and `numOfDrivers` the number of slots
  (`CountsSlots`); outside of `device_write` the size of a channel is that of its message
  (`Stored`). Nothing of this can be said of the memory alone in the middle of a call, so
  `Alone` says that one process at most is in a call, and `Doing` what this process has
  found out at each place: that the nodes behind it do not have the channel it looks
  for, that the node it will link is new and in no list, that the bytes it has copied
  are those of the message. With overlap most of these parts fail, and so do the
  properties.
* `MessagesAreWhole`: `WholeMessages`, from `Doing`.
* `ChannelsAreKept`: `ChannelsKept`, from `Known`, and from `LinkedIsList`: the nodes that
  the recursive `Chain` finds from the root of a slot are those of `L`. Links
  lead to later nodes, so this is an induction over the number of nodes left.
* `ImplementsAtomicSlot`: `AtomicSpec`, the refinement of `AtomicSlot` with its four
  departures, which are part of what is proved. For every action
  there is a lemma that says what the processes see of it (`LookupUnseen`,
  `IoctlRefusedSeen`, ...). Most steps of a call are not seen. Those that look at the memory
  for the last time give the answer, and it is that of `AtomicSlot` because of `Orderly`: the
  channel is missing where the walk has ended (`MissingIsUnknown`), the counter compared
  with `CHANNELS_LIMIT` is the number of channels compared with `Capacity`
  (`LimitIsCapacity`), the node found holds the last message written
  (`WrittenThere`). Opening a slot is seen when it returns; it is never refused, since a
  slot is allocated once per minor (`NeverRefused`).

**PccServer**, for any number of clients, any files and any result of `recv`, in
`PccServerProofs` (`PccAssumption`: a file has at least one line, and its letters are
among finitely many `Chars` that are counted and any other `Bytes`):

* `SigintIsHonoured` (`SigintHonoured`), by `SInv`: SIGINT is blocked exactly
  while a client is served (`ServingBlocks`), and a signal that came is remembered in one
  of two places (`Remembered`);
* `NothingIsLeft`: `NothingLeft`, the second half of `TotalsExact`;
* `TypesAreOK`, `TotalsAreExact`: `TypeOK`, `TotalsExact`, by `PccInv`. `TotalsExact` alone is not inductive: what has been
  counted for a client is added to `pcc_total_temp` long before the client is credited, so
  `TotalsInv` relates the two arrays from `Count` to `Commit` or `Undo`, in the arithmetic
  modulo `Width`, and says that a client is credited once. The sums are folds over finite sets. That such a
  fold exists, is a number, and moves by `n` when one summand moves by `n`
  (`SumUnfolded`, `SumType`, `SumChange`) is proved by induction over subsets.

**PageTable**, for any number of layers, symbols, tables and frames, in `PageTableProofs`:

* `TypesAreOK` (`TypeOK`), `QueriesAreCorrect` (`QueryCorrect`), `FramesHaveOnePath`
  (`OnePath`), by `TreeInv`. Its part `Shape` says that walks stay in frames that
  have been handed out (`WithinMemory`) and meet only in a common prefix of one table
  (`Unshared`), that every such frame is reached (`Reached`), that an entry above the last
  layer is valid or was never written (`InnerEntries`), that a frame not handed out is blank
  (`Blank`), and that walks to the end find the lower 52 bits of what was asked for
  (`Answers`). This much holds for every page number (`QueriesKeepLowerBits`);
  `QueriesAreCorrect` assumes that no update asks for more than 52 bits. `UpdateOnPath` says that the node an update has reached is
  the one its page number leads to. What a walk leads to is a recursive function
  of the layer; that writing an entry off the path of a page leaves its walk alone, and
  that a frame is met at one layer only, are inductions over the layer
  (`PathKept`, `PathOfPrefix`).

The library's induction theorems have an operator as parameter. `DataInduction` states
induction for sets instead: a set that holds 0 and the successors of its members holds
all numbers (`NatSetInduction`), and a set that holds each part of a finite set of which
it holds the proper parts holds all of its parts (`SubsetInduction`). Both follow from the well-foundedness of strict
inclusion among finite sets.

**Shell**, for any number of jobs and any size of the pipe, in `ShellProofs`:

* `TypeCorrect` (`TypeOK`);
* `SigintIsSpared` (`SigintSpares`), by `SigintInv`: the shell ignores SIGINT from its
  first command on, and so does every background child from its birth;
* `PromptIsAlwaysClean` (`PromptIsClean`), by `PromptInv`: while the shell forks or waits, every
  foreground child that has not been dealt with is in `waiting` (`Attended`), the ends of a
  pipe are held by the shell only while it starts a pipeline (`EndsHeld`), and nobody
  is awaited when the shell is about to fork the first child of a command
  (`NobodyAwaited`).

Only model-checked:

* liveness: `EveryDirectoryScanned`, `WorkersSettle`, `ProgramsEnd`, `ExchangeEnds`,
  `PipelineEnds`. Fairness and ENABLED are out of the prover's reach.

## Plan

1. Done: all of the components, their runs, and the theorems above.
2. To prove next: that the programs of `SlotClients` are processes of `MessageSlot`, so that
   its theorems hold of them.
3. To model: `LinkedQueue`, that is `front` and `rear` of pfind's FIFO with its allocations,
   refining the sequence that `Pfind` uses.

## Not modelled

* The linked list behind pfind's FIFO (22-93): every access to it is under one lock,
  so `Pfind` uses a sequence.
* What pcc_server does before line 304: no client can have connected.
* Formatting of output, the parsing of command lines and of arguments, the length of
  paths, and NUL bytes in the files of pcc_client.
* The SIGCHLD handler of myshell (103-111): line 156 clears the structure that would
  install it, so it never runs.
* The copies of `os.c`, `os.h` and `shell.c` outside the `Solution` directories, the
  `Makefile`, the grades image and the exercise text have no behaviour of their
  own.

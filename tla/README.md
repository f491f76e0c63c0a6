# Foundation in TLA+

Foundation is the operating system of the SRC32 machine
(`src/foundation/`): a small preemptive kernel with message passing, and services
that run as ordinary processes. This directory holds TLA+ models of its kernel
scheduler, its IPC and process life cycle, its memory, its disk path (kernel requests and
disk service), its pipe service and its file service (volumes, namespace, protocol), with the TLC instances that check them and proofs that
TLAPS checks.

Line numbers in the modules refer to files under `src/foundation/`.

    tlc -config MCSched_queues.cfg MCSched     # a run; PROJECT.json lists them all
    tlapm SchedProofs.tla                      # the proofs of one module

## 1. The system

| Component | State | Operations | Interacts with |
|---|---|---|---|
| Scheduler (`kernel/sched.c`) | thread records with state, priority, slice, link and wake-up tick; a linked ready queue per priority; tick counter; `need_resched` | make ready, wake, block, yield, tick, kill a process's threads, `sched_next` | called by every trap; IPC, disk and process code wake and block through it |
| IPC (`kernel/ipc.c`) | handle tables, reference counts, ports with their CLIENT_GONE list, channels, service names, interrupt bindings, `send_blocked` | create, close, dup, call, receive, reply, reply+receive, register, look up, bind and acknowledge interrupts, wait, thread create and exit | blocks and wakes threads, moves handles between processes, masks IRQC lines |
| Processes (`kernel/proc.c`) | process records | spawn, fork, exit, kill, claim and release of records | closes handles (IPC), aborts disk requests, releases memory |
| Disk requests (`kernel/blk.c`, loop in `kernel/trap.c`) | queue of requests, bounce buffer, the IDC and its interrupt line | `blk_io`, `blk_irq`, `blk_proc_exited` | the IDC transfers by DMA while the kernel runs |
| Disk service (`services/disk/`) | read-ahead windows with LRU ranks, capacity of each drive, its one client | IDENTIFY, read, write, CLIENT_GONE | `blk_io`; its client is the file service |
| Pipe service (`services/pipe/`) | pipes with a ring buffer, pending requests | open, attach, read, write, CLIENT_GONE | IPC; replies late to calls that wait |
| Memory (`kernel/mm.c`) | frames with reference counts, page tables, TLB, cache of checked ranges; or arenas and protection regions | map, clone, copy on write, release, range checks | spawn, fork, mem_grow and exit of `proc.c`; every call that reads or fills user memory |
| FS2 driver (`fs/fs2.c`) | superblock flags, bitmap, inodes, chains, directory entries; hints and indexes in memory | create, remove, rename, write, truncate, mount, unmount | disk service, sector by sector |
| File service (`fs/server.c`, `vfs.c`, `main.c`) | mounts, object table (sessions, files, directories), badges | open, list, mkdir, remove, rename, cwd, streams, CLIENT_GONE | FS2 and DSFS volumes; a channel per object through IPC |
| Console service | streams, keys typed ahead, waiting requests, the edited line | open, read, read key, set mode, break wait | called by programs, polls keyboard and UART |
| Init, shell, kernel devices, loader | exclusive devices, images | | above the kernel |
| Emulator, firmware, Sol compiler, SDK | the machine and its tools | | below or outside |

What is hard: the kernel runs with interrupts off, but the IDC and the interrupt
controller do not wait for it; a process may end while it is blocked in a call, has one
of its calls in service, owns an interrupt or has a transfer running; the records of
threads, processes and channels are used again at once; queues are pruned lazily; counters
wrap. `PROJECT.json` lists each of these hazards at its line with the
properties about it.

## 2. Modules

| Module | Models | Extended by |
|---|---|---|
| `Sched` | `sched.c` and the traps that reach it | `SchedRefinement`, `SchedProofs`, `MCSched` |
| `SchedFifo` | abstract: FIFO queues, one runner, quantum | instance in `SchedRefinement` |
| `Subsequences` | the entries of a sequence in a set, as a recursive function | `SchedFifo`, `SchedRefinement` |
| `Ipc` | `ipc.c` with the life cycle of `proc.c` | `IpcServer`, `IpcProofs`, `MCIpc`, `MCIpcMix` |
| `IpcServer` | a service's main loop and its clients on `Ipc` | `MCIpcServer` |
| `Blk` | `blk.c`, `handle_irqs` of `trap.c`, the IDC and the IRQC line | `BlkProofs`, `MCBlk` |
| `DiskCache` | `disk/cache.c`, `disk/main.c` over changing media | `DiskCacheProofs`, `MCServices` |
| `Pipe` | `pipe/main.c` | `PipeProofs`, `MCServices` |
| `Console` | `console/main.c` | `ConsoleProofs`, `MCServices` |
| `Mm` | the virtual-memory backend of `mm.c` and its callers in `proc.c` and `trap.c` | `MmArena` |
| `MmPrivate` | abstract: every process has pages of its own | instance in `Mm` |
| `MmArena` | the backend without virtual memory: arenas and regions | `MCMm` |
| `Fs2` | `fs2.c`: an update as a list of sector writes | `MCFs2` |
| `FsTree` | abstract: a tree of inodes with atomic updates | instance in `Fs2` and `FsServer` |
| `FsServer` | `server.c`, `vfs.c`, `main.c` over volumes of `FsTree` | `FsServerProofs`, `MCFsServer` |
| `SchedProofs`, `IpcProofs`, `DiskCacheProofs`, `BlkProofs`, `PipeProofs`, `ConsoleProofs`, `MmArenaProofs`, `FsServerProofs` | theorems | |

`PROJECT.json` (`map`) names the source lines of every definition. Definitions beside
a mapped one that no action uses (`ReachedUnsigned` beside `Reached`, `OneRound` beside
`Rounds`, ...) are deliberate mistakes: put in place of the right definition, each makes
TLC report the property that is meant to notice it (`mutants`).

### Sched

Records are `1..NThreads`; `state`, `next`, `priority`, `slice`, `wake_tick`, `timed`,
`queue_head`, `queue_tail`, `fnd_current`, `need_resched` and `ticks` are the variables of
`sched.c`. `mode` says where the processor is: in user code, in the loop of `sched_tick`,
in a handler, or in the loop of `dequeue` which drops DEAD records one by one.
`elapsed` and `asked` are not in the code: they count the ticks of a wait for the time-out
properties. `ProcSpawn`, `ThreadCreate`, `ThreadExit`, `KillProc` and
`CloseThreadHandle` are what other files do to thread records.

`StaleReuse` is about one behaviour of the code. `sched_kill_proc` marks
READY threads DEAD but leaves them linked; `sched_alloc_thread` may hand such a record out
before `dequeue` has dropped it, and clears its `next`. With `StaleReuse = TRUE` the model
does so too and READY threads are lost (run `sched_stale_reuse`, section 6). The passing
runs use `FALSE`, which keeps creation from reusing a record that is still linked, to see
that nothing else is wrong with the queues. The theorems about the queues assume `FALSE`; the others hold
for both values.

`SchedRefinement` maps the linked lists to sequences without their DEAD records and shows
that every step is one of `SchedFifo` or invisible to it: arrival at the tail, a
preempted thread back to the head of its queue, an expired one to the tail, the first of the
most urgent queue next.

### Ipc

`thr[t]` is the IPC part of a thread record (state, port, process and thread waited for, the
handle it wants to transfer, and `ahead`, the callers that came before it, which is all that
`seq` is used for). Any READY thread may make any system call in `Ops` next. System calls
are atomic, except that the loops of `take_next` and `handle_close_all` are followed item by
item: `kop` holds the call the kernel is in the middle of, and nothing else happens
meanwhile. Time-outs end any timed wait at any moment. Records of a table are
interchangeable, so "first free" is "any free", and TLC uses that symmetry. Bytes,
user addresses and checks that fail before any change are left out. A token is the calling
thread itself, valid while that thread is in REPLY for the replying process: the
24-bit generation that tells an old call of a thread from a new one is not modelled.

`IpcServer` starts from a service with a port and clients with channels, lets clients
call, the service go round its reply-and-receive loop, and every process be killed at any
moment.

### Blk

The IDC may finish between any two steps of the kernel. `pending` is the IRQC's PENDING
bit, which only a rising edge sets; `LookForIrq`, `BlkIrq` (or `BlkIrqSpurious`) and
`AckIrq` are the steps of `handle_irqs`: look, handle, write the bit back. An edge that
comes before the write-back is lost, which is why `trap.c` looks at the device again
(`BlkPending`). `proc_exit` begins, waits for the abort and releases memory in two steps.
`vm` chooses whether sectors go through the bounce buffer. The RAM disk of the FPGA
build, which copies at once, is not modelled.

### DiskCache

A window is a drive, a first sector, an LRU rank and its sectors. Every call of `blk_io`
blocks the service, so the medium may change (`MediaChange`) before each: `ReadMiss`,
`Prefetch` and `ExactRead` are separate steps, as are `WriteBegin` (drop the windows) and
`WriteEnd` (write). `changed[d]` is a history variable: the medium of `d` was changed and
no IDENTIFY has followed; the code cannot know, and coherence is not claimed then.

### Pipe

`settle` is followed answer by answer (`SettleRead`, `SettleEof`, `SettleWrite`, `SettlePeerGone`,
`SettleEnd`) in the two rounds of `settle_all`; callers may be killed in between. `scan` says where it is:
the rounds left, the pipe, the next entry, and the pipe that `client_gone` may free in the end. What a caller is told is
not kept, only that its call is over. `owed` records the bytes written and not yet read, for
`BytesInOrder`. Badges and ids are bounded by `MaxBadge`; their wrap at 2^31 is not modelled.

### Console

One request, CLIENT_GONE or time-out is one step; what `main` does before it receives again (poll the
keyboard, answer a NOWAIT request, `dispatch`) is in `todo`, one key and one answer per step. Keys are
numbered in the order they are typed; a `wide` key is a character of two bytes. `HandKey` has both ends of
a reply: the reader takes the key, or it is gone, or its buffer is too small, and `unget_key` puts the key
back. `ahead` and `con_owed` are not in the code: the keys accepted and not yet used, and the bytes of
finished lines not yet read. Names that `DiskCache` or `Pipe` has too begin with `Con` or `con_`
(`con_pending` is `pending`), so that `MCServices` can extend all three.

### Mm, MmArena and MmPrivate

`mm` holds the frame pool (`frame_refs`, `free_frames`) and the page tables; a page's content is
one value. Every operation is a function from pool to pool, so that spawn, fork and
mem_grow can fail at any frame they ask for and take back what they did, as the code does. `tlb`
is the CPU's: it keeps translations until `proc_activate` or a reload drops them. `checked` is the
cache of `proc_user_range_ok` with the epoch folded in. A call that blocks has its output page checked
(and unshared) at its start and written at its end, with any number of other calls in between.
`mm_init` chooses the backend; `MmArena` adds the other one, where one address space is divided by
the CPU's protection regions. `MmPrivate` says what processes rely on: pages that start
as zeros or the image, a fork that copies at once, and no write that shows in another process.

### Fs2 and FsTree

The driver has one thread and writes through, so an operation is its checks followed by a list of
sector writes (`todo`), made when it starts; each write is a step that may succeed or fail, the
read before it may fail (`ReadErrors` of them), and the machine may stop between any two. The
hints, extents and directory indexes are in `vol` with the rules by which the code notes and drops
them. Directory entries take `DirentCells` cells and cross blocks. `shadow` is the tree
of the operations that have ended, `lost` says that damage was done; both are not in the code.
`FsTree` promises a tree with atomic updates until then. With `FullMountCheck` off the
mount makes only the checks of the current build (`boot/build.py`); the run has it on.

### FsServer

Volumes are trees of `FsTree`, which `Fs2` implements as long as the device works; the boot volume
is mounted twice, as `/` and `/dd/<n>`, and `MountAll` is what `mount_disks` and `mount_tmp` make of
a machine. A node is a mount with an inode. `Walk` follows a path as `vfs_walk_path` does, keeping the
path of stored names that becomes `cwd_path`; `WalkParent` is its parent mode. A request, from
receipt to reply, is one step: the service is not preempted in a way that shows. A refusal is one form
whatever its status. `Hand` has the three ends of an answer with a new object: `chan_create`
fails, the reply fails, the client has it. Clients are seen through their channels: `Close` is the
last handle, after which a request of another thread may still wait (`late`) and, since notices are
received first, is served after CLIENT_GONE. `owed`, `given` and `wrong` in a directory object and
`revived` are not in the code. A path is walked by a recursive function, one component after the other (`Through`),
so that the proofs can follow it. `FlagsOk` is what `op_open` accepts (`server.c:496`).

## 3. Runs

| Run | Instance | Checks | Shows |
|---|---|---|---|
| `sched_queues` | 3 records, 2 priorities, 2 processes, slice 1 | TypeOK, ReadyIsQueued, OneRunning, MostUrgentRuns, ImplementsFifo | no READY thread is lost, one thread runs and none more urgent waits, FIFO order is kept |
| `sched_time` | 2 records, 8 tick values, time-outs 1, 2, 4, 5 | NoLateTimeout, NoEarlyTimeout, UrgentThreadRuns | waits end at exactly their tick across wraps; nobody at the top priority starves |
| `sched_stale_reuse` | as `sched_queues`, reuse allowed | ReadyIsQueued: violated | section 6 |
| `ipc_calls` | 3 threads of 1 process, 1 port, 2 channels, 3 handles | NoLostWakeup, CallersAreServable, GoneOwedOnce, CallsServedInOrder | calls with transfers, closes, joins and time-outs |
| `ipc_procs` | 2 threads, 2 processes, 1 port, 1 name, 1 line; each behaviour exercises processes, services or handles | RefsAreSound, IrqNeverStuck, ExitedOwnsNothing | spawn, kill, exit and transfers with calls in flight; handles copied by dup, spawn and fork; owners of names and interrupts come and go |
| `ipc_server_loop` | 1 service, 3 clients | CallReturns, GoneIsDelivered | every call returns, every departure is reported |
| `blk` | 3 threads of 2 processes, both memory models | QueueInv, DmaIntoLiveMemory, RightAnswer, EveryRequestEnds | the disk queue with a device that finishes at any moment |
| `services` | one service per behaviour. Disk: 1 drive, 3 media, 3 windows of 3 sectors, 2 clients. Pipe: 2 pipes of 2 bytes, 3 entries, 4 calls. Console: 1 stream at a time, 2 waiting requests, 2 keys of 5 kinds in the ring, 2 calls | CacheInv, Coherent, ReadsTheDrive, GoodSectorsAreRead; BytesInOrder, WaitersInv; InputInOrder, ReadersAreServed | windows that overlap on media changed to shorter and bad ones; transfers of all sizes, a full table, kills and closes; keys, lines, breaks and modes with readers that are killed |
| `console_raw_char` | as in `services`, with reads of 1 byte | ReadersAreServed: violated | section 6 |
| `mm` | 2 processes, 8 frames, 4 pages in 2 tables; 4 arena pages, 2 regions | PoolExact, ArenasArePrivate, NothingIsStale, ImplementsPrivate | spawn, fork, growth, faults and exits with a pool that runs out half way |
| `fs2` | 3 inodes, 3 blocks of 3 cells, 2 names, 4 updates, 1 read error, any failed write, any crash | CleanIsConsistent, BlocksAreOwned, MemoryIsTrue, ImplementsTree | every update, stopped anywhere |
| `fs_server` | 3 objects, 4 badges, 2 lookups, boot volume of 4 inodes with two mounts, a read-only or DSFS drive; four profiles of requests | RefsAreLive, ListedOnce, ObjectsAreOwned | names, listings, owners and data of the file service |

`QueueInv`, `WaitersInv`, `CacheInv`, `RefsAreSound`, `ArenasArePrivate` and `NothingIsStale` are conjunctions of
named parts (type invariant included where the module has one), each with its own comment.

**Bounds.** Three thread records are the fewest with a running thread, a thread that
waits and one killed between them in one queue; two priorities the fewest with preemption.
Eight tick values give every relation of two ticks to the wrap, and 5 is the longest
time-out that half the range plus one allows. Three threads on one port are a receiver and
two callers whose order matters; two processes the fewest with exits, transfers and reuse of
a record. Three handles are a port, a channel and one to lose. Three windows of three
sectors with requests of up to two overlap at either end and leave one window untouched.
Three entries and four calls let the pending table be full and freed in the middle. Eight
frames hold one process with its tables and part of a second, so that fork runs out at every one of
its allocations; one heap page makes growth add a table or not. Four updates on three inodes fill
the volume, reuse a freed inode number with hints of its predecessor around, and move an entry
between two directories; entries of two cells in blocks of three cross blocks.
In `fs_server`, each behaviour tries the requests of one profile: `names` (a session, another object
and paths through both mounts, by case and by `..`; one inode kept free), `lists` (three entries,
hidden names, both mounts), `owners` (a full table, the wrap of the badges, late requests, two
lookups) and `data` (two open files at once, sizes up to 2). Deadlock
is checked for the scheduler and the disk queue, which can always
go on; the IPC, service, memory and file runs end when all processes have ended or the bounded
calls, updates, lookups and badges are used up (`CHECK_DEADLOCK FALSE`).

**Fairness.** `Sched!FairSpec`: the kernel finishes its steps (it runs with
interrupts off), and the timer interrupts user code again and again (strong fairness, since
each trap disables it for a while). `IpcServer`: the kernel finishes its steps, and the
service, which has a more urgent priority than its clients, goes round its loop; nothing is
assumed of clients. `Blk!FairSpec`: the kernel finishes, the IDC finishes a transfer, and
an enabled pending interrupt is taken although traps disable it in between.

## 4. Proofs

For every value of the constants that the `ASSUME`s allow:

| Theorem | Statement |
|---|---|
| `SchedProofs!TypeCorrect` | `Spec => []TypeOK` |
| `SchedProofs!RunningIsUnique` | `Spec => []OneRunning` |
| `SchedProofs!TimeoutNotEarly`, `TimeoutNotLate` | `ShortTimeouts` implies `Spec => []NoEarlyTimeout`, `Spec => []NoLateTimeout` |
| `SchedProofs!ReadyIsFound`, `MostUrgentFirst` | `StaleReuse = FALSE` implies `Spec => []ReadyIsQueued`, `Spec => []MostUrgentRuns` |
| `SchedProofs!QueuesAreFifo` | `StaleReuse = FALSE` implies `Spec => ImplementsFifo` |
| `IpcProofs!TypesHold` | `Spec => []Types` |
| `IpcProofs!NothingIsMissed` | `Spec => []NoLostWakeup` |
| `IpcProofs!NothingOutlivesItsProcess` | `Spec => []ExitedOwnsNothing` |
| `IpcProofs!NothingDangles` | `Spec => []RefsAreSound` |
| `IpcProofs!IrqsAreLive` | `Spec => []IrqNeverStuck` |
| `IpcProofs!CallersAreFound` | `Spec => []CallersAreServable` |
| `IpcProofs!EveryGoneIsOwedOnce` | `Spec => []GoneOwedOnce` |
| `IpcProofs!CallsInOrder` | `Spec => CallsServedInOrder` |
| `DiskCacheProofs!CacheIsCoherent` | `Spec => []Coherent` |
| `DiskCacheProofs!ReadsAreRight` | `Spec => ReadsTheDrive` |
| `DiskCacheProofs!CacheIsRight` | `Spec => []CacheInv` |
| `DiskCacheProofs!GoodReadsSucceed` | `Spec => GoodSectorsAreRead` |
| `BlkProofs!QueueIsRight` | `Spec => []QueueInv` |
| `BlkProofs!DmaIsSafe` | `Spec => []DmaIntoLiveMemory` |
| `BlkProofs!AnswerIsRight` | `Spec => RightAnswer` |
| `BlkProofs!QueueHasRoom` | `Spec => []Room`: the queue is never full for a thread that may ask (`blk.c:277`) |
| `PipeProofs!WaitersAreServed` | `PipeSpec => []WaitersInv` |
| `PipeProofs!RingIsInOrder` | `PipeSpec => []BytesInOrder` |
| `ConsoleProofs!InputIsInOrder` | `ConSpec => []InputInOrder` |
| `ConsoleProofs!EveryReaderIsServed` | `ReadsFit` implies `ConSpec => []ReadersAreServed` |
| `MmArenaProofs!ArenasAreKeptApart` | `MmSpec => []ArenasArePrivate` |
| `MmArenaProofs!ArenaPoolIsExact` | `MmSpec => [](mm_vm \/ PoolExact)`: the half of `PoolExact` about machines without Extension V |
| `FsServerProofs!ServiceInvariant` | `Spec => []ServiceInv`: the invariant behind the next two |
| `FsServerProofs!LiveReferences` | `Spec => []RefsAreLive` |
| `FsServerProofs!OnceListed` | `Spec => []ListedOnce` |
| `FsServerProofs!OwnedObjects` | `Spec => []ObjectsAreOwned` |

- **Scheduler.** `OneRunning` needs `RunInv`, which also covers the moments when
  `sched_next` has queued the current thread and not yet chosen the next. The time-out
  theorems need `TimeInv`: the counter is `elapsed` ticks past the start of each wait, so that
  the wake-up tick is `asked - elapsed` ahead; with time-outs up to half the range plus one
  (`ShortTimeouts`) the signed comparison then tells exactly the last tick. For longer ones
  the statement is false (section 6).
  The theorems about the queues assume `StaleReuse = FALSE`; without it they are false (section 6).
  `ListInv` says that some sequences `Q`, one per priority, are what the links follow from head to tail (`Linking`),
  no record in two places, and hold each READY thread at its priority and otherwise only records
  killed while they were READY (`Contents`). A lemma for each of `enqueue` at the tail, at the head and unlinking
  gives the sequences after it; that a walk along the links visits them in order, which turns `ListInv` into
  `ReadyIsQueued`, is an induction by the least counterexample (`AllUpTo`, `WalkVisits`). `UrgentInv` follows
  `need_resched` through a trap. For the refinement, `ListIsQueue` and the lemmas about `Among` say what each
  of the three does to the sequences without their DEAD records, and `SliceInv` that a thread which waits has
  ticks left and that one with ticks left is preempted only for a more urgent one.
- **IPC.** `Types` is type correctness with one part per variable, plus the home process
  of threads and the shape of `kop`; counts are integers there, and naturals only by
  `RefsAreSound`. `NoLostWakeup` is only about
  moments between system calls and not inductive: inside `sys_ipc_call` a caller in
  SEND and the receiver in RECV meet. `WakeInv` adds that such a pair is the one
  `kop` is busy with, that this caller is the only one on the port, and that every
  caller in SEND is in `send_blocked`. `OwnInv`, for `ExitedOwnsNothing`, adds that `kop`
  names a process exactly during its `proc_exit`. Most actions satisfy a few conditions
  (nothing new waits, no port becomes busy; nothing ends) from which a single lemma
  gives the invariant.
  `SoundInv` gives four theorems at once, since their parts need each other: a count is exact only
  when what is given out anew was named by nobody, a record is free only when its count is zero, and a port
  ends only with everything that leads to it. It says that counts are the cardinalities of the
  table entries (`Exact`), that what is counted exists, that a THREAD handle stays in the process of its
  thread, that the CLIENT_GONE lists hold the used channels without handles once (`OwedOnce`), and that waits,
  names, channels, interrupts and `kop` lead to ports in use. Most steps are calm (nobody begins to wait, no live
  thread ends) and begin or end at most one object; `HeldStep` and `CalmStep` do the rest for those.
  `GoneOwedOnce` counts places up to the number of channels, which `Chans` being finite and the lists being
  without repetitions bounds (`ShortList`). `CallsInOrder` needs that only `take_next` turns a caller from SEND to REPLY (`OnlyDelivery`) and
  that `next_caller` compares every caller there is, since all are marked in `send_blocked` (`SendersMarked`).
- **Disk cache.** `Coherent` is not inductive either: between dropping windows and
  writing, no window may overlap the sectors under way (`WriteIsClear`), and what is
  read ahead must contain what was asked for (`EnoughAhead`).
  The ages are shown to be ranks in the form "the age of a window is the number of younger windows, and no two are
  equal" (`Ranked`): dropping a set of windows lowers each other age by the number of those dropped below it
  (`ForgetRanks`), touching one puts it below all others (`TouchRanks`), and a window filled by a miss comes in
  above all others first, which needs that it is free from the choice of the victim until then (`VictimIsFree`).
  The service keeps to one client because the request under way is always that client's (`OneClient`).
- **Disk requests.** `DmaIntoLiveMemory` alone says too little about an idle device and about a
  process that is ending. `ThreadsHaveHomes` adds that live threads belong to LIVE processes and that a process is
  EXITING exactly while `kop` is at its exit; `DeviceFollows` that the request that runs is the head of
  the queue, with the device busy for it or holding its status, and that a device without a request is not
  busy. `blk_proc_exited` compacts the queue in one loop; its lemmas (`Kept`) say by induction along the
  queue, with the least counterexample of `WellFoundedInduction`, that the others stay, once
  each and in order. `Room` follows by counting threads.
- **Pipes.** `Quiet` is about moments between requests. `Settles` follows each pipe through the
  rounds: a settled pipe has waiting readers or waiting writers, never both, since readers
  wait at an empty ring where every write fits. A request adds one entry, or an end closes: with two rounds left
  all waiting entries but one still ahead are quiet, with one left they are of one kind and those passed
  are quiet, and answers to one kind move the ring in one direction only. That is why `settle_all` needs
  two rounds and `client_gone` one. `BytesInOrder` needs that different places of the ring are different
  bytes (`Places`) and where a byte is after the head moved around the end (`HeadMoves`).
- **Console.** `InputInOrder` is inductive once the sizes are known: the editor sees a key only when no finished
  line waits, so a new line is never laid over an unread one (`LineKeyKeeps`), and `unget_key` finds the place
  that `dispatch` just emptied (`PutBackKeeps`). `ReadersAreServed` speaks of the moments between turns. `Served` adds that
  what is left of a turn always ends in `dispatch`, that a call which waits is in the FIFO, is the break
  waiter or is the one this turn answers, and that the break waiter waits on `break_badge`, so that forgetting it in `client_gone` is
  right. It assumes `ReadsFit`, that every read has room for any character; without it the statement is false (section 6).
- **Arenas.** `ArenasArePrivate` follows from `AInv`: arenas are well shaped (`ArenasShaped`), share
  no page (`Apart`), and the pool counts a page once exactly when an arena holds it (`CountedOnce`), so that what the
  allocator finds free belongs to nobody; a page that is not zero lies in a region of a process (`DirtyIsReached`),
  so that zeroing the regions at an exit is enough; and the CPU's regions are the running process's, none
  beyond `cpu.n` being on (`CpuFollows`), which is why a switch may leave alone the ones it does not overwrite. `FreeExact`
  adds that the free count is the number of pages nobody holds.
- **File service.** `RefsAreLive` and `ListedOnce` need the namespace to be sound, so `ServiceInv` has three parts. The
  mounts are those of a machine (`MountsInv`). Every volume is a tree (`TreesInv`): `FsTree!IsTree` says that a live
  inode but the root has one entry, in the directory it calls its parent, that the names of a directory differ, and
  that going up ends at the root; lemmas about each update (`CreateKeeps`, `RemoveKeeps`, `RenameHereKeeps`,
  `RenameAwayKeeps`, `WriteKeeps`, `TruncateKeeps`) show that it is kept; only a rename into another directory could close a cycle. And every object is right (`Objects`): what it refers to exists with
  its type, the path of a session leads to its node through directories by stored names (`Leads`), and for each listing
  the entries it owes lie ahead of its position and those it gave lie behind (`Ahead`, `Behind`).
  `WalkFrom` is the last of a sequence of nodes (`WalkIs`), and a path goes on leading to its node as long as no
  entry along it changes (`LeadsStays`, `PathBelow`); that is where `busy` is needed: what it lets change
  is neither what a client refers to nor, when a directory moves, above it, through `/` and `/dd/<n>` alike (`AvoidsBusy`).
  `OwnInv` for `ObjectsAreOwned` adds that no channel is open and owed its notice at once, and that no badge is
  beyond the last that `svc_lookup` gave, so that the next one is new.
  Two assumptions are used, evaluated in the run: the keys of names are their own keys, with names that
  are neither `.` nor `..` (`NamesAssumption`, as `name.c` and the path parser make them), and the volumes that are
  mounted are trees (`DisksAssumption`): a volume whose damage the mount does not notice is outside these theorems.

Only model-checked: everything with fairness (`UrgentThreadRuns`, `CallReturns`,
`GoneIsDelivered`, `EveryRequestEnds`), which is beyond the prover; `PoolExact` with Extension V (`FramesExact`), where frames are
counted over page tables and loops; `NothingIsStale` and `ImplementsPrivate` of `Mm`; and everything about `Fs2` (`CleanIsConsistent`, `BlocksAreOwned`, `MemoryIsTrue` and that it implements `FsTree`), where
an update is a list of sector writes computed with folds over chains and extents, which are inductions over data. The theorems
about `FsServer` therefore rest on `FsTree`, to which only the run `MCFs2` ties `Fs2`.

## 5. Plan

1. Proofs: `FramesExact`, and that `Mm` implements `MmPrivate`; what a mount of `Fs2` accepts is a tree.
2. More of the kernel: the arithmetic of tokens (generation wrap), exclusive devices.
3. Composition: the disk service's call on `Blk`, the pipe and file services on `Ipc`.

## 6. Where the code and its documents differ

Shown by runs:

- **A READY thread can be lost** (`sched_stale_reuse`). Threads A and B of two processes are
  READY in one queue, A first; A's process is killed and a new thread is created at once:
  `sched_alloc_thread` (`sched.c:103-112`) reuses A's record, still at the head of the queue,
  and clears its link, and B is no longer reachable.

- **A reader of the console can be forgotten** (`console_raw_char`). In RAW mode a reader that asks for
  one byte when a character of two bytes is typed is given an answer its buffer cannot hold:
  `sys_ipc_reply` refuses it with FND_E_LIMIT and the call stays open (`ipc.c:596`). The console takes every
  failure for a reader that was killed (`console/main.c:179`), puts the key back and drops the request.

Met while modelling, without a run of their own:

- The console's input mode is one variable for the whole service (`console/main.c:30`);
  `doc/spec_Foundation_API.md:268` makes it a state of each stream object. `Console` does what the code does.

- **A caller can outlive its server.** PEER_GONE is given by `port_destroy`, when the last handle
  of the port closes. If the server shared its port with another process, its exit leaves the
  caller in REPLY for a process that no longer exists (`proc.c:63`);
  `doc/spec_Foundation.md:719` and `doc/spec_Foundation_API.md:108` say the call ends with
  PEER_GONE. `Ipc` reaches that state.
- **A session can outlive its channel.** CLIENT_GONE is received before waiting requests
  (`ipc.c:442`), so a request that one thread of a client made before another closed the last handle
  comes after it. `fs_server_request` takes the first request on a kernel badge for a new
  session (`server.c:853`) and nothing frees that one: `doc/spec_Foundation_API.md:107` says the
  object of the badge is freed. It is the exception `revived` in `ObjectsAreOwned`.
- After a truncation that cut the chain and then could not read the inode, the volume is
  suspect but still writable, and `write_existing` and `chain_free_from` (`fs2.c:539-590`)
  follow `next_block` without the range check that reads make: sector 0 is read or written as
  a data block (step `Strays` of `Fs2`).

- A time-out above 2^31 + 1 ticks that is not `FND_FOREVER` ends at the next tick
  (`sched.c:203`), against `doc/spec_Foundation.md:223`. `Timeouts = {6}` in
  `MCSched_time.cfg` shows it.
- `proc_spawn` ignores the error for a THREAD handle in its list, so the handles after it
  get lower numbers in the child than the comment at `proc.c:600` and
  `doc/spec_Foundation.md:378` say. `PassedTable` in `Ipc` does what the code does.
- A write end can be attached again once the first was closed (`pipe/main.c:156`,
  `doc/spec_Foundation_API.md:480`); a read before the write end is attached is answered
  with EOF (`pipe/main.c:77`, line 482); requests that wait on an end that closes are
  dropped, not answered (`pipe/main.c:247`, line 483); 16 pipes and 16 waiting requests
  exist, not 32 (`pipe/main.c:12`, line 484). `Pipe` does what the code does.

## 7. Not modelled

The console's drawing and its decoding of UART bytes, init, shell and programs, kernel devices and the image loader of Foundation
(section 5 says which are next); the contents of messages and user-memory checks in `Ipc`; the
mount checks of DSFS; permissions, since every session has UID 0. These are sequential code
without shared state (loader, programs, DSFS), or register access and drawing. The
emulator, firmware, compilers, chip libraries and tools, which are most of the repository's lines,
are outside: translators and simulators whose correctness is about data,
instruction by instruction, and of which only the IDC's, IRQC's and TLB's behaviour towards the
kernel is used, in `Blk`, `Ipc` and `Mm`.

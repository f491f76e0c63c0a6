------------------------------- MODULE Sched -------------------------------
(***************************************************************************)
(* The scheduler of the Foundation kernel, src/foundation/kernel/sched.c,   *)
(* under the most general kernel client: every trap of the machine is one   *)
(* entry (a system call, a fault, an IRQ), any wake-ups it causes, and the  *)
(* sched_next that ends it.  The kernel runs with interrupts off, so a trap *)
(* is atomic for user code; the variable mode follows the kernel through    *)
(* the loops of one trap and only user mode can be interrupted.             *)
(*                                                                         *)
(* The ready queues are the linked lists of the C code: a head and a tail   *)
(* per priority and one link per thread record.                             *)
(***************************************************************************)
EXTENDS Integers, FiniteSets

CONSTANTS
  NThreads,    \* thread records (FND_MAX_THREADS)
  NPrios,      \* queued priorities (PRIORITIES); the idle thread has priority NPrios
  Procs,       \* process records
  SliceTicks,  \* FND_SLICE_TICKS
  TickMod,     \* number of values of the tick counter (2^32 in the code)
  Timeouts,    \* time-outs, in ticks, that callers ask for
  StaleReuse   \* FALSE: no thread is created while the record sched_alloc_thread
               \* would reuse is still linked in a ready queue

ASSUME SchedAssumption ==
  /\ NThreads \in Nat \ {0}
  /\ NPrios \in Nat \ {0}
  /\ SliceTicks \in Nat \ {0}
  /\ TickMod \in Nat /\ TickMod >= 4 /\ TickMod % 2 = 0
  /\ Timeouts \subseteq 1 .. (TickMod - 2)     \* TickMod - 1 is FND_FOREVER
  /\ StaleReuse \in BOOLEAN
  /\ Procs # {}

Threads == 1 .. NThreads
Prios   == 0 .. (NPrios - 1)
Null    == 0                        \* the null pointer
Idle    == 0                        \* fnd_current = &idle
Forever == TickMod - 1
Ticks   == 0 .. (TickMod - 1)

VARIABLES
  mode,          \* where the kernel is: "user", "tick", "kernel", "dequeue"
  state,         \* state[t] of every thread record
  proc,          \* proc[t]: the process a record belongs to
  priority,      \* priority[t]
  slice,         \* slice[t]: ticks left
  held,          \* records with refs > 0 (a THREAD handle keeps the record)
  next,          \* next[t]: ready queue link
  queue_head, queue_tail,
  need_resched,
  fnd_current,
  ticks,         \* the tick counter, modulo TickMod
  timed, wake_tick,
  asked, elapsed \* history: the time-out asked for, and the ticks since then

queueVars == <<next, queue_head, queue_tail>>
timeVars  == <<ticks, timed, wake_tick, asked, elapsed>>
recVars   == <<proc, priority, held>>
vars == <<mode, state, slice, recVars, queueVars, need_resched, fnd_current, timeVars>>

TypeOK ==
  /\ mode \in {"user", "tick", "kernel", "dequeue"}
  /\ state \in [Threads -> {"FREE", "READY", "RUNNING", "BLOCKED", "DEAD"}]
  /\ proc \in [Threads -> Procs]
  /\ priority \in [Threads -> Prios]
  /\ slice \in [Threads -> 0 .. SliceTicks]
  /\ held \in SUBSET Threads
  /\ next \in [Threads -> Threads \cup {Null}]
  /\ queue_head \in [Prios -> Threads \cup {Null}]
  /\ queue_tail \in [Prios -> Threads \cup {Null}]
  /\ need_resched \in BOOLEAN
  /\ fnd_current \in Threads \cup {Idle}
  /\ ticks \in Ticks
  /\ timed \in [Threads -> BOOLEAN]
  /\ wake_tick \in [Threads -> Ticks]
  /\ asked \in [Threads -> Ticks]
  /\ elapsed \in [Threads -> Nat]

PrioOf(t) == IF t = Idle THEN NPrios ELSE priority[t]

\* idle.state is always T_RUNNING.
CurrentRunning == fnd_current = Idle \/ state[fnd_current] = "RUNNING"

-----------------------------------------------------------------------------
(* The queue operations of sched.c.                                         *)

\* enqueue(thread, 1): thread t of priority p becomes the first of its queue.
EnqueueHead(t, p) ==
  /\ next' = [next EXCEPT ![t] = queue_head[p]]
  /\ queue_head' = [queue_head EXCEPT ![p] = t]
  /\ queue_tail' = [queue_tail EXCEPT ![p] = IF @ = Null THEN t ELSE @]

\* Mutant: the old tail is not linked to the new one.
EnqueueTailUnlinked(t, p) ==
  /\ next' = [next EXCEPT ![t] = Null]
  /\ queue_head' = [queue_head EXCEPT ![p] = IF queue_tail[p] = Null THEN t ELSE @]
  /\ queue_tail' = [queue_tail EXCEPT ![p] = t]

\* enqueue(thread, 0): thread t of priority p becomes the last of its queue.
EnqueueTail(t, p) ==
  /\ next' = [u \in Threads |-> IF u = t THEN Null
                                ELSE IF u = queue_tail[p] THEN t ELSE next[u]]
  /\ queue_head' = [queue_head EXCEPT ![p] = IF queue_tail[p] = Null THEN t ELSE @]
  /\ queue_tail' = [queue_tail EXCEPT ![p] = t]

\* Mutant: no reschedule is asked for.
UrgeNever(p) == need_resched' = need_resched

\* A waker's test: the woken thread is more urgent than the running one.
Urge(p) == need_resched' = (need_resched \/ p < PrioOf(fnd_current))

\* The records that sched_alloc_thread may hand out; it takes the first one.
Allocatable == {t \in Threads : /\ state[t] \in {"FREE", "DEAD"}
                                /\ t # fnd_current
                                /\ t \notin held}
AllocThread(t) == t \in Allocatable /\ \A u \in Allocatable : t <= u

\* A record is linked when some queue or some other link reaches it directly.
Linked(t) == \/ \E p \in Prios : t \in {queue_head[p], queue_tail[p]}
             \/ \E u \in Threads : next[u] = t

\* timed is cleared; wake_tick, which nothing reads then, and the history go with it.
Disarm(S) ==
  /\ timed' = [t \in Threads |-> timed[t] /\ t \notin S]
  /\ wake_tick' = [t \in Threads |-> IF t \in S THEN 0 ELSE wake_tick[t]]
  /\ asked' = [t \in Threads |-> IF t \in S THEN 0 ELSE asked[t]]
  /\ elapsed' = [t \in Threads |-> IF t \in S THEN 0 ELSE elapsed[t]]

\* Mutants: the counters compared without regard to wrap-around; a strict comparison.
ReachedUnsigned(now, tick) == now >= tick
ReachedAfter(now, tick) == (now - tick) % TickMod \in 1 .. (TickMod \div 2 - 1)

\* A wake-up tick reached: (int32_t)(ticks - wake_tick) >= 0.
Reached(now, tick) == (now - tick) % TickMod < TickMod \div 2
Due == {t \in Threads : state[t] = "BLOCKED" /\ timed[t] /\ Reached(ticks, wake_tick[t])}

-----------------------------------------------------------------------------
(* At boot one module is ready (fnd_boot_spawn) and fnd_kernel_run is about *)
(* to call sched_next from the idle context.                                *)
Init ==
  \E p \in Procs, q \in Prios :
    /\ mode = "kernel"
    /\ state = [t \in Threads |-> IF t = 1 THEN "READY" ELSE "FREE"]
    /\ proc = [t \in Threads |-> p]
    /\ priority = [t \in Threads |-> IF t = 1 THEN q ELSE 0]
    /\ slice = [t \in Threads |-> IF t = 1 THEN SliceTicks ELSE 0]
    /\ held = {}
    /\ next = [t \in Threads |-> Null]
    /\ queue_head = [r \in Prios |-> IF r = q THEN 1 ELSE Null]
    /\ queue_tail = [r \in Prios |-> IF r = q THEN 1 ELSE Null]
    /\ need_resched = TRUE
    /\ fnd_current = Idle
    /\ ticks = 0
    /\ timed = [t \in Threads |-> FALSE]
    /\ wake_tick = [t \in Threads |-> 0]
    /\ asked = [t \in Threads |-> 0]
    /\ elapsed = [t \in Threads |-> 0]

-----------------------------------------------------------------------------
(* Entries into the kernel.  A system call or a fault comes from the        *)
(* running thread, an IRQ from whatever runs.                               *)

InThread == mode = "user" /\ fnd_current # Idle

\* A system call that touches no scheduler state, or a device IRQ; either may
\* go on to wake blocked threads.
OtherTrap ==
  /\ mode = "user"
  /\ mode' = "kernel"
  /\ UNCHANGED <<state, slice, recVars, queueVars, need_resched, fnd_current, timeVars>>

\* sched_yield, also sched_sleep(0).
Yield ==
  /\ InThread
  /\ mode' = "kernel"
  /\ slice' = [slice EXCEPT ![fnd_current] = 0]
  /\ need_resched' = TRUE
  /\ UNCHANGED <<state, recVars, queueVars, fnd_current, timeVars>>

\* sched_block with a time-out or for ever; sched_sleep(n) with n > 0.
Block(n) ==
  /\ InThread
  /\ mode' = "kernel"
  /\ state' = [state EXCEPT ![fnd_current] = "BLOCKED"]
  /\ timed' = [timed EXCEPT ![fnd_current] = n # Forever]
  /\ wake_tick' = [wake_tick EXCEPT ![fnd_current] = IF n = Forever THEN 0 ELSE (ticks + n) % TickMod]
  /\ asked' = [asked EXCEPT ![fnd_current] = n]
  /\ elapsed' = [elapsed EXCEPT ![fnd_current] = 0]
  /\ UNCHANGED <<slice, recVars, queueVars, need_resched, fnd_current, ticks>>

\* sched_alloc_thread resets the record, its creator sets process and priority,
\* and sched_make_ready appends it to its queue.
Create(t, p, q) ==
  /\ StaleReuse \/ ~Linked(t)
  /\ mode' = "kernel"
  /\ state' = [state EXCEPT ![t] = "READY"]
  /\ proc' = [proc EXCEPT ![t] = p]
  /\ priority' = [priority EXCEPT ![t] = q]
  /\ slice' = [slice EXCEPT ![t] = SliceTicks]
  /\ Disarm({t})
  /\ EnqueueTail(t, q)
  /\ Urge(q)
  /\ UNCHANGED <<fnd_current, ticks>>

\* sys_thread_create: a thread of the caller's process, kept by a THREAD handle.
ThreadCreate ==
  /\ InThread
  /\ \E t \in Threads : /\ AllocThread(t)
                         /\ held' = held \cup {t}
                         /\ Create(t, proc[fnd_current], priority[fnd_current])

\* spawn_image and start_proc: the first thread of a process without threads.
ProcSpawn(p, q) ==
  /\ InThread
  /\ \A t \in Threads : proc[t] = p => state[t] \in {"FREE", "DEAD"}
  /\ UNCHANGED held
  /\ \E t \in Threads : AllocThread(t) /\ Create(t, p, q)

\* The last THREAD handle of t is closed.
CloseThreadHandle(t) ==
  /\ InThread
  /\ t \in held /\ proc[t] = proc[fnd_current]
  /\ mode' = "kernel"
  /\ held' = held \ {t}
  /\ UNCHANGED <<state, slice, proc, priority, queueVars, need_resched, fnd_current, timeVars>>

\* sys_thread_exit of a thread that is not the last of its process.
ThreadExit ==
  /\ InThread
  /\ \E t \in Threads \ {fnd_current} : /\ proc[t] = proc[fnd_current]
                                        /\ state[t] \notin {"FREE", "DEAD"}
  /\ mode' = "kernel"
  /\ state' = [state EXCEPT ![fnd_current] = "DEAD"]
  /\ UNCHANGED <<slice, recVars, queueVars, need_resched, fnd_current, timeVars>>

\* sched_kill_proc, and handle_close_all on the THREAD handles of the process:
\* its own exit, a fault, or proc_kill.  A READY record stays in its queue.
KillProc(p) ==
  /\ InThread
  /\ \E t \in Threads : proc[t] = p /\ state[t] \notin {"FREE", "DEAD"}
  /\ mode' = "kernel"
  /\ state' = [t \in Threads |-> IF proc[t] = p /\ state[t] # "FREE" THEN "DEAD" ELSE state[t]]
  /\ held' = {t \in held : proc[t] # p}
  /\ UNCHANGED <<slice, proc, priority, queueVars, need_resched, fnd_current, timeVars>>

\* Mutant: the counter does not wrap around.
TimerIrqUnbounded ==
  /\ mode = "user"
  /\ mode' = "tick"
  /\ ticks' = ticks + 1
  /\ UNCHANGED <<state, slice, recVars, queueVars, need_resched, fnd_current, timed, wake_tick, asked, elapsed>>

\* The timer IRQ: sched_tick counts it and then scans the time-outs.
TimerIrq ==
  /\ mode = "user"
  /\ mode' = "tick"
  /\ ticks' = (ticks + 1) % TickMod
  /\ elapsed' = [t \in Threads |-> IF state[t] = "BLOCKED" /\ timed[t] THEN elapsed[t] + 1
                                   ELSE elapsed[t]]
  /\ UNCHANGED <<state, slice, recVars, queueVars, need_resched, fnd_current, timed, wake_tick, asked>>

-----------------------------------------------------------------------------
(* Inside the kernel.                                                       *)

\* sched_wake.
Wake(t) ==
  /\ state[t] = "BLOCKED"
  /\ state' = [state EXCEPT ![t] = "READY"]
  /\ Disarm({t})
  /\ EnqueueTail(t, priority[t])
  /\ Urge(priority[t])
  /\ UNCHANGED <<slice, recVars, fnd_current, ticks>>

\* The handler wakes a blocked thread.
WakeByHandler(t) == mode = "kernel" /\ Wake(t) /\ UNCHANGED mode

\* sched_tick's scan: ipc_timed_out for every due thread, in table order.
TimedOut(t) ==
  /\ mode = "tick"
  /\ t \in Due
  /\ \A u \in Due : t <= u
  /\ Wake(t)
  /\ UNCHANGED mode

\* The end of sched_tick: the running thread uses up a tick of its slice.
TickEnd ==
  /\ mode = "tick"
  /\ Due = {}
  /\ mode' = "kernel"
  /\ IF fnd_current # Idle /\ CurrentRunning
     THEN LET left == IF slice[fnd_current] > 0 THEN slice[fnd_current] - 1 ELSE 0
          IN /\ slice' = [slice EXCEPT ![fnd_current] = left]
             /\ need_resched' = (need_resched \/ left = 0)
     ELSE UNCHANGED <<slice, need_resched>>
  /\ UNCHANGED <<state, recVars, queueVars, fnd_current, timeVars>>

-----------------------------------------------------------------------------
(* sched_next.                                                              *)

\* Nothing asked for a switch: the running thread goes on.
Resume ==
  /\ mode = "kernel"
  /\ fnd_current # Idle /\ CurrentRunning /\ ~need_resched
  /\ mode' = "user"
  /\ UNCHANGED <<state, slice, recVars, queueVars, need_resched, fnd_current, timeVars>>

\* Mutants: the thread stays RUNNING; it always goes to the head, or to the tail.
RequeueRunning ==
  /\ mode = "kernel"
  /\ fnd_current # Idle /\ CurrentRunning /\ need_resched
  /\ mode' = "dequeue"
  /\ need_resched' = FALSE
  /\ EnqueueTail(fnd_current, priority[fnd_current])
  /\ slice' = [slice EXCEPT ![fnd_current] = SliceTicks]
  /\ UNCHANGED <<state, recVars, fnd_current, timeVars>>

RequeueHead ==
  /\ mode = "kernel"
  /\ fnd_current # Idle /\ CurrentRunning /\ need_resched
  /\ mode' = "dequeue"
  /\ need_resched' = FALSE
  /\ state' = [state EXCEPT ![fnd_current] = "READY"]
  /\ slice' = [slice EXCEPT ![fnd_current] = SliceTicks]
  /\ EnqueueHead(fnd_current, priority[fnd_current])
  /\ UNCHANGED <<recVars, fnd_current, timeVars>>

RequeueTail ==
  /\ mode = "kernel"
  /\ fnd_current # Idle /\ CurrentRunning /\ need_resched
  /\ mode' = "dequeue"
  /\ need_resched' = FALSE
  /\ state' = [state EXCEPT ![fnd_current] = "READY"]
  /\ slice' = [slice EXCEPT ![fnd_current] = IF @ = 0 THEN SliceTicks ELSE @]
  /\ EnqueueTail(fnd_current, priority[fnd_current])
  /\ UNCHANGED <<recVars, fnd_current, timeVars>>

\* The running thread goes back to its queue: to the tail with a new slice
\* when it has used up its own, to the head when it is preempted.
Requeue ==
  /\ mode = "kernel"
  /\ fnd_current # Idle /\ CurrentRunning /\ need_resched
  /\ mode' = "dequeue"
  /\ need_resched' = FALSE
  /\ state' = [state EXCEPT ![fnd_current] = "READY"]
  /\ \/ /\ slice[fnd_current] = 0
        /\ slice' = [slice EXCEPT ![fnd_current] = SliceTicks]
        /\ EnqueueTail(fnd_current, priority[fnd_current])
     \/ /\ slice[fnd_current] # 0
        /\ UNCHANGED slice
        /\ EnqueueHead(fnd_current, priority[fnd_current])
  /\ UNCHANGED <<recVars, fnd_current, timeVars>>

\* The idle thread, or a thread that blocked or ended, is not queued.
Leave ==
  /\ mode = "kernel"
  /\ fnd_current = Idle \/ ~CurrentRunning
  /\ mode' = "dequeue"
  /\ need_resched' = FALSE
  /\ UNCHANGED <<state, slice, recVars, queueVars, fnd_current, timeVars>>

\* dequeue looks at the first record of the most urgent non-empty queue.
FirstQueue(p) == queue_head[p] # Null /\ \A q \in Prios : q < p => queue_head[q] = Null

Unlink(p) ==
  LET t == queue_head[p] IN
  /\ queue_head' = [queue_head EXCEPT ![p] = next[t]]
  /\ queue_tail' = [queue_tail EXCEPT ![p] = IF next[t] = Null THEN Null ELSE @]
  /\ next' = [next EXCEPT ![t] = Null]

\* A record that is no longer READY is unlinked and skipped ...
Skip(p) ==
  /\ mode = "dequeue"
  /\ FirstQueue(p)
  /\ state[queue_head[p]] # "READY"
  /\ Unlink(p)
  /\ UNCHANGED <<mode, state, slice, recVars, need_resched, fnd_current, timeVars>>

\* ... a READY one runs ...
Dispatch(p) ==
  /\ mode = "dequeue"
  /\ FirstQueue(p)
  /\ state[queue_head[p]] = "READY"
  /\ Unlink(p)
  /\ mode' = "user"
  /\ state' = [state EXCEPT ![queue_head[p]] = "RUNNING"]
  /\ fnd_current' = queue_head[p]
  /\ UNCHANGED <<slice, recVars, need_resched, timeVars>>

\* ... and with every queue empty the idle thread runs.
DispatchIdle ==
  /\ mode = "dequeue"
  /\ \A p \in Prios : queue_head[p] = Null
  /\ mode' = "user"
  /\ fnd_current' = Idle
  /\ UNCHANGED <<state, slice, recVars, queueVars, need_resched, timeVars>>

-----------------------------------------------------------------------------
Kernel ==
  \/ \E t \in Threads : WakeByHandler(t) \/ TimedOut(t)
  \/ TickEnd \/ Resume \/ Requeue \/ Leave \/ DispatchIdle
  \/ \E p \in Prios : Skip(p) \/ Dispatch(p)

Trap ==
  \/ OtherTrap \/ Yield \/ ThreadCreate \/ ThreadExit \/ TimerIrq
  \/ \E n \in Timeouts \cup {Forever} : Block(n)
  \/ \E p \in Procs, q \in Prios : ProcSpawn(p, q)
  \/ \E p \in Procs : KillProc(p)
  \/ \E t \in Threads : CloseThreadHandle(t)

Next == Kernel \/ Trap

Spec == Init /\ [][Next]_vars

\* The machine executes kernel code until the trap ends, and the periodic
\* timer interrupts user code again and again.
FairSpec == Spec /\ WF_vars(Kernel) /\ SF_vars(TimerIrq)

-----------------------------------------------------------------------------
(* Properties.                                                              *)

\* The n-th record of queue p, following the links from queue_head.
Walk(p) ==
  LET at[n \in 0 .. NThreads] ==
        IF n = 0 THEN queue_head[p]
        ELSE IF at[n - 1] = Null THEN Null ELSE next[at[n - 1]]
  IN at
OnQueue(p) == {Walk(p)[n] : n \in 0 .. NThreads} \ {Null}

\* enqueue, dequeue and sched_alloc_thread together: every READY thread can be
\* reached from the head of the queue of its priority, so that dequeue finds it.
ReadyIsQueued ==
  \A t \in Threads : state[t] = "READY" => t \in OnQueue(priority[t])

\* sched_next leaves at most one RUNNING record, the current one, and returns to
\* user mode only with it.
OneRunning ==
  /\ \A t \in Threads : state[t] = "RUNNING" => t = fnd_current
  /\ mode = "user" => CurrentRunning

\* User code runs only while no more urgent thread is READY: every wake-up sets
\* need_resched when it must (sched_wake, sched_make_ready, sched_next).
MostUrgentRuns ==
  mode = "user" => \A t \in Threads : state[t] = "READY" => PrioOf(fnd_current) <= priority[t]

\* sched_block and sched_tick: when the kernel returns to user code, every thread
\* that still waits with a time-out has waited for fewer ticks than it asked for.
NoLateTimeout ==
  mode = "user" => \A t \in Threads :
    state[t] = "BLOCKED" /\ timed[t] => elapsed[t] < asked[t]

\* ipc_timed_out never ends a wait before the ticks asked for have passed,
\* whatever the counter does when it wraps around.
NoEarlyTimeout == mode = "tick" => \A t \in Due : elapsed[t] >= asked[t]

\* FIFO round robin: a READY thread of the most urgent priority does not wait for
\* ever (it runs, or its process is killed).
UrgentThreadRuns ==
  \A t \in Threads : state[t] = "READY" /\ priority[t] = 0 ~> state[t] # "READY"
=============================================================================

---------------------------- MODULE SchedProofs ----------------------------
(***************************************************************************)
(* Theorems about the scheduler for every number of thread records,         *)
(* priorities, processes and tick-counter width.                            *)
(***************************************************************************)
EXTENDS SchedRefinement, FiniteSetTheorems, SequenceTheorems, WellFoundedInduction, TLAPS

USE SchedAssumption

\* The tick arithmetic of sched_block and sched_tick stays inside the counter.
LEMMA TickModType == \A k \in Int : k % TickMod \in Ticks
  BY DEF Ticks

LEMMA ConstantTypes ==
  /\ 0 \in Ticks /\ Forever \in Ticks /\ Timeouts \subseteq Ticks
  /\ Idle \notin Threads /\ Null \notin Threads
  BY DEF Ticks, Forever, Idle, Null, Threads

\* enqueue keeps links and queue ends inside the thread table.
LEMMA EnqueueTypes ==
  ASSUME TypeOK, NEW t \in Threads, NEW p \in Prios, EnqueueHead(t, p) \/ EnqueueTail(t, p)
  PROVE  /\ next' \in [Threads -> Threads \cup {Null}]
         /\ queue_head' \in [Prios -> Threads \cup {Null}]
         /\ queue_tail' \in [Prios -> Threads \cup {Null}]
  BY DEF TypeOK, EnqueueHead, EnqueueTail

\* dequeue does too.
LEMMA UnlinkTypes ==
  ASSUME TypeOK, NEW p \in Prios, FirstQueue(p), Unlink(p)
  PROVE  /\ next' \in [Threads -> Threads \cup {Null}]
         /\ queue_head' \in [Prios -> Threads \cup {Null}]
         /\ queue_tail' \in [Prios -> Threads \cup {Null}]
         /\ queue_head[p] \in Threads
  BY ConstantTypes DEF TypeOK, FirstQueue, Unlink

LEMMA DisarmTypes ==
  ASSUME TypeOK, NEW t \in Threads, Disarm({t})
  PROVE  /\ timed' \in [Threads -> BOOLEAN]
         /\ wake_tick' \in [Threads -> Ticks]
         /\ asked' \in [Threads -> Ticks]
         /\ elapsed' \in [Threads -> Nat]
  BY ConstantTypes DEF TypeOK, Disarm

LEMMA UrgeType ==
  ASSUME NEW p \in Prios, Urge(p)
  PROVE  need_resched' \in BOOLEAN
  BY DEF Urge

\* sched_wake keeps the types.
LEMMA WakeTypes ==
  ASSUME TypeOK, NEW t \in Threads, Wake(t), mode' \in {"user", "tick", "kernel", "dequeue"}
  PROVE  TypeOK'
  <1>1. priority[t] \in Prios
    BY DEF TypeOK
  <1>2. EnqueueTail(t, priority[t]) /\ Disarm({t}) /\ Urge(priority[t])
    BY DEF Wake
  <1>3. QED
    BY <1>1, <1>2, EnqueueTypes, DisarmTypes, UrgeType DEF TypeOK, Wake, recVars

\* sched_alloc_thread followed by sched_make_ready keeps the types.
LEMMA CreateTypes ==
  ASSUME TypeOK, NEW t \in Threads, NEW p \in Procs, NEW q \in Prios,
         Create(t, p, q), held' \in SUBSET Threads
  PROVE  TypeOK'
  <1>1. EnqueueTail(t, q) /\ Disarm({t}) /\ Urge(q)
    BY DEF Create
  <1>2. QED
    BY <1>1, EnqueueTypes, DisarmTypes, UrgeType DEF TypeOK, Create

\* Type correctness of the scheduler's state.
THEOREM TypeCorrect == Spec => []TypeOK
  <1>1. Init => TypeOK
    BY ConstantTypes DEF Init, TypeOK, Threads, Prios
  <1>2. TypeOK /\ [Next]_vars => TypeOK'
    <2> SUFFICES ASSUME TypeOK, [Next]_vars PROVE TypeOK'
      OBVIOUS
    <2> USE ConstantTypes
    <2>1. CASE OtherTrap
      BY <2>1 DEF TypeOK, OtherTrap, recVars, queueVars, timeVars
    <2>2. CASE Yield
      BY <2>2 DEF TypeOK, Yield, InThread, recVars, queueVars, timeVars
    <2>3. ASSUME NEW n \in Timeouts \cup {Forever}, Block(n) PROVE TypeOK'
      <3>1. (ticks + n) % TickMod \in Ticks
        BY TickModType DEF TypeOK, Ticks
      <3>2. fnd_current \in Threads
        BY <2>3 DEF TypeOK, Block, InThread
      <3>3. QED
        BY <2>3, <3>1, <3>2 DEF TypeOK, Block, recVars, queueVars
    <2>4. CASE ThreadCreate
      <3>1. PICK t \in Threads : held' = held \cup {t} /\ Create(t, proc[fnd_current], priority[fnd_current])
        BY <2>4 DEF ThreadCreate
      <3>2. proc[fnd_current] \in Procs /\ priority[fnd_current] \in Prios /\ held' \in SUBSET Threads
        BY <2>4, <3>1 DEF ThreadCreate, InThread, TypeOK
      <3>3. QED
        BY <3>1, <3>2, CreateTypes
    <2>5. ASSUME NEW p \in Procs, NEW q \in Prios, ProcSpawn(p, q) PROVE TypeOK'
      <3>1. PICK t \in Threads : Create(t, p, q)
        BY <2>5 DEF ProcSpawn
      <3>2. held' \in SUBSET Threads
        BY <2>5 DEF ProcSpawn, TypeOK
      <3>3. QED
        BY <3>1, <3>2, CreateTypes
    <2>6. ASSUME NEW t \in Threads, CloseThreadHandle(t) PROVE TypeOK'
      BY <2>6 DEF TypeOK, CloseThreadHandle, queueVars, timeVars
    <2>7. CASE ThreadExit
      BY <2>7 DEF TypeOK, ThreadExit, InThread, recVars, queueVars, timeVars
    <2>8. ASSUME NEW p \in Procs, KillProc(p) PROVE TypeOK'
      BY <2>8 DEF TypeOK, KillProc, queueVars, timeVars
    <2>9. CASE TimerIrq
      BY <2>9, TickModType DEF TypeOK, TimerIrq, recVars, queueVars, Ticks
    <2>10. ASSUME NEW t \in Threads, WakeByHandler(t) \/ TimedOut(t) PROVE TypeOK'
      <3>1. Wake(t) /\ mode' \in {"user", "tick", "kernel", "dequeue"}
        BY <2>10 DEF WakeByHandler, TimedOut, TypeOK
      <3>2. QED
        BY <3>1, WakeTypes
    <2>11. CASE TickEnd
      <3>1. CASE fnd_current # Idle /\ CurrentRunning
        BY <2>11, <3>1 DEF TypeOK, TickEnd, recVars, queueVars, timeVars
      <3>2. CASE ~(fnd_current # Idle /\ CurrentRunning)
        BY <2>11, <3>2 DEF TypeOK, TickEnd, recVars, queueVars, timeVars
      <3>3. QED
        BY <3>1, <3>2
    <2>12. CASE Resume
      BY <2>12 DEF TypeOK, Resume, recVars, queueVars, timeVars
    <2>13. CASE Requeue
      <3>1. fnd_current \in Threads /\ priority[fnd_current] \in Prios
        BY <2>13 DEF TypeOK, Requeue
      <3>2. EnqueueHead(fnd_current, priority[fnd_current]) \/ EnqueueTail(fnd_current, priority[fnd_current])
        BY <2>13 DEF Requeue
      <3>3. slice' \in [Threads -> 0 .. SliceTicks]
        BY <2>13, <3>1 DEF Requeue, TypeOK
      <3>4. QED
        BY <2>13, <3>1, <3>2, <3>3, EnqueueTypes DEF TypeOK, Requeue, recVars, timeVars
    <2>14. CASE Leave
      BY <2>14 DEF TypeOK, Leave, recVars, queueVars, timeVars
    <2>15. CASE DispatchIdle
      BY <2>15 DEF TypeOK, DispatchIdle, recVars, queueVars, timeVars
    <2>16. ASSUME NEW p \in Prios, Skip(p) PROVE TypeOK'
      BY <2>16, UnlinkTypes DEF TypeOK, Skip, recVars, timeVars
    <2>17. ASSUME NEW p \in Prios, Dispatch(p) PROVE TypeOK'
      BY <2>17, UnlinkTypes DEF TypeOK, Dispatch, recVars, timeVars
    <2>18. CASE UNCHANGED vars
      BY <2>18 DEF TypeOK, vars, recVars, queueVars, timeVars
    <2>19. QED
      BY <2>1, <2>2, <2>3, <2>4, <2>5, <2>6, <2>7, <2>8, <2>9, <2>10, <2>11, <2>12, <2>13,
         <2>14, <2>15, <2>16, <2>17, <2>18 DEF Next, Kernel, Trap
  <1>3. QED
    BY <1>1, <1>2, PTL DEF Spec

-----------------------------------------------------------------------------
\* OneRunning is not inductive: dispatching a thread needs that the record that
\* gave up the CPU is no longer RUNNING, and the tick handler that the
\* interrupted thread still is.
RunInv ==
  /\ \A t \in Threads : state[t] = "RUNNING" => t = fnd_current
  /\ mode \in {"user", "tick"} => CurrentRunning
  /\ mode = "dequeue" => \A t \in Threads : state[t] # "RUNNING"

LEMMA RunInvHolds == Spec => []RunInv
  <1>1. Init => RunInv
    BY DEF Init, RunInv
  <1>2. TypeOK /\ RunInv /\ [Next]_vars => RunInv'
    <2> SUFFICES ASSUME TypeOK, RunInv, [Next]_vars PROVE RunInv'
      OBVIOUS
    <2> USE ConstantTypes DEF RunInv, CurrentRunning, TypeOK
    <2>1. CASE OtherTrap
      BY <2>1 DEF OtherTrap
    <2>2. CASE Yield
      BY <2>2 DEF Yield, InThread
    <2>3. ASSUME NEW n \in Timeouts \cup {Forever}, Block(n) PROVE RunInv'
      BY <2>3 DEF Block, InThread
    <2>4. CASE ThreadCreate
      BY <2>4 DEF ThreadCreate, InThread, AllocThread, Allocatable, Create
    <2>5. ASSUME NEW p \in Procs, NEW q \in Prios, ProcSpawn(p, q) PROVE RunInv'
      BY <2>5 DEF ProcSpawn, InThread, AllocThread, Allocatable, Create
    <2>6. ASSUME NEW t \in Threads, CloseThreadHandle(t) PROVE RunInv'
      BY <2>6 DEF CloseThreadHandle, InThread
    <2>7. CASE ThreadExit
      BY <2>7 DEF ThreadExit, InThread
    <2>8. ASSUME NEW p \in Procs, KillProc(p) PROVE RunInv'
      BY <2>8 DEF KillProc, InThread
    <2>9. CASE TimerIrq
      BY <2>9 DEF TimerIrq
    <2>10. ASSUME NEW t \in Threads, WakeByHandler(t) \/ TimedOut(t) PROVE RunInv'
      BY <2>10 DEF WakeByHandler, TimedOut, Wake
    <2>11. CASE TickEnd
      BY <2>11 DEF TickEnd
    <2>12. CASE Resume
      BY <2>12 DEF Resume
    <2>13. CASE Requeue
      BY <2>13 DEF Requeue
    <2>14. CASE Leave
      BY <2>14 DEF Leave
    <2>15. CASE DispatchIdle
      BY <2>15 DEF DispatchIdle
    <2>16. ASSUME NEW p \in Prios, Skip(p) PROVE RunInv'
      BY <2>16 DEF Skip
    <2>17. ASSUME NEW p \in Prios, Dispatch(p) PROVE RunInv'
      BY <2>17 DEF Dispatch, FirstQueue
    <2>18. CASE UNCHANGED vars
      BY <2>18 DEF vars
    <2>19. QED
      BY <2>1, <2>2, <2>3, <2>4, <2>5, <2>6, <2>7, <2>8, <2>9, <2>10, <2>11, <2>12, <2>13,
         <2>14, <2>15, <2>16, <2>17, <2>18 DEF Next, Kernel, Trap
  <1>3. QED
    BY <1>1, <1>2, TypeCorrect, PTL DEF Spec

\* One CPU: sched_next never leaves two RUNNING records and never returns to user
\* mode on a record that is blocked, ready or dead.
THEOREM RunningIsUnique == Spec => []OneRunning
  <1>1. RunInv => OneRunning
    BY DEF RunInv, OneRunning
  <1>2. QED
    BY <1>1, RunInvHolds, PTL

-----------------------------------------------------------------------------
\* The time-outs a wrapping counter can tell apart: up to half its range plus one
\* (the counter advances once before the first comparison).
ShortTimeouts == \A n \in Timeouts : n <= TickMod \div 2 + 1

\* k ticks after x, for a counter that wraps around.
Later(x, k) == IF x + k < TickMod THEN x + k ELSE x + k - TickMod

LEMMA ModStep == ASSUME NEW x \in Ticks, NEW k \in Ticks
                 PROVE  (x + k) % TickMod = Later(x, k)
  BY DEF Ticks, Later

LEMMA ModBack == ASSUME NEW x \in Ticks, NEW k \in Ticks
                 PROVE  (x - Later(x, k)) % TickMod = IF k = 0 THEN 0 ELSE TickMod - k
  BY DEF Ticks, Later

\* What a wait remembers: wake_tick is the tick counter when the rest of the
\* time-out will have passed, and only the tick handler sees a rest of 0.
TimeInv ==
  \A t \in Threads : state[t] = "BLOCKED" /\ timed[t] =>
    /\ asked[t] \in Timeouts
    /\ elapsed[t] <= asked[t]
    /\ mode = "tick" => elapsed[t] > 0
    /\ mode # "tick" => elapsed[t] < asked[t]
    /\ wake_tick[t] = Later(ticks, asked[t] - elapsed[t])

\* The tick handler finds a wait due exactly when its time-out has passed.
LEMMA DueExactly ==
  ASSUME ShortTimeouts, TypeOK, TimeInv, mode = "tick", NEW t \in Threads,
         state[t] = "BLOCKED", timed[t]
  PROVE  t \in Due <=> elapsed[t] = asked[t]
  <1> DEFINE rest == asked[t] - elapsed[t]
  <1>1. rest \in Ticks /\ rest <= TickMod \div 2 /\ wake_tick[t] = Later(ticks, rest)
    BY DEF TimeInv, TypeOK, ShortTimeouts, Ticks
  <1>2. (ticks - wake_tick[t]) % TickMod = IF rest = 0 THEN 0 ELSE TickMod - rest
    BY <1>1, ModBack DEF TypeOK
  <1>3. Reached(ticks, wake_tick[t]) <=> rest = 0
    BY <1>1, <1>2 DEF Reached, Ticks
  <1>4. rest = 0 <=> elapsed[t] = asked[t]
    BY DEF TypeOK, Ticks
  <1>5. QED
    BY <1>3, <1>4 DEF Due

LEMMA TimeInvStep ==
  ASSUME ShortTimeouts, TypeOK, TimeInv, [Next]_vars
  PROVE  TimeInv'
  <1>a. mode = "tick" => \A t \in Threads :
          state[t] = "BLOCKED" /\ timed[t] => (t \in Due <=> elapsed[t] = asked[t])
    BY DueExactly
  <1>b. ASSUME NEW n \in Ticks
        PROVE  (ticks + n) % TickMod = Later(ticks, n)
    BY ModStep DEF TypeOK
  <1> USE ConstantTypes DEF TypeOK, TimeInv
  <1>1. CASE OtherTrap
    BY <1>1 DEF OtherTrap, timeVars
  <1>2. CASE Yield
    BY <1>2 DEF Yield, InThread, timeVars
  <1>3. ASSUME NEW n \in Timeouts \cup {Forever}, Block(n) PROVE TimeInv'
    <2>1. n \in Ticks /\ (ticks + n) % TickMod = Later(ticks, n) /\ (n # Forever => n \in Timeouts)
      BY <1>b
    <2>2. n # Forever => 0 < n /\ n - 0 = n
      BY DEF Ticks, Forever
    <2> SUFFICES ASSUME NEW t \in Threads, (state[t] = "BLOCKED" /\ timed[t])'
                 PROVE  /\ asked'[t] \in Timeouts
                        /\ elapsed'[t] < asked'[t]
                        /\ wake_tick'[t] = Later(ticks', asked'[t] - elapsed'[t])
      BY <1>3 DEF Block, Ticks
    <2>3. CASE t = fnd_current
      <3>1. /\ n # Forever /\ asked'[t] = n /\ elapsed'[t] = 0 /\ ticks' = ticks
            /\ wake_tick'[t] = (ticks + n) % TickMod
        BY <1>3, <2>3 DEF Block, InThread
      <3>2. QED
        BY <3>1, <2>1, <2>2
    <2>4. CASE t # fnd_current
      BY <1>3, <2>4 DEF Block, InThread
    <2>5. QED
      BY <2>3, <2>4
  <1>4. CASE ThreadCreate
    BY <1>4 DEF ThreadCreate, InThread, Create, Disarm
  <1>5. ASSUME NEW p \in Procs, NEW q \in Prios, ProcSpawn(p, q) PROVE TimeInv'
    BY <1>5 DEF ProcSpawn, InThread, Create, Disarm
  <1>6. ASSUME NEW t \in Threads, CloseThreadHandle(t) PROVE TimeInv'
    BY <1>6 DEF CloseThreadHandle, InThread, timeVars
  <1>7. CASE ThreadExit
    BY <1>7 DEF ThreadExit, InThread, timeVars
  <1>8. ASSUME NEW p \in Procs, KillProc(p) PROVE TimeInv'
    BY <1>8 DEF KillProc, InThread, timeVars
  <1>9. CASE TimerIrq
    <2> SUFFICES ASSUME NEW t \in Threads, (state[t] = "BLOCKED" /\ timed[t])'
                 PROVE  /\ asked'[t] \in Timeouts
                        /\ elapsed'[t] <= asked'[t]
                        /\ elapsed'[t] > 0
                        /\ wake_tick'[t] = Later(ticks', asked'[t] - elapsed'[t])
      BY <1>9 DEF TimerIrq
    <2>1. /\ state[t] = "BLOCKED" /\ timed[t]
          /\ elapsed'[t] = elapsed[t] + 1 /\ asked'[t] = asked[t] /\ wake_tick'[t] = wake_tick[t]
          /\ mode = "user"
      BY <1>9 DEF TimerIrq
    <2>2. ticks' = Later(ticks, 1)
      BY <1>9, <1>b DEF TimerIrq, Ticks
    <2>3. /\ asked[t] \in Timeouts /\ elapsed[t] < asked[t] /\ elapsed[t] \in Nat /\ asked[t] \in Ticks
          /\ wake_tick[t] = Later(ticks, asked[t] - elapsed[t]) /\ ticks \in Ticks
      BY <2>1
    <2>4. Later(ticks, asked[t] - elapsed[t]) = Later(Later(ticks, 1), asked[t] - (elapsed[t] + 1))
      BY <2>3 DEF Later, Ticks
    <2>5. elapsed[t] + 1 <= asked[t] /\ elapsed[t] + 1 > 0
      BY <2>3 DEF Ticks
    <2>6. QED
      BY <2>1, <2>2, <2>3, <2>4, <2>5
  <1>10. ASSUME NEW t \in Threads, WakeByHandler(t) \/ TimedOut(t) PROVE TimeInv'
    BY <1>10 DEF WakeByHandler, TimedOut, Wake, Disarm
  <1>11. CASE TickEnd
    <2>1. \A t \in Threads : state[t] = "BLOCKED" /\ timed[t] => elapsed[t] < asked[t]
      BY <1>11, <1>a DEF TickEnd, Ticks
    <2>2. QED
      BY <1>11, <2>1 DEF TickEnd, timeVars
  <1>12. CASE Resume
    BY <1>12 DEF Resume, timeVars
  <1>13. CASE Requeue
    BY <1>13 DEF Requeue, timeVars
  <1>14. CASE Leave
    BY <1>14 DEF Leave, timeVars
  <1>15. CASE DispatchIdle
    BY <1>15 DEF DispatchIdle, timeVars
  <1>16. ASSUME NEW p \in Prios, Skip(p) PROVE TimeInv'
    BY <1>16 DEF Skip, timeVars
  <1>17. ASSUME NEW p \in Prios, Dispatch(p) PROVE TimeInv'
    BY <1>17 DEF Dispatch, FirstQueue, timeVars
  <1>18. CASE UNCHANGED vars
    BY <1>18 DEF vars, timeVars
  <1>19. QED
    BY <1>1, <1>2, <1>3, <1>4, <1>5, <1>6, <1>7, <1>8, <1>9, <1>10, <1>11, <1>12, <1>13,
       <1>14, <1>15, <1>16, <1>17, <1>18 DEF Next, Kernel, Trap

LEMMA TimeInvHolds == ASSUME ShortTimeouts PROVE Spec => []TimeInv
  <1>1. Init => TimeInv
    BY DEF Init, TimeInv
  <1>2. TypeOK /\ TimeInv /\ [Next]_vars => TimeInv'
    BY TimeInvStep
  <1>3. QED
    BY <1>1, <1>2, TypeCorrect, PTL DEF Spec

\* A wait is never ended early by its time-out, however often the tick counter
\* wraps around, as long as callers ask for at most half its range plus one.
THEOREM TimeoutNotEarly == ASSUME ShortTimeouts PROVE Spec => []NoEarlyTimeout
  <1>1. TypeOK /\ TimeInv => NoEarlyTimeout
    BY DueExactly DEF NoEarlyTimeout, Due, TypeOK, Ticks
  <1>2. QED
    BY <1>1, TypeCorrect, TimeInvHolds, PTL

\* ... and never outlasts it: no tick passes over a due wait.
THEOREM TimeoutNotLate == ASSUME ShortTimeouts PROVE Spec => []NoLateTimeout
  <1>1. TimeInv => NoLateTimeout
    BY DEF TimeInv, NoLateTimeout
  <1>2. QED
    BY <1>1, TimeInvHolds, PTL

-----------------------------------------------------------------------------
(* The ready queues as sequences.                                            *)

\* The links follow the queues Q from their heads to their tails, and no record
\* is in two places.
Linking(Q, heads, tails, links) ==
  /\ \A p \in Prios : /\ heads[p] = IF Len(Q[p]) = 0 THEN Null ELSE Q[p][1]
                      /\ tails[p] = IF Len(Q[p]) = 0 THEN Null ELSE Q[p][Len(Q[p])]
  /\ \A p \in Prios : \A i \in 1 .. Len(Q[p]) :
       links[Q[p][i]] = IF i = Len(Q[p]) THEN Null ELSE Q[p][i + 1]
  /\ \A p, q \in Prios : \A i \in 1 .. Len(Q[p]), j \in 1 .. Len(Q[q]) :
       Q[p][i] = Q[q][j] => p = q /\ i = j

Queues == [Prios -> Seq(Threads)]
InQueue(Q, t, p) == \E i \in 1 .. Len(Q[p]) : Q[p][i] = t

LEMMA NthThread ==
  ASSUME NEW Q \in Queues, NEW p \in Prios
  PROVE  /\ Q[p] \in Seq(Threads) /\ Len(Q[p]) \in Nat
         /\ \A i \in 1 .. Len(Q[p]) : Q[p][i] \in Threads /\ Q[p][i] # Null
         /\ Q[p] = <<>> <=> Len(Q[p]) = 0
  <1>1. Q[p] \in Seq(Threads)
    BY DEF Queues
  <1>2. \A i \in 1 .. Len(Q[p]) : Q[p][i] \in Threads
    BY <1>1, ElementOfSeq
  <1>3. QED
    BY <1>1, <1>2, LenProperties, EmptySeq DEF Threads, Null

\* A record that nothing links is in no queue.
LEMMA UnlinkedIsOut ==
  ASSUME TypeOK, NEW Q \in Queues, Linking(Q, queue_head, queue_tail, next), NEW t \in Threads, ~Linked(t)
  PROVE  \A p \in Prios : ~InQueue(Q, t, p)
  <1> SUFFICES ASSUME NEW p \in Prios, NEW i \in 1 .. Len(Q[p]), Q[p][i] = t PROVE FALSE
    BY DEF InQueue
  <1>1. Len(Q[p]) \in Nat /\ \A j \in 1 .. Len(Q[p]) : Q[p][j] \in Threads
    BY NthThread
  <1>2. CASE i = 1
    BY <1>1, <1>2 DEF Linked, Linking
  <1>3. CASE i # 1
    <2>1. i - 1 \in 1 .. Len(Q[p]) /\ i - 1 # Len(Q[p]) /\ (i - 1) + 1 = i
      BY <1>1, <1>3
    <2>2. next[Q[p][i - 1]] = t /\ Q[p][i - 1] \in Threads
      BY <1>1, <2>1 DEF Linking
    <2>3. QED
      BY <2>2 DEF Linked
  <1>4. QED
    BY <1>2, <1>3

\* enqueue(thread, 0) appends to a queue.
LEMMA AppendedList ==
  ASSUME TypeOK, NEW Q \in Queues, Linking(Q, queue_head, queue_tail, next),
         NEW t \in Threads, NEW p \in Prios, \A q \in Prios : ~InQueue(Q, t, q), EnqueueTail(t, p)
  PROVE  \E R \in Queues :
         /\ Linking(R, queue_head', queue_tail', next')
         /\ Len(R[p]) = Len(Q[p]) + 1 /\ R[p][Len(Q[p]) + 1] = t
         /\ \A i \in 1 .. Len(Q[p]) : R[p][i] = Q[p][i]
         /\ \A q \in Prios \ {p} : R[q] = Q[q]
  <1>0. PICK R : R = [Q EXCEPT ![p] = Append(Q[p], t)]
    OBVIOUS
  <1>1. /\ R \in Queues /\ Len(R[p]) = Len(Q[p]) + 1 /\ R[p][Len(Q[p]) + 1] = t
        /\ \A i \in 1 .. Len(Q[p]) : R[p][i] = Q[p][i]
        /\ \A q \in Prios \ {p} : R[q] = Q[q]
    <2>1. Q[p] \in Seq(Threads)
      BY NthThread
    <2>2. R[p] = Append(Q[p], t) /\ \A q \in Prios \ {p} : R[q] = Q[q]
      BY <1>0 DEF Queues
    <2>3. QED
      BY <1>0, <2>1, <2>2, AppendProperties DEF Queues
  <1>2. PICK n \in Nat : n = Len(Q[p])
    BY NthThread
  <1>3. \A q \in Prios : \A i \in 1 .. Len(Q[q]) : Q[q][i] # t
    BY DEF InQueue
  <1>4. /\ next' = [u \in Threads |-> IF u = t THEN Null ELSE IF u = queue_tail[p] THEN t ELSE next[u]]
        /\ queue_head' = [queue_head EXCEPT ![p] = IF queue_tail[p] = Null THEN t ELSE @]
        /\ queue_tail' = [queue_tail EXCEPT ![p] = t]
        /\ queue_head \in [Prios -> Threads \cup {Null}] /\ queue_tail \in [Prios -> Threads \cup {Null}]
    BY DEF EnqueueTail, TypeOK
  <1>5. /\ n = 0 => queue_tail[p] = Null /\ queue_head[p] = Null
        /\ n # 0 => queue_tail[p] = Q[p][n] /\ queue_tail[p] # Null /\ queue_head[p] = Q[p][1] /\ n \in 1 .. n /\ 1 \in 1 .. n
    BY <1>2, NthThread DEF Linking
  <1>6. ASSUME NEW q \in Prios
        PROVE  /\ queue_head'[q] = IF Len(R[q]) = 0 THEN Null ELSE R[q][1]
               /\ queue_tail'[q] = IF Len(R[q]) = 0 THEN Null ELSE R[q][Len(R[q])]
    <2>1. CASE q = p
      BY <1>1, <1>2, <1>4, <1>5, <2>1
    <2>2. CASE q # p
      BY <1>1, <1>4, <2>2 DEF Linking
    <2>3. QED
      BY <2>1, <2>2
  <1>7. ASSUME NEW q \in Prios, NEW i \in 1 .. Len(R[q])
        PROVE  next'[R[q][i]] = IF i = Len(R[q]) THEN Null ELSE R[q][i + 1]
    <2>1. CASE q = p /\ i = n + 1
      <3>1. R[q][i] = t /\ i = Len(R[q])
        BY <1>1, <1>2, <2>1
      <3>2. next'[t] = Null
        BY <1>4
      <3>3. QED
        BY <3>1, <3>2
    <2>2. CASE q = p /\ i # n + 1
      <3>1. i \in 1 .. n /\ R[q][i] = Q[p][i] /\ Q[p][i] \in Threads /\ Q[p][i] # t /\ Len(R[q]) = n + 1
        BY <1>1, <1>2, <1>3, <2>2, NthThread
      <3>2. CASE i = n
        BY <1>1, <1>2, <1>4, <1>5, <3>1, <3>2, <2>2
      <3>3. CASE i # n
        <4>1. i + 1 \in 1 .. n /\ i + 1 # n + 1
          BY <3>1, <3>3
        <4>2. Q[p][i] # Q[p][n] /\ n # 0
          BY <1>2, <1>5, <3>1, <3>3 DEF Linking
        <4>3. next[Q[p][i]] = Q[p][i + 1]
          BY <1>2, <3>1, <3>3 DEF Linking
        <4>4. QED
          BY <1>1, <1>2, <1>4, <1>5, <2>2, <3>1, <4>1, <4>2, <4>3
      <3>4. QED
        BY <3>2, <3>3
    <2>3. CASE q # p
      <3>1. R[q] = Q[q] /\ Q[q][i] \in Threads /\ Q[q][i] # t
        BY <1>1, <1>3, <2>3, NthThread
      <3>2. Q[q][i] # queue_tail[p]
        <4>1. n # 0 => Q[q][i] # Q[p][n]
          BY <1>2, <1>5, <2>3, <3>1 DEF Linking
        <4>2. QED
          BY <1>5, <3>1, <4>1, NthThread
      <3>3. QED
        BY <1>4, <3>1, <3>2 DEF Linking
    <2>4. QED
      BY <2>1, <2>2, <2>3
  <1>8. ASSUME NEW q \in Prios, NEW r \in Prios, NEW i \in 1 .. Len(R[q]), NEW j \in 1 .. Len(R[r]), R[q][i] = R[r][j]
        PROVE  q = r /\ i = j
    <2>1. \A s \in Prios : \A k \in 1 .. Len(R[s]) :
            \/ s = p /\ k = n + 1 /\ R[s][k] = t
            \/ k \in 1 .. Len(Q[s]) /\ R[s][k] = Q[s][k] /\ R[s][k] # t
      <3> SUFFICES ASSUME NEW s \in Prios, NEW k \in 1 .. Len(R[s])
                   PROVE  \/ s = p /\ k = n + 1 /\ R[s][k] = t
                          \/ k \in 1 .. Len(Q[s]) /\ R[s][k] = Q[s][k] /\ R[s][k] # t
        OBVIOUS
      <3>1. CASE s = p
        BY <1>1, <1>2, <1>3, <3>1
      <3>2. CASE s # p
        BY <1>1, <1>3, <3>2
      <3>3. QED
        BY <3>1, <3>2
    <2>2. CASE R[q][i] = t
      <3>1. q = p /\ i = n + 1
        BY <2>1, <2>2
      <3>2. R[r][j] = t
        BY <1>8, <2>2
      <3>3. r = p /\ j = n + 1
        BY <2>1, <3>2
      <3>4. QED
        BY <3>1, <3>3
    <2>3. CASE R[q][i] # t
      <3>1. i \in 1 .. Len(Q[q]) /\ j \in 1 .. Len(Q[r]) /\ Q[q][i] = Q[r][j]
        BY <1>8, <2>1, <2>3
      <3>2. \A a, b \in Prios : \A x \in 1 .. Len(Q[a]), y \in 1 .. Len(Q[b]) : Q[a][x] = Q[b][y] => a = b /\ x = y
        BY DEF Linking
      <3>3. QED
        BY <3>1, <3>2
    <2>4. QED
      BY <2>2, <2>3
  <1>9. QED
    BY <1>1, <1>6, <1>7, <1>8 DEF Linking

\* enqueue(thread, 1) puts a thread before a queue.
LEMMA PrependedList ==
  ASSUME TypeOK, NEW Q \in Queues, Linking(Q, queue_head, queue_tail, next),
         NEW t \in Threads, NEW p \in Prios, \A q \in Prios : ~InQueue(Q, t, q), EnqueueHead(t, p)
  PROVE  \E R \in Queues :
         /\ Linking(R, queue_head', queue_tail', next')
         /\ Len(R[p]) = Len(Q[p]) + 1 /\ R[p][1] = t
         /\ \A i \in 2 .. Len(Q[p]) + 1 : R[p][i] = Q[p][i - 1]
         /\ \A q \in Prios \ {p} : R[q] = Q[q]
  <1>0. PICK R : R = [Q EXCEPT ![p] = <<t>> \o Q[p]]
    OBVIOUS
  <1>2. PICK n \in Nat : n = Len(Q[p])
    BY NthThread
  <1>1. /\ R \in Queues /\ Len(R[p]) = n + 1 /\ R[p][1] = t
        /\ \A i \in 2 .. n + 1 : R[p][i] = Q[p][i - 1]
        /\ \A q \in Prios \ {p} : R[q] = Q[q]
    <2>1. Q[p] \in Seq(Threads)
      BY NthThread
    <2>2. R[p] = <<t>> \o Q[p] /\ \A q \in Prios \ {p} : R[q] = Q[q]
      BY <1>0 DEF Queues
    <2>3. <<t>> \in Seq(Threads) /\ Len(<<t>>) = 1 /\ <<t>>[1] = t
      OBVIOUS
    <2>4. /\ R[p] \in Seq(Threads) /\ Len(R[p]) = 1 + n
          /\ \A i \in 1 .. 1 + n : R[p][i] = IF i <= 1 THEN <<t>>[i] ELSE Q[p][i - 1]
      BY <1>2, <2>1, <2>2, <2>3, ConcatProperties
    <2>5. R \in Queues
      BY <1>0, <2>4 DEF Queues
    <2>6. QED
      BY <2>2, <2>3, <2>4, <2>5
  <1>3. \A q \in Prios : \A i \in 1 .. Len(Q[q]) : Q[q][i] # t
    BY DEF InQueue
  <1>4. /\ next' = [next EXCEPT ![t] = queue_head[p]]
        /\ queue_head' = [queue_head EXCEPT ![p] = t]
        /\ queue_tail' = [queue_tail EXCEPT ![p] = IF @ = Null THEN t ELSE @]
        /\ queue_head \in [Prios -> Threads \cup {Null}] /\ queue_tail \in [Prios -> Threads \cup {Null}]
        /\ next \in [Threads -> Threads \cup {Null}]
    BY DEF EnqueueHead, TypeOK
  <1>5. /\ n = 0 => queue_tail[p] = Null /\ queue_head[p] = Null
        /\ n # 0 => queue_tail[p] = Q[p][n] /\ queue_tail[p] # Null /\ queue_head[p] = Q[p][1] /\ n \in 1 .. n /\ 1 \in 1 .. n
    BY <1>2, NthThread DEF Linking
  <1>6. ASSUME NEW q \in Prios
        PROVE  /\ queue_head'[q] = IF Len(R[q]) = 0 THEN Null ELSE R[q][1]
               /\ queue_tail'[q] = IF Len(R[q]) = 0 THEN Null ELSE R[q][Len(R[q])]
    <2>1. CASE q = p
      <3>1. n # 0 => R[p][n + 1] = Q[p][n]
        <4>1. n # 0 => n + 1 \in 2 .. n + 1 /\ (n + 1) - 1 = n
          OBVIOUS
        <4>2. QED
          BY <1>1, <4>1
      <3>2. QED
        BY <1>1, <1>4, <1>5, <2>1, <3>1
    <2>2. CASE q # p
      BY <1>1, <1>4, <2>2 DEF Linking
    <2>3. QED
      BY <2>1, <2>2
  <1>7. ASSUME NEW q \in Prios, NEW i \in 1 .. Len(R[q])
        PROVE  next'[R[q][i]] = IF i = Len(R[q]) THEN Null ELSE R[q][i + 1]
    <2>1. CASE q = p /\ i = 1
      <3>1. next'[R[q][i]] = queue_head[p] /\ Len(R[q]) = n + 1
        BY <1>1, <1>4, <2>1
      <3>2. CASE n = 0
        BY <1>5, <2>1, <3>1, <3>2
      <3>3. CASE n # 0
        <4>1. 2 \in 2 .. n + 1
          BY <3>3
        <4>2. R[p][2] = Q[p][1]
          BY <1>1, <4>1
        <4>3. QED
          BY <1>5, <2>1, <3>1, <3>3, <4>2
      <3>4. QED
        BY <3>2, <3>3
    <2>2. CASE q = p /\ i # 1
      <3>1. i - 1 \in 1 .. n /\ i \in 2 .. n + 1 /\ Len(R[q]) = n + 1
        BY <1>1, <2>2
      <3>2. R[q][i] = Q[p][i - 1] /\ Q[p][i - 1] \in Threads /\ Q[p][i - 1] # t
        BY <1>1, <1>2, <1>3, <2>2, <3>1, NthThread
      <3>3. next'[R[q][i]] = IF i - 1 = n THEN Null ELSE Q[p][(i - 1) + 1]
        BY <1>2, <1>4, <3>1, <3>2 DEF Linking
      <3>4. CASE i - 1 = n
        BY <3>1, <3>3, <3>4
      <3>5. CASE i - 1 # n
        <4>1. i + 1 \in 2 .. n + 1 /\ (i + 1) - 1 = i /\ (i - 1) + 1 = i /\ i # n + 1
          BY <3>1, <3>5
        <4>2. R[p][i + 1] = Q[p][i]
          BY <1>1, <4>1
        <4>3. QED
          BY <2>2, <3>1, <3>3, <3>5, <4>1, <4>2
      <3>6. QED
        BY <3>4, <3>5
    <2>3. CASE q # p
      <3>1. R[q] = Q[q] /\ Q[q][i] \in Threads /\ Q[q][i] # t
        BY <1>1, <1>3, <2>3, NthThread
      <3>2. next'[Q[q][i]] = next[Q[q][i]] /\ i \in 1 .. Len(Q[q])
        BY <1>4, <3>1
      <3>3. next[Q[q][i]] = IF i = Len(Q[q]) THEN Null ELSE Q[q][i + 1]
        BY <3>2 DEF Linking
      <3>4. QED
        BY <3>1, <3>2, <3>3
    <2>4. QED
      BY <2>1, <2>2, <2>3
  <1>8. ASSUME NEW q \in Prios, NEW r \in Prios, NEW i \in 1 .. Len(R[q]), NEW j \in 1 .. Len(R[r]), R[q][i] = R[r][j]
        PROVE  q = r /\ i = j
    <2>1. \A s \in Prios : \A k \in 1 .. Len(R[s]) :
            \/ s = p /\ k = 1 /\ R[s][k] = t
            \/ s = p /\ k - 1 \in 1 .. Len(Q[s]) /\ R[s][k] = Q[s][k - 1] /\ R[s][k] # t
            \/ s # p /\ k \in 1 .. Len(Q[s]) /\ R[s][k] = Q[s][k] /\ R[s][k] # t
      <3> SUFFICES ASSUME NEW s \in Prios, NEW k \in 1 .. Len(R[s])
                   PROVE  \/ s = p /\ k = 1 /\ R[s][k] = t
                          \/ s = p /\ k - 1 \in 1 .. Len(Q[s]) /\ R[s][k] = Q[s][k - 1] /\ R[s][k] # t
                          \/ s # p /\ k \in 1 .. Len(Q[s]) /\ R[s][k] = Q[s][k] /\ R[s][k] # t
        OBVIOUS
      <3>1. CASE s = p /\ k = 1
        BY <1>1, <3>1
      <3>2. CASE s = p /\ k # 1
        <4>1. k \in 2 .. n + 1 /\ k - 1 \in 1 .. n
          BY <1>1, <3>2
        <4>2. QED
          BY <1>1, <1>2, <1>3, <3>2, <4>1, SMTT(30)
      <3>3. CASE s # p
        BY <1>1, <1>3, <3>3
      <3>4. QED
        BY <3>1, <3>2, <3>3
    <2>2. CASE R[q][i] = t
      <3>1. q = p /\ i = 1
        BY <2>1, <2>2
      <3>2. R[r][j] = t
        BY <1>8, <2>2
      <3>3. r = p /\ j = 1
        BY <2>1, <3>2
      <3>4. QED
        BY <3>1, <3>3
    <2>3. CASE R[q][i] # t
      <3>1. CASE q = p /\ r = p
        <4>1. i - 1 = j - 1
          <5>1. /\ i - 1 \in 1 .. Len(Q[p]) /\ R[p][i] = Q[p][i - 1]
                /\ j - 1 \in 1 .. Len(Q[p]) /\ R[p][j] = Q[p][j - 1]
            BY <1>8, <2>1, <2>3, <3>1
          <5>2. \A k, l \in 1 .. Len(Q[p]) : Q[p][k] = Q[p][l] => k = l
            BY DEF Linking
          <5>3. QED
            BY <1>8, <3>1, <5>1, <5>2
        <4>2. i \in Int /\ j \in Int
          BY <1>1, <3>1
        <4>3. QED
          BY <3>1, <4>1, <4>2
      <3>2. CASE q # p \/ r # p
        BY <1>8, <2>1, <2>3, <3>2 DEF Linking
      <3>3. QED
        BY <3>1, <3>2
    <2>4. QED
      BY <2>2, <2>3
  <1>9. QED
    BY <1>1, <1>2, <1>6, <1>7, <1>8 DEF Linking

\* dequeue unlinks the first record of a queue.
LEMMA UnlinkedList ==
  ASSUME TypeOK, NEW Q \in Queues, Linking(Q, queue_head, queue_tail, next),
         NEW p \in Prios, queue_head[p] # Null, Unlink(p)
  PROVE  \E R \in Queues :
         /\ Linking(R, queue_head', queue_tail', next')
         /\ Len(Q[p]) # 0 /\ Q[p][1] = queue_head[p] /\ Len(R[p]) = Len(Q[p]) - 1
         /\ \A i \in 1 .. Len(R[p]) : R[p][i] = Q[p][i + 1]
         /\ \A q \in Prios \ {p} : R[q] = Q[q]
  <1>0. PICK R : R = [Q EXCEPT ![p] = Tail(Q[p])]
    OBVIOUS
  <1>2. PICK n \in Nat : n = Len(Q[p])
    BY NthThread
  <1>1. /\ n # 0 /\ Q[p][1] = queue_head[p]
        /\ R \in Queues /\ Len(R[p]) = n - 1
        /\ \A i \in 1 .. n - 1 : R[p][i] = Q[p][i + 1]
        /\ \A q \in Prios \ {p} : R[q] = Q[q]
    <2>1. n # 0 /\ Q[p][1] = queue_head[p] /\ Q[p] \in Seq(Threads) /\ Q[p] # <<>>
      BY <1>2, NthThread DEF Linking
    <2>2. R[p] = Tail(Q[p]) /\ \A q \in Prios \ {p} : R[q] = Q[q]
      BY <1>0 DEF Queues
    <2>3. R[p] \in Seq(Threads) /\ Len(R[p]) = n - 1 /\ \A i \in 1 .. n - 1 : R[p][i] = Q[p][i + 1]
      <3> DEFINE L == Q[p]
      <3>1. L \in Seq(Threads) /\ L # <<>> /\ Len(L) = n
        BY <1>2, <2>1
      <3> HIDE DEF L
      <3>2. Tail(L) \in Seq(Threads) /\ Len(Tail(L)) = n - 1 /\ \A i \in 1 .. Len(Tail(L)) : Tail(L)[i] = L[i + 1]
        BY <3>1, HeadTailProperties
      <3>3. QED
        BY <2>2, <3>2 DEF L
    <2>4. R \in Queues
      BY <1>0, <2>3 DEF Queues
    <2>5. QED
      BY <2>1, <2>2, <2>3, <2>4
  <1> DEFINE t == queue_head[p]
  <1>3. t \in Threads /\ next[t] = (IF n = 1 THEN Null ELSE Q[p][2])
        /\ (n # 1 => Q[p][2] # Null)
    <2>1. 1 \in 1 .. n /\ (n # 1 => 2 \in 1 .. n)
      BY <1>1
    <2>2. QED
      BY <1>1, <1>2, <2>1, NthThread DEF Linking
  <1>4. /\ next' = [next EXCEPT ![t] = Null]
        /\ queue_head' = [queue_head EXCEPT ![p] = next[t]]
        /\ queue_tail' = [queue_tail EXCEPT ![p] = IF next[t] = Null THEN Null ELSE @]
        /\ queue_head \in [Prios -> Threads \cup {Null}] /\ queue_tail \in [Prios -> Threads \cup {Null}]
        /\ next \in [Threads -> Threads \cup {Null}]
    BY DEF Unlink, TypeOK
  <1>5. t = Q[p][1] /\ queue_tail[p] = Q[p][n]
    BY <1>1, <1>2 DEF Linking
  <1> HIDE DEF t
  <1>6. ASSUME NEW q \in Prios
        PROVE  /\ queue_head'[q] = IF Len(R[q]) = 0 THEN Null ELSE R[q][1]
               /\ queue_tail'[q] = IF Len(R[q]) = 0 THEN Null ELSE R[q][Len(R[q])]
    <2>1. CASE q = p /\ n = 1
      BY <1>1, <1>3, <1>4, <2>1
    <2>2. CASE q = p /\ n # 1
      <3>1. 1 \in 1 .. n - 1 /\ n - 1 \in 1 .. n - 1 /\ (n - 1) + 1 = n /\ 1 + 1 = 2 /\ n - 1 # 0
        BY <1>1, <2>2
      <3>2. R[p][1] = Q[p][2] /\ R[p][n - 1] = Q[p][n]
        BY <1>1, <3>1
      <3>3. QED
        BY <1>1, <1>3, <1>4, <1>5, <2>2, <3>1, <3>2
    <2>3. CASE q # p
      BY <1>1, <1>4, <2>3 DEF Linking
    <2>4. QED
      BY <2>1, <2>2, <2>3
  \* Where a record of the shorter queues was.
  <1>7. \A s \in Prios : \A k \in 1 .. Len(R[s]) :
          LET m == IF s = p THEN k + 1 ELSE k
          IN  m \in 1 .. Len(Q[s]) /\ R[s][k] = Q[s][m] /\ (k = Len(R[s]) <=> m = Len(Q[s])) /\ R[s][k] # t
    <2> SUFFICES ASSUME NEW s \in Prios, NEW k \in 1 .. Len(R[s])
                 PROVE  LET m == IF s = p THEN k + 1 ELSE k
                        IN  m \in 1 .. Len(Q[s]) /\ R[s][k] = Q[s][m] /\ (k = Len(R[s]) <=> m = Len(Q[s])) /\ R[s][k] # t
      OBVIOUS
    <2>1. CASE s = p
      <3>1. k \in 1 .. n - 1 /\ k + 1 \in 1 .. n /\ k + 1 # 1 /\ 1 \in 1 .. n
        BY <1>1, <2>1
      <3>2. Q[p][k + 1] # Q[p][1]
        BY <1>2, <3>1 DEF Linking
      <3>3. QED
        BY <1>1, <1>2, <1>5, <2>1, <3>1, <3>2
    <2>2. CASE s # p
      <3>1. R[s] = Q[s] /\ 1 \in 1 .. n
        BY <1>1, <2>2
      <3>2. Q[s][k] # Q[p][1]
        BY <1>2, <2>2, <3>1 DEF Linking
      <3>3. QED
        BY <1>5, <2>2, <3>1, <3>2
    <2>3. QED
      BY <2>1, <2>2
  <1>8. ASSUME NEW q \in Prios, NEW i \in 1 .. Len(R[q])
        PROVE  next'[R[q][i]] = IF i = Len(R[q]) THEN Null ELSE R[q][i + 1]
    <2>1. Len(R[q]) \in Nat /\ R[q][i] \in Threads /\ R[q][i] # t
      <3>1. Len(R[q]) \in Nat /\ R[q][i] \in Threads
        BY <1>1, NthThread
      <3>2. R[q][i] # t
        BY <1>7
      <3>3. QED
        BY <3>1, <3>2
    <2>2. next'[R[q][i]] = next[R[q][i]]
      BY <1>3, <1>4, <2>1
    <2>3. CASE i = Len(R[q])
      BY <1>7, <2>2, <2>3, SMTT(30) DEF Linking
    <2>4. CASE i # Len(R[q])
      <3>1. i + 1 \in 1 .. Len(R[q])
        BY <2>1, <2>4
      <3>2. CASE q = p
        <4>0. i + 1 \in 1 .. Len(Q[q]) /\ i + 1 # Len(Q[q]) /\ R[q][i] = Q[q][i + 1]
          <5>1. LET k == i + 1 IN k \in 1 .. Len(Q[q]) /\ R[q][i] = Q[q][k] /\ (i = Len(R[q]) <=> k = Len(Q[q]))
            BY <1>7, <3>2
          <5>2. QED
            BY <2>4, <5>1
        <4>1. next[Q[q][i + 1]] = Q[q][(i + 1) + 1] /\ R[q][i] = Q[q][i + 1]
          BY <4>0 DEF Linking
        <4>2. R[q][i + 1] = Q[q][(i + 1) + 1]
          BY <1>7, <3>1, <3>2
        <4>3. QED
          BY <2>2, <2>4, <4>1, <4>2
      <3>3. CASE q # p
        <4>1. R[q] = Q[q] /\ i \in 1 .. Len(Q[q]) /\ i # Len(Q[q])
          BY <1>1, <2>4, <3>3
        <4>2. next[Q[q][i]] = Q[q][i + 1]
          BY <4>1 DEF Linking
        <4>3. QED
          BY <2>2, <2>4, <4>1, <4>2
      <3>4. QED
        BY <3>2, <3>3
    <2>5. QED
      BY <2>3, <2>4
  <1>9. ASSUME NEW q \in Prios, NEW r \in Prios, NEW i \in 1 .. Len(R[q]), NEW j \in 1 .. Len(R[r]), R[q][i] = R[r][j]
        PROVE  q = r /\ i = j
    <2>1. i \in Int /\ j \in Int
      BY <1>1, NthThread
    <2>2. q = r /\ (IF q = p THEN i + 1 ELSE i) = (IF r = p THEN j + 1 ELSE j)
      <3>1. PICK k \in 1 .. Len(Q[q]) : k = (IF q = p THEN i + 1 ELSE i) /\ R[q][i] = Q[q][k]
        BY <1>7
      <3>2. PICK l \in 1 .. Len(Q[r]) : l = (IF r = p THEN j + 1 ELSE j) /\ R[r][j] = Q[r][l]
        BY <1>7
      <3>3. Q[q][k] = Q[r][l]
        BY <1>9, <3>1, <3>2
      <3>4. \A a, b \in Prios : \A x \in 1 .. Len(Q[a]), y \in 1 .. Len(Q[b]) : Q[a][x] = Q[b][y] => a = b /\ x = y
        BY DEF Linking
      <3>5. q = r /\ k = l
        BY <3>3, <3>4
      <3>6. QED
        BY <3>1, <3>2, <3>5
    <2>3. QED
      BY <2>1, <2>2
  <1>10. QED
    BY <1>1, <1>2, <1>6, <1>8, <1>9 DEF Linking

\* What the queues hold: the READY threads, each in the queue of its priority, and
\* records killed while they were READY.
Contents(Q) ==
  /\ \A p \in Prios : \A i \in 1 .. Len(Q[p]) : /\ state[Q[p][i]] \in {"READY", "DEAD"}
                                                /\ priority[Q[p][i]] = p
  /\ \A t \in Threads : state[t] = "READY" => InQueue(Q, t, priority[t])

ListInv == \E Q \in Queues : Linking(Q, queue_head, queue_tail, next) /\ Contents(Q)

\* A step that links nothing and makes no thread READY.
LEMMA CalmQueues ==
  ASSUME TypeOK, ListInv, UNCHANGED <<queueVars, priority>>,
         \A t \in Threads : state'[t] = "READY" => state[t] = "READY",
         \A t \in Threads : state[t] \in {"READY", "DEAD"} => state'[t] \in {"READY", "DEAD"}
  PROVE  ListInv'
  <1>1. PICK Q \in Queues : Linking(Q, queue_head, queue_tail, next) /\ Contents(Q)
    BY DEF ListInv
  <1>2. Linking(Q, queue_head, queue_tail, next)'
    BY <1>1 DEF queueVars, Linking
  <1>3. \A p \in Prios : \A i \in 1 .. Len(Q[p]) : Q[p][i] \in Threads
    BY NthThread
  <1>4. Contents(Q)'
    BY <1>1, <1>3 DEF Contents, InQueue
  <1>5. QED
    BY <1>2, <1>4 DEF ListInv

\* A record outside the queues becomes READY and is queued at its priority.
LEMMA QueuedThread ==
  ASSUME TypeOK, ListInv, NEW t \in Threads, NEW p \in Prios,
         EnqueueTail(t, p) \/ EnqueueHead(t, p),
         ~Linked(t) \/ state[t] \notin {"READY", "DEAD"},
         state'[t] = "READY", \A u \in Threads \ {t} : state'[u] = state[u],
         priority'[t] = p, \A u \in Threads \ {t} : priority'[u] = priority[u]
  PROVE  ListInv'
  <1>1. PICK Q \in Queues : Linking(Q, queue_head, queue_tail, next) /\ Contents(Q)
    BY DEF ListInv
  <1>2. \A q \in Prios : ~InQueue(Q, t, q)
    <2>1. CASE ~Linked(t)
      BY <1>1, <2>1, UnlinkedIsOut
    <2>2. CASE state[t] \notin {"READY", "DEAD"}
      BY <1>1, <2>2 DEF Contents, InQueue
    <2>3. QED
      BY <2>1, <2>2
  \* Either way the queues gain t, in queue p, and keep what they had.
  <1>3. \E R \in Queues :
          /\ Linking(R, queue_head, queue_tail, next)'
          /\ InQueue(R, t, p)
          /\ \A q \in Prios : \A i \in 1 .. Len(Q[q]) : InQueue(R, Q[q][i], q)
          /\ \A q \in Prios : \A i \in 1 .. Len(R[q]) : (q = p /\ R[q][i] = t) \/ InQueue(Q, R[q][i], q)
    <2>1. CASE EnqueueTail(t, p)
      <3>1. PICK n \in Nat : n = Len(Q[p])
        BY NthThread
      <3>2. PICK R \in Queues :
            /\ Linking(R, queue_head', queue_tail', next')
            /\ Len(R[p]) = n + 1 /\ R[p][n + 1] = t
            /\ \A i \in 1 .. n : R[p][i] = Q[p][i]
            /\ \A q \in Prios \ {p} : R[q] = Q[q]
        BY <1>1, <1>2, <2>1, <3>1, AppendedList
      <3>3. \A i \in 1 .. n : i \in 1 .. n + 1
        OBVIOUS
      <3>4. n + 1 \in 1 .. n + 1 /\ \A i \in 1 .. n + 1 : i = n + 1 \/ i \in 1 .. n
        OBVIOUS
      <3>5. InQueue(R, t, p)
        BY <3>2, <3>4 DEF InQueue
      <3>6. ASSUME NEW q \in Prios, NEW i \in 1 .. Len(Q[q]) PROVE InQueue(R, Q[q][i], q)
        BY <3>1, <3>2, <3>3 DEF InQueue
      <3>7. ASSUME NEW q \in Prios, NEW i \in 1 .. Len(R[q]) PROVE (q = p /\ R[q][i] = t) \/ InQueue(Q, R[q][i], q)
        BY <3>1, <3>2, <3>4 DEF InQueue
      <3>8. QED
        BY <3>2, <3>5, <3>6, <3>7
    <2>2. CASE EnqueueHead(t, p)
      <3>1. PICK n \in Nat : n = Len(Q[p])
        BY NthThread
      <3>2. PICK R \in Queues :
            /\ Linking(R, queue_head', queue_tail', next')
            /\ Len(R[p]) = n + 1 /\ R[p][1] = t
            /\ \A i \in 2 .. n + 1 : R[p][i] = Q[p][i - 1]
            /\ \A q \in Prios \ {p} : R[q] = Q[q]
        BY <1>1, <1>2, <2>2, <3>1, PrependedList
      <3>3. \A i \in 1 .. n : i + 1 \in 1 .. n + 1 /\ i + 1 \in 2 .. n + 1 /\ (i + 1) - 1 = i
        OBVIOUS
      <3>4. 1 \in 1 .. n + 1 /\ \A i \in 1 .. n + 1 : i = 1 \/ (i \in 2 .. n + 1 /\ i - 1 \in 1 .. n)
        OBVIOUS
      <3>5. InQueue(R, t, p)
        BY <3>2, <3>4 DEF InQueue
      <3>6. ASSUME NEW q \in Prios, NEW i \in 1 .. Len(Q[q]) PROVE InQueue(R, Q[q][i], q)
        <4>1. CASE q = p
          <5>1. i + 1 \in 1 .. Len(R[q]) /\ R[q][i + 1] = Q[q][i]
            BY <3>1, <3>2, <3>3, <4>1
          <5>2. QED
            BY <5>1 DEF InQueue
        <4>2. CASE q # p
          BY <3>2, <4>2 DEF InQueue
        <4>3. QED
          BY <4>1, <4>2
      <3>7. ASSUME NEW q \in Prios, NEW i \in 1 .. Len(R[q]) PROVE (q = p /\ R[q][i] = t) \/ InQueue(Q, R[q][i], q)
        <4>1. CASE q = p /\ i # 1
          <5>1. i - 1 \in 1 .. Len(Q[q]) /\ R[q][i] = Q[q][i - 1]
            BY <3>1, <3>2, <3>4, <4>1
          <5>2. QED
            BY <5>1 DEF InQueue
        <4>2. CASE q # p
          BY <3>2, <4>2 DEF InQueue
        <4>3. QED
          BY <3>2, <4>1, <4>2
      <3>8. QED
        BY <3>2, <3>5, <3>6, <3>7
    <2>3. QED
      BY <2>1, <2>2
  <1>4. PICK R \in Queues :
          /\ Linking(R, queue_head, queue_tail, next)'
          /\ InQueue(R, t, p)
          /\ \A q \in Prios : \A i \in 1 .. Len(Q[q]) : InQueue(R, Q[q][i], q)
          /\ \A q \in Prios : \A i \in 1 .. Len(R[q]) : (q = p /\ R[q][i] = t) \/ InQueue(Q, R[q][i], q)
    BY <1>3
  <1>5. ASSUME NEW q \in Prios, NEW i \in 1 .. Len(R[q])
        PROVE  state'[R[q][i]] \in {"READY", "DEAD"} /\ priority'[R[q][i]] = q
    <2>1. CASE R[q][i] = t
      BY <1>2, <1>4, <2>1
    <2>2. CASE R[q][i] # t
      <3>1. PICK j \in 1 .. Len(Q[q]) : Q[q][j] = R[q][i]
        BY <1>4, <2>2 DEF InQueue
      <3>2. R[q][i] \in Threads \ {t}
        BY <2>2, NthThread
      <3>3. QED
        BY <1>1, <3>1, <3>2 DEF Contents
    <2>3. QED
      BY <2>1, <2>2
  <1>6. ASSUME NEW u \in Threads, state'[u] = "READY" PROVE InQueue(R, u, priority'[u])
    <2>1. CASE u = t
      BY <1>4, <2>1
    <2>2. CASE u # t
      <3>1. priority[u] \in Prios /\ priority'[u] = priority[u] /\ InQueue(Q, u, priority[u])
        BY <1>1, <1>6, <2>2 DEF Contents, TypeOK
      <3>2. PICK i \in 1 .. Len(Q[priority[u]]) : Q[priority[u]][i] = u
        BY <3>1 DEF InQueue
      <3>3. QED
        BY <1>4, <3>1, <3>2
    <2>3. QED
      BY <2>1, <2>2
  <1>7. Contents(R)'
    BY <1>5, <1>6 DEF Contents, InQueue
  <1>8. QED
    BY <1>4, <1>7 DEF ListInv

\* The first record of queue p leaves it, and is no longer READY.
LEMMA LeftQueue ==
  ASSUME TypeOK, ListInv, NEW p \in Prios, queue_head[p] # Null, Unlink(p),
         priority' = priority,
         state'[queue_head[p]] # "READY", \A u \in Threads \ {queue_head[p]} : state'[u] = state[u]
  PROVE  ListInv'
  <1>1. PICK Q \in Queues : Linking(Q, queue_head, queue_tail, next) /\ Contents(Q)
    BY DEF ListInv
  <1> DEFINE t == queue_head[p]
  <1>2. PICK n \in Nat : n = Len(Q[p])
    BY NthThread
  <1>3. PICK R \in Queues :
        /\ Linking(R, queue_head', queue_tail', next')
        /\ n # 0 /\ Q[p][1] = t /\ Len(R[p]) = n - 1
        /\ \A i \in 1 .. n - 1 : R[p][i] = Q[p][i + 1]
        /\ \A q \in Prios \ {p} : R[q] = Q[q]
    BY <1>1, <1>2, UnlinkedList
  <1>4. ASSUME NEW q \in Prios, NEW i \in 1 .. Len(R[q])
        PROVE  \E j \in 1 .. Len(Q[q]) : R[q][i] = Q[q][j] /\ Q[q][j] # t
    <2>1. CASE q = p
      <3>1. i + 1 \in 1 .. n /\ 1 \in 1 .. n /\ i + 1 # 1 /\ R[q][i] = Q[q][i + 1]
        BY <1>3, <2>1
      <3>2. Q[p][i + 1] # Q[p][1]
        BY <1>1, <1>2, <3>1 DEF Linking
      <3>3. QED
        BY <1>2, <1>3, <2>1, <3>1, <3>2
    <2>2. CASE q # p
      <3>1. 1 \in 1 .. n
        BY <1>3
      <3>2. Q[q][i] # Q[p][1]
        BY <1>1, <1>2, <1>3, <2>2, <3>1 DEF Linking
      <3>3. QED
        BY <1>3, <2>2, <3>2
    <2>3. QED
      BY <2>1, <2>2
  <1>5. ASSUME NEW q \in Prios, NEW i \in 1 .. Len(R[q])
        PROVE  state'[R[q][i]] \in {"READY", "DEAD"} /\ priority'[R[q][i]] = q
    <2>1. PICK j \in 1 .. Len(Q[q]) : R[q][i] = Q[q][j] /\ Q[q][j] # t
      BY <1>4
    <2>2. Q[q][j] \in Threads
      BY NthThread
    <2>3. QED
      BY <1>1, <2>1, <2>2 DEF Contents
  <1>6. ASSUME NEW u \in Threads, state'[u] = "READY" PROVE InQueue(R, u, priority'[u])
    <2>1. u # t /\ state[u] = "READY" /\ priority[u] \in Prios
      BY <1>6 DEF TypeOK
    <2>2. PICK j \in 1 .. Len(Q[priority[u]]) : Q[priority[u]][j] = u
      BY <1>1, <2>1 DEF Contents, InQueue
    <2>3. CASE priority[u] = p
      <3>1. j - 1 \in 1 .. n - 1 /\ (j - 1) + 1 = j
        BY <1>2, <1>3, <2>1, <2>2, <2>3
      <3>2. R[p][j - 1] = u /\ j - 1 \in 1 .. Len(R[p])
        BY <1>3, <2>2, <2>3, <3>1
      <3>3. QED
        BY <2>3, <3>2 DEF InQueue
    <2>4. CASE priority[u] # p
      BY <1>3, <2>1, <2>2, <2>4 DEF InQueue
    <2>5. QED
      BY <2>3, <2>4
  <1>7. Contents(R)'
    BY <1>5, <1>6 DEF Contents, InQueue
  <1>8. Linking(R, queue_head, queue_tail, next)'
    BY <1>3
  <1>9. QED
    BY <1>3, <1>7, <1>8 DEF ListInv

\* dequeue starts at the most urgent queue that is not empty.
LEMMA UrgentFirst ==
  ASSUME TypeOK, ListInv, NEW p \in Prios, FirstQueue(p)
  PROVE  /\ queue_head[p] \in Threads /\ priority[queue_head[p]] = p
         /\ \A t \in Threads : state[t] = "READY" => p <= priority[t]
  <1>1. PICK Q \in Queues : Linking(Q, queue_head, queue_tail, next) /\ Contents(Q)
    BY DEF ListInv
  <1>2. Len(Q[p]) \in Nat \ {0} /\ queue_head[p] = Q[p][1] /\ Q[p][1] \in Threads
    BY <1>1, NthThread DEF FirstQueue, Linking
  <1>3. priority[queue_head[p]] = p
    BY <1>1, <1>2 DEF Contents
  <1>4. ASSUME NEW t \in Threads, state[t] = "READY" PROVE ~(priority[t] < p)
    <2>1. priority[t] \in Prios /\ InQueue(Q, t, priority[t])
      BY <1>1, <1>4 DEF Contents, TypeOK
    <2>2. Len(Q[priority[t]]) # 0 /\ Q[priority[t]][1] # Null
      BY <2>1, NthThread DEF InQueue
    <2>3. queue_head[priority[t]] # Null
      BY <1>1, <2>1, <2>2 DEF Linking
    <2>4. QED
      BY <2>1, <2>3 DEF FirstQueue
  <1>5. QED
    BY <1>2, <1>3, <1>4 DEF TypeOK, Prios

\* No thread is READY that should run instead of the current one; sched_next has been
\* asked for before that stops being true.
NoneMoreUrgent == \A t \in Threads : state[t] = "READY" => PrioOf(fnd_current) <= priority[t]

UrgentInv ==
  /\ mode = "user" => NoneMoreUrgent
  /\ mode \in {"tick", "kernel"} /\ fnd_current # Idle /\ CurrentRunning /\ ~need_resched => NoneMoreUrgent

\* A thread that becomes READY asks for it when it must.
LEMMA UrgedThread ==
  ASSUME TypeOK, UrgentInv, NEW t \in Threads, NEW p \in Prios, Urge(p), t # fnd_current,
         mode' \in {"tick", "kernel"}, mode \in {"user", "tick", "kernel"}, UNCHANGED fnd_current,
         state'[t] = "READY", \A u \in Threads \ {t} : state'[u] = state[u],
         priority'[t] = p, \A u \in Threads \ {t} : priority'[u] = priority[u]
  PROVE  UrgentInv'
  <1> SUFFICES ASSUME fnd_current # Idle, CurrentRunning', ~need_resched',
                      NEW u \in Threads, state'[u] = "READY"
               PROVE  PrioOf(fnd_current)' <= priority'[u]
    BY DEF UrgentInv, NoneMoreUrgent
  <1>1. fnd_current \in Threads \ {t} /\ CurrentRunning
    BY DEF CurrentRunning, TypeOK
  <1>2. PrioOf(fnd_current)' = priority[fnd_current] /\ PrioOf(fnd_current) = priority[fnd_current]
    BY <1>1 DEF PrioOf
  <1>3. ~need_resched /\ ~(p < priority[fnd_current])
    BY <1>2 DEF Urge
  <1>4. NoneMoreUrgent
    BY <1>1, <1>3 DEF UrgentInv
  <1>5. p \in Int /\ priority[fnd_current] \in Int
    BY <1>1 DEF TypeOK, Prios
  <1>6. CASE u = t
    BY <1>2, <1>3, <1>5, <1>6
  <1>7. CASE u # t
    BY <1>2, <1>4, <1>7 DEF NoneMoreUrgent
  <1>8. QED
    BY <1>6, <1>7

QInv == ListInv /\ UrgentInv

\* A step that links nothing, wakes nobody and chooses no thread.
LEMMA CalmStep ==
  ASSUME TypeOK, QInv, UNCHANGED <<queueVars, priority, fnd_current>>,
         \A t \in Threads : state'[t] = "READY" => state[t] = "READY",
         \A t \in Threads : state[t] \in {"READY", "DEAD"} => state'[t] \in {"READY", "DEAD"},
         \/ mode' = "dequeue"
         \/ mode \in {"tick", "kernel"} /\ mode' \in {"tick", "kernel"} /\ (CurrentRunning' => CurrentRunning)
            /\ (need_resched => need_resched')
         \/ mode = "user" /\ mode' \in {"tick", "kernel"}
         \/ mode' = "user" /\ fnd_current # Idle /\ CurrentRunning /\ ~need_resched /\ mode = "kernel"
         \/ mode' = mode /\ UNCHANGED <<state, need_resched>>
  PROVE  QInv'
  <1>1. ListInv'
    BY CalmQueues DEF QInv
  <1>2. NoneMoreUrgent => NoneMoreUrgent'
    BY DEF NoneMoreUrgent, PrioOf
  <1>3. UrgentInv'
    BY <1>2 DEF QInv, UrgentInv, CurrentRunning
  <1>4. QED
    BY <1>1, <1>3 DEF QInv

\* Every step keeps the queues in order and asks for sched_next in time.
LEMMA QueueStep ==
  ASSUME StaleReuse = FALSE, TypeOK, RunInv, QInv, [Next]_vars
  PROVE  QInv'
  <1> USE ConstantTypes
  <1>c. ASSUME NEW t \in Threads, NEW p \in Procs, NEW q \in Prios, mode = "user", AllocThread(t), Create(t, p, q)
        PROVE  QInv'
    <2>1. /\ ~Linked(t) /\ EnqueueTail(t, q) /\ Urge(q) /\ t # fnd_current /\ mode' = "kernel"
          /\ UNCHANGED fnd_current
      BY <1>c DEF Create, AllocThread, Allocatable
    <2>2. /\ state'[t] = "READY" /\ \A u \in Threads \ {t} : state'[u] = state[u]
          /\ priority'[t] = q /\ \A u \in Threads \ {t} : priority'[u] = priority[u]
      BY <1>c DEF Create, TypeOK
    <2>3. ListInv'
      BY <2>1, <2>2, QueuedThread DEF QInv
    <2>4. UrgentInv'
      BY <1>c, <2>1, <2>2, UrgedThread DEF QInv
    <2>5. QED
      BY <2>3, <2>4 DEF QInv
  <1>1. CASE OtherTrap
    BY <1>1, CalmStep DEF OtherTrap, recVars
  <1>2. CASE Yield
    BY <1>2, CalmStep DEF Yield, InThread, recVars
  <1>3. ASSUME NEW n \in Timeouts \cup {Forever}, Block(n) PROVE QInv'
    <2>1. fnd_current \in Threads /\ state[fnd_current] = "RUNNING"
      BY <1>3 DEF Block, InThread, RunInv, CurrentRunning, TypeOK
    <2>2. /\ \A t \in Threads : state'[t] = "READY" => state[t] = "READY"
          /\ \A t \in Threads : state[t] \in {"READY", "DEAD"} => state'[t] \in {"READY", "DEAD"}
      BY <1>3, <2>1 DEF Block, TypeOK
    <2>3. QED
      BY <1>3, <2>2, CalmStep DEF Block, InThread, recVars
  <1>4. CASE ThreadCreate
    <2>1. PICK t \in Threads : AllocThread(t) /\ Create(t, proc[fnd_current], priority[fnd_current])
      BY <1>4 DEF ThreadCreate
    <2>2. proc[fnd_current] \in Procs /\ priority[fnd_current] \in Prios /\ mode = "user"
      BY <1>4 DEF ThreadCreate, InThread, TypeOK
    <2>3. QED
      BY <1>c, <2>1, <2>2
  <1>5. ASSUME NEW p \in Procs, NEW q \in Prios, ProcSpawn(p, q) PROVE QInv'
    BY <1>5, <1>c DEF ProcSpawn, InThread
  <1>6. ASSUME NEW t \in Threads, CloseThreadHandle(t) PROVE QInv'
    BY <1>6, CalmStep DEF CloseThreadHandle, InThread
  <1>7. CASE ThreadExit
    <2>1. fnd_current \in Threads /\ state[fnd_current] = "RUNNING"
      BY <1>7 DEF ThreadExit, InThread, RunInv, CurrentRunning, TypeOK
    <2>2. /\ \A t \in Threads : state'[t] = "READY" => state[t] = "READY"
          /\ \A t \in Threads : state[t] \in {"READY", "DEAD"} => state'[t] \in {"READY", "DEAD"}
      BY <1>7, <2>1 DEF ThreadExit, TypeOK
    <2>3. QED
      BY <1>7, <2>2, CalmStep DEF ThreadExit, InThread, recVars
  <1>8. ASSUME NEW p \in Procs, KillProc(p) PROVE QInv'
    <2>1. /\ \A t \in Threads : state'[t] = "READY" => state[t] = "READY"
          /\ \A t \in Threads : state[t] \in {"READY", "DEAD"} => state'[t] \in {"READY", "DEAD"}
      BY <1>8 DEF KillProc, TypeOK
    <2>2. QED
      BY <1>8, <2>1, CalmStep DEF KillProc, InThread
  <1>9. CASE TimerIrq
    BY <1>9, CalmStep DEF TimerIrq, recVars
  <1>10. ASSUME NEW t \in Threads, WakeByHandler(t) \/ TimedOut(t) PROVE QInv'
    <2>1. Wake(t) /\ mode \in {"tick", "kernel"} /\ mode' = mode
      BY <1>10 DEF WakeByHandler, TimedOut
    <2>2. /\ priority[t] \in Prios /\ state[t] = "BLOCKED" /\ EnqueueTail(t, priority[t]) /\ Urge(priority[t])
          /\ UNCHANGED <<fnd_current, priority>>
      BY <2>1 DEF Wake, TypeOK, recVars
    <2>3. /\ state'[t] = "READY" /\ \A u \in Threads \ {t} : state'[u] = state[u]
          /\ priority'[t] = priority[t] /\ \A u \in Threads \ {t} : priority'[u] = priority[u]
      BY <2>1, <2>2 DEF Wake, TypeOK
    <2>4. ListInv'
      BY <2>2, <2>3, QueuedThread DEF QInv
    <2>5. CASE t # fnd_current
      <3>1. UrgentInv'
        BY <2>1, <2>2, <2>3, <2>5, UrgedThread DEF QInv
      <3>2. QED
        BY <2>4, <3>1 DEF QInv
    \* The thread that has just blocked is woken before sched_next.
    <2>6. CASE t = fnd_current
      <3>1. ~CurrentRunning' /\ mode' # "user"
        BY <2>1, <2>2, <2>3, <2>6 DEF CurrentRunning
      <3>2. QED
        BY <2>4, <3>1 DEF QInv, UrgentInv
    <2>7. QED
      BY <2>5, <2>6
  <1>11. CASE TickEnd
    <2>1. /\ UNCHANGED <<queueVars, priority, fnd_current, state>> /\ mode = "tick" /\ mode' = "kernel"
          /\ need_resched => need_resched'
      BY <1>11 DEF TickEnd, recVars
    <2>2. CurrentRunning' => CurrentRunning
      BY <2>1 DEF CurrentRunning
    <2>3. QED
      BY <2>1, <2>2, CalmStep
  <1>12. CASE Resume
    BY <1>12, CalmStep DEF Resume, recVars
  <1>13. CASE Requeue
    <2>1. /\ fnd_current \in Threads /\ priority[fnd_current] \in Prios /\ state[fnd_current] = "RUNNING"
          /\ mode' = "dequeue" /\ UNCHANGED priority
      BY <1>13 DEF Requeue, CurrentRunning, TypeOK, recVars
    <2>2. EnqueueTail(fnd_current, priority[fnd_current]) \/ EnqueueHead(fnd_current, priority[fnd_current])
      BY <1>13 DEF Requeue
    <2>3. state'[fnd_current] = "READY" /\ \A u \in Threads \ {fnd_current} : state'[u] = state[u]
      BY <1>13, <2>1 DEF Requeue, TypeOK
    <2>4. ListInv'
      BY <2>1, <2>2, <2>3, QueuedThread DEF QInv
    <2>5. QED
      BY <2>1, <2>4 DEF QInv, UrgentInv
  <1>14. CASE Leave
    BY <1>14, CalmStep DEF Leave, recVars
  <1>15. CASE DispatchIdle
    <2>1. UNCHANGED <<queueVars, priority, state>> /\ mode' = "user" /\ fnd_current' = Idle
      BY <1>15 DEF DispatchIdle, recVars
    <2>2. ListInv'
      BY <2>1, CalmQueues DEF QInv
    <2>3. ASSUME NEW t \in Threads, state[t] = "READY" PROVE FALSE
      <3>1. PICK Q \in Queues : Linking(Q, queue_head, queue_tail, next) /\ Contents(Q)
        BY DEF QInv, ListInv
      <3>2. priority[t] \in Prios /\ InQueue(Q, t, priority[t])
        BY <2>3, <3>1 DEF Contents, TypeOK
      <3>3. Len(Q[priority[t]]) # 0 /\ Q[priority[t]][1] # Null
        BY <3>2, NthThread DEF InQueue
      <3>4. QED
        BY <1>15, <3>1, <3>2, <3>3 DEF DispatchIdle, Linking
    <2>4. UrgentInv'
      BY <2>1, <2>3 DEF UrgentInv, NoneMoreUrgent
    <2>5. QED
      BY <2>2, <2>4 DEF QInv
  <1>16. ASSUME NEW p \in Prios, Skip(p) PROVE QInv'
    <2>1. /\ queue_head[p] # Null /\ Unlink(p) /\ priority' = priority /\ state' = state
          /\ state[queue_head[p]] # "READY" /\ mode' = "dequeue"
      BY <1>16 DEF Skip, FirstQueue, recVars
    <2>2. ListInv'
      BY <2>1, LeftQueue DEF QInv
    <2>3. QED
      BY <2>1, <2>2 DEF QInv, UrgentInv
  <1>17. ASSUME NEW p \in Prios, Dispatch(p) PROVE QInv'
    <2> DEFINE t == queue_head[p]
    <2>1. /\ t \in Threads /\ t # Null /\ priority[t] = p
          /\ \A u \in Threads : state[u] = "READY" => p <= priority[u]
      BY <1>17, UrgentFirst DEF Dispatch, FirstQueue, QInv
    <2>2. /\ Unlink(p) /\ priority' = priority /\ state' = [state EXCEPT ![t] = "RUNNING"]
          /\ fnd_current' = t /\ mode' = "user"
      BY <1>17 DEF Dispatch, recVars
    <2>3. state'[t] = "RUNNING" /\ \A u \in Threads \ {t} : state'[u] = state[u]
      BY <2>1, <2>2 DEF TypeOK
    <2>4. ListInv'
      BY <2>1, <2>2, <2>3, LeftQueue DEF QInv
    <2> HIDE DEF t
    <2>5. PrioOf(fnd_current)' = p
      BY <2>1, <2>2 DEF PrioOf
    <2>6. UrgentInv'
      BY <2>1, <2>2, <2>3, <2>5 DEF UrgentInv, NoneMoreUrgent
    <2>7. QED
      BY <2>4, <2>6 DEF QInv
  <1>18. CASE UNCHANGED vars
    BY <1>18, CalmStep DEF vars, recVars
  <1>19. QED
    BY <1>1, <1>2, <1>3, <1>4, <1>5, <1>6, <1>7, <1>8, <1>9, <1>10, <1>11, <1>12, <1>13,
       <1>14, <1>15, <1>16, <1>17, <1>18 DEF Next, Kernel, Trap

\* At boot the queues hold the first thread.
LEMMA InitialQueues ==
  ASSUME Init
  PROVE  \E p \in Prios : \E Q \in Queues :
           /\ Q = [r \in Prios |-> IF r = p THEN <<1>> ELSE <<>>]
           /\ Linking(Q, queue_head, queue_tail, next) /\ Contents(Q)
           /\ 1 \in Threads /\ priority[1] = p
  <1>1. PICK p \in Prios :
          /\ state = [t \in Threads |-> IF t = 1 THEN "READY" ELSE "FREE"]
          /\ priority = [t \in Threads |-> IF t = 1 THEN p ELSE 0]
          /\ next = [t \in Threads |-> Null]
          /\ queue_head = [r \in Prios |-> IF r = p THEN 1 ELSE Null]
          /\ queue_tail = [r \in Prios |-> IF r = p THEN 1 ELSE Null]
    BY DEF Init
  <1>2. 1 \in Threads /\ fnd_current = Idle /\ mode = "kernel"
    BY DEF Init, Threads
  <1> DEFINE Q == [r \in Prios |-> IF r = p THEN <<1>> ELSE <<>>]
  <1>3. /\ Q \in Queues /\ Q[p] = <<1>> /\ Len(Q[p]) = 1 /\ Q[p][1] = 1
        /\ \A r \in Prios : r # p => Len(Q[r]) = 0
    <2>1. <<1>> \in Seq(Threads) /\ <<>> \in Seq(Threads) /\ Len(<<1>>) = 1 /\ <<1>>[1] = 1 /\ Len(<<>>) = 0
      BY <1>2
    <2>2. QED
      BY <2>1 DEF Queues
  <1> HIDE DEF Q
  <1>4. \A r \in Prios : \A i \in 1 .. Len(Q[r]) : r = p /\ i = 1 /\ i = Len(Q[r]) /\ Q[r][i] = 1
    <2> SUFFICES ASSUME NEW r \in Prios, NEW i \in 1 .. Len(Q[r])
                 PROVE  r = p /\ i = 1 /\ i = Len(Q[r]) /\ Q[r][i] = 1
      OBVIOUS
    <2>1. CASE r = p
      <3>1. Len(Q[r]) = 1 /\ Q[r][1] = 1
        BY <1>3, <2>1
      <3>2. i \in 1 .. 1
        BY <3>1
      <3>3. QED
        BY <2>1, <3>1, <3>2
    <2>2. CASE r # p
      <3>1. i \in 1 .. 0
        BY <1>3, <2>2
      <3>2. QED
        BY <3>1
    <2>3. QED
      BY <2>1, <2>2
  <1>5. Linking(Q, queue_head, queue_tail, next)
    <2>1. \A r \in Prios : /\ queue_head[r] = IF Len(Q[r]) = 0 THEN Null ELSE Q[r][1]
                           /\ queue_tail[r] = IF Len(Q[r]) = 0 THEN Null ELSE Q[r][Len(Q[r])]
      BY <1>1, <1>3, SMTT(30)
    <2>2. \A r \in Prios : \A i \in 1 .. Len(Q[r]) : next[Q[r][i]] = Null
      BY <1>1, <1>2, <1>4
    <2>3. QED
      BY <1>4, <2>1, <2>2 DEF Linking
  <1>6. Contents(Q)
    <2>1. InQueue(Q, 1, p)
      BY <1>3 DEF InQueue
    <2>2. QED
      BY <1>1, <1>2, <1>4, <2>1 DEF Contents
  <1>7. Q = [r \in Prios |-> IF r = p THEN <<1>> ELSE <<>>] /\ priority[1] = p
    BY <1>1, <1>2 DEF Q
  <1>8. QED
    BY <1>2, <1>3, <1>5, <1>6, <1>7

LEMMA QueueInvHolds == ASSUME StaleReuse = FALSE PROVE Spec => []QInv
  <1>1. Init => QInv
    <2> SUFFICES ASSUME Init PROVE QInv
      OBVIOUS
    <2>1. ListInv
      BY InitialQueues DEF ListInv
    <2>2. mode = "kernel" /\ fnd_current = Idle
      BY DEF Init
    <2>3. QED
      BY <2>1, <2>2 DEF QInv, UrgentInv
  <1>2. TypeOK /\ RunInv /\ QInv /\ [Next]_vars => QInv'
    BY QueueStep
  <1>3. QED
    BY <1>1, <1>2, TypeCorrect, RunInvHolds, PTL DEF Spec

-----------------------------------------------------------------------------
(* What OnQueue finds by walking along the links.                            *)

\* A queue has no more entries than there are thread records.
LEMMA ShortQueue ==
  ASSUME NEW L \in Seq(Threads), \A i, j \in 1 .. Len(L) : L[i] = L[j] => i = j
  PROVE  Len(L) \in 0 .. NThreads
  <1>1. \A n \in Nat : IsFiniteSet(1 .. n) /\ Cardinality(1 .. n) = n
    <2>1. \A n \in Nat : IsFiniteSet(1 .. n) /\ Cardinality(1 .. n) = IF 1 > n THEN 0 ELSE n - 1 + 1
      BY FS_Interval
    <2>2. QED
      BY <2>1
  <1>2. Len(L) \in Nat
    BY LenProperties
  <1>3. Cardinality(Threads) = NThreads /\ IsFiniteSet(Threads)
    BY <1>1 DEF Threads
  <1> DEFINE f == [i \in 1 .. Len(L) |-> L[i]]
  <1>4. f \in Injection(1 .. Len(L), Threads)
    BY DEF Injection, IsInjective
  <1>5. Injection(1 .. Len(L), Threads) # {}
    BY <1>4
  <1>6. Cardinality(1 .. Len(L)) <= Cardinality(Threads)
    BY <1>1, <1>2, <1>3, <1>5, FS_Injection
  <1>7. QED
    BY <1>1, <1>2, <1>3, <1>6

\* A set of numbers up to n that holds 0 and, with each one below n, the next, holds all up to n.
LEMMA AllUpTo ==
  ASSUME NEW n \in Nat, NEW S, 0 \in S, \A i \in 0 .. n : i < n /\ i \in S => i + 1 \in S
  PROVE  0 .. n \subseteq S
  <1> DEFINE Out == {i \in 0 .. n : i \notin S}
             R == OpToRel(<, Nat)
  <1>1. SUFFICES ASSUME Out # {} PROVE FALSE
    OBVIOUS
  <1>2. IsWellFoundedOn(R, Nat)
    BY NatLessThanWellFounded
  <1>3. \A j, k \in Nat : k < j => <<k, j>> \in R
    BY DEF OpToRel
  <1>4. Out \subseteq Nat
    OBVIOUS
  <1> HIDE DEF R
  <1>5. PICK j \in Out : \A k \in Out : ~(<<k, j>> \in R)
    <2> HIDE DEF Out
    <2>1. QED
      BY <1>1, <1>2, <1>4, WFMin
  <1>6. \A k \in Out : ~(k < j)
    <2> HIDE DEF Out
    <2>1. QED
      BY <1>3, <1>4, <1>5
  <1>7. j \in 1 .. n /\ j - 1 \in 0 .. n /\ j - 1 \in S
    BY <1>6
  <1>8. QED
    BY <1>5, <1>7

\* Walk and List of any head and links.
WalkFrom(head, links) ==
  LET at[n \in 0 .. NThreads] ==
        IF n = 0 THEN head
        ELSE IF at[n - 1] = Null THEN Null ELSE links[at[n - 1]]
  IN at
Visited(head, links) == {WalkFrom(head, links)[n] : n \in 0 .. NThreads} \ {Null}
ListFrom(head, links) == [i \in 1 .. Cardinality(Visited(head, links)) |-> WalkFrom(head, links)[i - 1]]

\* Following the links from the head of a queue visits its entries in order.
LEMMA WalkVisits ==
  ASSUME NEW Q \in Queues, NEW heads, NEW tails, NEW links, Linking(Q, heads, tails, links), NEW p \in Prios
  PROVE  /\ Len(Q[p]) \in 0 .. NThreads
         /\ \A n \in 0 .. NThreads : WalkFrom(heads[p], links)[n] = IF n < Len(Q[p]) THEN Q[p][n + 1] ELSE Null
  <1> DEFINE Second(at, n) == IF at[n - 1] = Null THEN Null ELSE links[at[n - 1]]
             IsWalk(at) == at = [n \in 0 .. NThreads |-> IF n = 0 THEN heads[p] ELSE Second(at, n)]
             w == [n \in 0 .. NThreads |-> IF n < Len(Q[p]) THEN Q[p][n + 1] ELSE Null]
  <1>1. PICK m \in Nat : m = Len(Q[p])
    BY NthThread
  <1>2. \A k \in 1 .. m : Q[p][k] \in Threads /\ Q[p][k] # Null
    BY <1>1, NthThread
  <1>3. m \in 0 .. NThreads
    <2>1. Q[p] \in Seq(Threads) /\ \A k, l \in 1 .. Len(Q[p]) : Q[p][k] = Q[p][l] => k = l
      BY NthThread DEF Linking
    <2>2. QED
      BY <1>1, <2>1, ShortQueue
  \* The entries solve the equation of the walk ...
  <1>4. /\ w[0] = heads[p]
        /\ \A n \in 1 .. NThreads : w[n] = Second(w, n)
    <2>0. \A n \in 0 .. NThreads : w[n] = IF n < m THEN Q[p][n + 1] ELSE Null
      BY <1>1
    <2> HIDE DEF w
    <2>1. w[0] = heads[p]
      <3>1. 0 \in 0 .. NThreads /\ 0 + 1 = 1 /\ (m = 0 <=> ~(0 < m))
        OBVIOUS
      <3>2. QED
        BY <1>1, <2>0, <3>1 DEF Linking
    <2>2. ASSUME NEW n \in 1 .. NThreads PROVE w[n] = Second(w, n)
      <3>1. n - 1 \in 0 .. NThreads /\ n \in 0 .. NThreads /\ (n - 1) + 1 = n
        OBVIOUS
      <3>2. CASE n - 1 < m
        <4>1. w[n - 1] = Q[p][n] /\ n \in 1 .. m
          BY <2>0, <3>1, <3>2
        <4>2. w[n - 1] # Null /\ links[Q[p][n]] = IF n = m THEN Null ELSE Q[p][n + 1]
          BY <1>1, <1>2, <4>1 DEF Linking
        <4>3. QED
          BY <2>0, <3>1, <4>1, <4>2
      <3>3. CASE ~(n - 1 < m)
        <4>1. w[n - 1] = Null /\ ~(n < m)
          BY <2>0, <3>1, <3>3
        <4>2. QED
          BY <2>0, <3>1, <4>1
      <3>4. QED
        BY <3>2, <3>3
    <2>3. QED
      BY <2>1, <2>2
  <1>5. IsWalk(w)
    <2> DEFINE v == [n \in 0 .. NThreads |-> IF n = 0 THEN heads[p] ELSE Second(w, n)]
    <2>1. \A n \in 0 .. NThreads : w[n] = v[n]
      <3> HIDE DEF w, Second
      <3>1. QED
        BY <1>4
    <2>2. w = v
      <3> HIDE DEF Second
      <3>1. QED
        BY <2>1
    <2>3. QED
      BY <2>2
  \* ... and nothing else does.
  <1>6. ASSUME NEW at, IsWalk(at) PROVE at = w
    <2> DEFINE S == {n \in 0 .. NThreads : at[n] = w[n]}
    <2>1. /\ at[0] = heads[p] /\ \A n \in 1 .. NThreads : at[n] = Second(at, n)
          /\ at = [n \in 0 .. NThreads |-> at[n]]
      <3> HIDE DEF Second
      <3>1. QED
        BY <1>6
    <2> HIDE DEF w, IsWalk
    <2>2. 0 \in S
      <3>1. at[0] = w[0] /\ 0 \in 0 .. NThreads
        BY <1>4, <2>1
      <3>2. QED
        BY <3>1
    <2>3. \A n \in 0 .. NThreads : n < NThreads /\ n \in S => n + 1 \in S
      <3> SUFFICES ASSUME NEW n \in 0 .. NThreads, n < NThreads, at[n] = w[n] PROVE at[n + 1] = w[n + 1]
        OBVIOUS
      <3>1. n + 1 \in 1 .. NThreads /\ (n + 1) - 1 = n
        OBVIOUS
      <3>2. Second(at, n + 1) = Second(w, n + 1)
        BY <3>1
      <3> HIDE DEF Second
      <3>3. QED
        BY <1>4, <2>1, <3>1, <3>2
    <2> HIDE DEF S
    <2>4. 0 .. NThreads \subseteq S
      BY <2>2, <2>3, AllUpTo
    <2>5. \A n \in 0 .. NThreads : at[n] = w[n]
      BY <2>4 DEF S
    <2>6. w = [n \in 0 .. NThreads |-> w[n]]
      BY DEF w
    <2>7. QED
      BY <2>1, <2>5, <2>6
  <1>7. WalkFrom(heads[p], links) = w
    <2>1. WalkFrom(heads[p], links) = CHOOSE at : IsWalk(at)
      BY DEF WalkFrom
    <2>2. IsWalk(CHOOSE at : IsWalk(at))
      <3> HIDE DEF w, IsWalk
      <3>1. QED
        BY <1>5
    <2>3. QED
      BY <1>6, <2>1, <2>2
  <1>8. \A n \in 0 .. NThreads : w[n] = IF n < Len(Q[p]) THEN Q[p][n + 1] ELSE Null
    OBVIOUS
  <1>9. QED
    <2> HIDE DEF w
    <2>1. QED
      BY <1>1, <1>3, <1>7, <1>8

LEMMA ListIsQueue ==
  ASSUME NEW Q \in Queues, NEW heads, NEW tails, NEW links, Linking(Q, heads, tails, links), NEW p \in Prios
  PROVE  ListFrom(heads[p], links) = Q[p]
  <1>1. PICK m \in 0 .. NThreads : m = Len(Q[p])
    BY WalkVisits
  <1>2. PICK w : /\ w = WalkFrom(heads[p], links)
                 /\ \A n \in 0 .. NThreads : w[n] = IF n < m THEN Q[p][n + 1] ELSE Null
    BY <1>1, WalkVisits
  <1>3. PICK L \in Seq(Threads) : L = Q[p] /\ Len(L) = m /\ \A i \in 1 .. m : L[i] \in Threads /\ L[i] # Null
    BY <1>1, NthThread
  <1>4. \A i, j \in 1 .. m : L[i] = L[j] => i = j
    BY <1>1, <1>3 DEF Linking
  <1>5. \A i \in 1 .. m : w[i - 1] = L[i]
    <2>1. \A i \in 1 .. m : i - 1 \in 0 .. NThreads /\ i - 1 < m /\ (i - 1) + 1 = i
      OBVIOUS
    <2>2. QED
      BY <1>2, <1>3, <2>1
  <1> DEFINE Seen == {L[i] : i \in 1 .. m}
  <1>6. Visited(heads[p], links) = Seen
    <2>1. Visited(heads[p], links) = {w[n] : n \in 0 .. NThreads} \ {Null}
      BY <1>2 DEF Visited
    <2>2. ASSUME NEW n \in 0 .. NThreads, w[n] # Null PROVE w[n] \in Seen
      <3>1. n < m /\ n + 1 \in 1 .. m /\ w[n] = L[n + 1]
        BY <1>2, <1>3, <2>2
      <3>2. QED
        BY <3>1
    <2>3. ASSUME NEW i \in 1 .. m PROVE L[i] \in {w[n] : n \in 0 .. NThreads} \ {Null}
      <3>1. i - 1 \in 0 .. NThreads
        OBVIOUS
      <3>2. QED
        BY <1>3, <1>5, <3>1
    <2>4. QED
      BY <2>1, <2>2, <2>3
  <1>7. Cardinality(Seen) = m
    <2> DEFINE f == [i \in 1 .. m |-> L[i]]
    <2>1. f \in Bijection(1 .. m, Seen)
      BY <1>4 DEF Bijection, Injection, Surjection, IsInjective
    <2>2. IsFiniteSet(1 .. m) /\ Cardinality(1 .. m) = m
      <3>1. IsFiniteSet(1 .. m) /\ Cardinality(1 .. m) = IF 1 > m THEN 0 ELSE m - 1 + 1
        BY FS_Interval
      <3>2. QED
        BY <3>1
    <2>3. Bijection(1 .. m, Seen) # {}
      BY <2>1
    <2> HIDE DEF Seen
    <2>4. PICK D : D = 1 .. m
      OBVIOUS
    <2>5. IsFiniteSet(D) /\ Cardinality(D) = m /\ ExistsBijection(D, Seen)
      BY <2>2, <2>3, <2>4 DEF ExistsBijection
    <2>6. Cardinality(Seen) = Cardinality(D)
      BY <2>5, FS_Bijection
    <2>7. QED
      BY <2>5, <2>6
  <1> HIDE DEF Seen
  <1>8. ListFrom(heads[p], links) = [i \in 1 .. m |-> w[i - 1]]
    BY <1>2, <1>6, <1>7 DEF ListFrom
  <1>9. L = [i \in 1 .. m |-> L[i]]
    BY <1>3, SeqDef
  <1>10. QED
    BY <1>3, <1>5, <1>8, <1>9

\* As long as no record is reused while it is linked, every READY thread is found by
\* dequeue, whatever is queued at either end, preempted, killed and unlinked, for any
\* number of threads and priorities.
THEOREM ReadyIsFound == ASSUME StaleReuse = FALSE PROVE Spec => []ReadyIsQueued
  <1>1. TypeOK /\ QInv => ReadyIsQueued
    <2> SUFFICES ASSUME TypeOK, QInv, NEW t \in Threads, state[t] = "READY" PROVE t \in OnQueue(priority[t])
      BY DEF ReadyIsQueued
    <2>1. PICK Q \in Queues : Linking(Q, queue_head, queue_tail, next) /\ Contents(Q)
      BY DEF QInv, ListInv
    <2>2. priority[t] \in Prios
      BY DEF TypeOK
    <2>3. PICK i \in 1 .. Len(Q[priority[t]]) : Q[priority[t]][i] = t
      BY <2>1 DEF Contents, InQueue
    <2>4. PICK w : /\ w = Walk(priority[t])
                   /\ \A n \in 0 .. NThreads : n < Len(Q[priority[t]]) => w[n] = Q[priority[t]][n + 1]
      <3>1. Walk(priority[t]) = WalkFrom(queue_head[priority[t]], next)
        BY DEF Walk, WalkFrom
      <3>2. QED
        BY <2>1, <2>2, <3>1, WalkVisits
    <2>5. i - 1 \in 0 .. NThreads /\ i - 1 < Len(Q[priority[t]]) /\ (i - 1) + 1 = i
      BY <2>1, <2>2, WalkVisits
    <2>6. w[i - 1] = t
      BY <2>3, <2>4, <2>5
    <2>7. QED
      BY <2>4, <2>5, <2>6 DEF OnQueue, Threads, Null
  <1>2. QED
    BY <1>1, TypeCorrect, QueueInvHolds, PTL

\* ... and user code never runs while a more urgent thread is READY.
THEOREM MostUrgentFirst == ASSUME StaleReuse = FALSE PROVE Spec => []MostUrgentRuns
  <1>1. QInv => MostUrgentRuns
    BY DEF QInv, UrgentInv, NoneMoreUrgent, MostUrgentRuns
  <1>2. QED
    BY <1>1, QueueInvHolds, PTL

-----------------------------------------------------------------------------
(* Subsequences.                                                             *)

\* The recursive definition of KeptOf is an equation that has a solution.
LEMMA KeptSteps ==
  ASSUME NEW s, Len(s) \in Nat, NEW S
  PROVE  /\ KeptOf(s, S)[0] = <<>>
         /\ \A i \in 1 .. Len(s) :
              KeptOf(s, S)[i] = IF s[i] \in S THEN Append(KeptOf(s, S)[i - 1], s[i]) ELSE KeptOf(s, S)[i - 1]
  <1> DEFINE Step(f, i) == IF s[i] \in S THEN Append(f[i - 1], s[i]) ELSE f[i - 1]
             Keeps(f, m) == f = [i \in 0 .. m |-> IF i = 0 THEN <<>> ELSE Step(f, i)]
             T == {m \in 0 .. Len(s) : \E f : Keeps(f, m)}
             k == CHOOSE f : Keeps(f, Len(s))
  <1>1. PICK n \in Nat : n = Len(s)
    OBVIOUS
  <1>2. KeptOf(s, S) = k
    BY DEF KeptOf
  <1>3. \E f : Keeps(f, n)
    <2> HIDE DEF Step
    <2>1. 0 \in T
      <3> DEFINE f == [i \in 0 .. 0 |-> <<>>]
      <3>1. Keeps(f, 0)
        OBVIOUS
      <3>2. 0 \in 0 .. Len(s)
        BY <1>1
      <3> HIDE DEF f, Keeps
      <3>3. QED
        BY <3>1, <3>2
    <2>2. ASSUME NEW m \in 0 .. n, m < n, m \in T PROVE m + 1 \in T
      <3>1. PICK f : Keeps(f, m)
        BY <2>2
      <3> DEFINE g == [i \in 0 .. m + 1 |-> IF i = 0 THEN <<>> ELSE Step(f, i)]
      <3>2. \A i \in 0 .. m : g[i] = f[i]
        BY <3>1
      <3>3. \A i \in 1 .. m + 1 : Step(g, i) = Step(f, i)
        <4>1. \A i \in 1 .. m + 1 : g[i - 1] = f[i - 1]
          <5>1. \A i \in 1 .. m + 1 : i - 1 \in 0 .. m
            OBVIOUS
          <5> HIDE DEF g
          <5>2. QED
            BY <3>2, <5>1
        <4> HIDE DEF g
        <4>2. QED
          BY <4>1 DEF Step
      <3>4. Keeps(g, m + 1)
        <4> DEFINE h == [i \in 0 .. m + 1 |-> IF i = 0 THEN <<>> ELSE Step(g, i)]
        <4>1. ASSUME NEW i \in 0 .. m + 1 PROVE g[i] = h[i]
          <5>1. CASE i = 0
            BY <5>1
          <5>2. CASE i \in 1 .. m + 1
            <6>1. g[i] = Step(f, i) /\ h[i] = Step(g, i)
              BY <5>2
            <6> HIDE DEF g, h
            <6>2. QED
              BY <3>3, <5>2, <6>1
          <5>3. QED
            BY <5>1, <5>2
        <4>2. g = h
          BY <4>1
        <4>3. QED
          BY <4>2
      <3>5. m + 1 \in 0 .. n
        BY <2>2
      <3> HIDE DEF g, Keeps
      <3>6. QED
        BY <1>1, <3>4, <3>5
    <2>3. n \in T
      <3> HIDE DEF T
      <3>1. 0 .. n \subseteq T
        BY <1>1, <2>1, <2>2, AllUpTo
      <3>2. QED
        BY <1>1, <3>1
    <2>4. QED
      BY <1>1, <2>3
  <1>4. Keeps(k, n)
    <2> HIDE DEF Keeps
    <2>1. QED
      BY <1>1, <1>3
  <1> HIDE DEF k
  <1>5. k[0] = <<>> /\ \A i \in 1 .. n : k[i] = Step(k, i)
    <2> HIDE DEF Step
    <2>1. k = [i \in 0 .. n |-> IF i = 0 THEN <<>> ELSE Step(k, i)]
      BY <1>4
    <2> DEFINE h == [i \in 0 .. n |-> IF i = 0 THEN <<>> ELSE Step(k, i)]
    <2>2. h[0] = <<>> /\ \A i \in 1 .. n : h[i] = Step(k, i)
      BY <1>1
    <2>3. k = h
      BY <2>1
    <2> HIDE DEF h
    <2>4. QED
      BY <2>2, <2>3
  <1>6. QED
    BY <1>1, <1>2, <1>5

\* What is kept of the first n entries: those in S.
LEMMA KeptEntries ==
  ASSUME NEW s \in Seq(Threads), NEW S, NEW n \in 0 .. Len(s)
  PROVE  /\ KeptOf(s, S)[n] \in Seq(Threads)
         /\ \A j \in 1 .. Len(KeptOf(s, S)[n]) :
              KeptOf(s, S)[n][j] \in S /\ \E i \in 1 .. n : s[i] = KeptOf(s, S)[n][j]
         /\ \A i \in 1 .. n : s[i] \in S => \E j \in 1 .. Len(KeptOf(s, S)[n]) : KeptOf(s, S)[n][j] = s[i]
  <1> DEFINE k == KeptOf(s, S)
             Good(m) == /\ k[m] \in Seq(Threads)
                        /\ \A j \in 1 .. Len(k[m]) : k[m][j] \in S /\ \E i \in 1 .. m : s[i] = k[m][j]
                        /\ \A i \in 1 .. m : s[i] \in S => \E j \in 1 .. Len(k[m]) : k[m][j] = s[i]
             T == {m \in 0 .. Len(s) : Good(m)}
  <1>1. Len(s) \in Nat /\ \A i \in 1 .. Len(s) : s[i] \in Threads
    BY LenProperties, ElementOfSeq
  <1>2. k[0] = <<>> /\ \A i \in 1 .. Len(s) : k[i] = IF s[i] \in S THEN Append(k[i - 1], s[i]) ELSE k[i - 1]
    BY <1>1, KeptSteps
  <1> HIDE DEF k
  <1>3. 0 \in T
    <2>1. k[0] \in Seq(Threads) /\ Len(k[0]) = 0 /\ 0 \in 0 .. Len(s)
      BY <1>1, <1>2, EmptySeq
    <2>2. QED
      BY <2>1
  <1>4. ASSUME NEW m \in 0 .. Len(s), m < Len(s), m \in T PROVE m + 1 \in T
    <2>1. m + 1 \in 1 .. Len(s) /\ (m + 1) - 1 = m /\ m + 1 \in 0 .. Len(s) /\ m \in Nat
          /\ (\A i \in 1 .. m : i \in 1 .. m + 1) /\ (\A i \in 1 .. m + 1 : i = m + 1 \/ i \in 1 .. m) /\ m + 1 \in 1 .. m + 1
      BY <1>1, <1>4
    <2>2. Good(m)
      BY <1>4
    <2>3. CASE s[m + 1] \notin S
      <3>1. k[m + 1] = k[m]
        BY <1>2, <2>1, <2>3
      <3>2. Good(m + 1)
        BY <2>1, <2>2, <2>3, <3>1
      <3>3. QED
        BY <2>1, <3>2
    <2>4. CASE s[m + 1] \in S
      <3>1. PICK x \in Threads : x = s[m + 1]
        BY <1>1, <2>1
      <3>2. PICK a \in Seq(Threads) : a = k[m]
        BY <2>2
      <3>3. k[m + 1] = Append(a, x)
        BY <1>2, <2>1, <2>4, <3>1, <3>2
      <3>4. PICK b \in Seq(Threads) : /\ b = k[m + 1] /\ Len(b) = Len(a) + 1 /\ b[Len(a) + 1] = x
                                      /\ \A j \in 1 .. Len(a) : b[j] = a[j]
        <4>1. a \in Seq(Threads) /\ x \in Threads
          BY <3>1, <3>2
        <4>2. /\ Append(a, x) \in Seq(Threads) /\ Len(Append(a, x)) = Len(a) + 1 /\ Append(a, x)[Len(a) + 1] = x
              /\ \A j \in 1 .. Len(a) : Append(a, x)[j] = a[j]
          BY <4>1, AppendProperties
        <4>3. QED
          BY <3>3, <4>2
      <3>5. PICK l \in Nat : l = Len(a)
        BY <3>2, LenProperties
      <3>6. (\A j \in 1 .. l + 1 : j = l + 1 \/ j \in 1 .. l) /\ (\A j \in 1 .. l : j \in 1 .. l + 1) /\ l + 1 \in 1 .. l + 1
        OBVIOUS
      <3>7. ASSUME NEW j \in 1 .. l + 1 PROVE b[j] \in S /\ \E i \in 1 .. m + 1 : s[i] = b[j]
        <4>1. CASE j = l + 1
          BY <2>1, <2>4, <3>1, <3>4, <3>5, <4>1
        <4>2. CASE j \in 1 .. l
          <5>1. b[j] = a[j] /\ a[j] \in S
            BY <2>2, <3>2, <3>4, <3>5, <4>2
          <5>2. PICK i \in 1 .. m : s[i] = a[j]
            BY <2>2, <3>2, <3>5, <4>2
          <5>3. QED
            BY <2>1, <5>1, <5>2
        <4>3. QED
          BY <3>6, <4>1, <4>2
      <3>8. ASSUME NEW i \in 1 .. m + 1, s[i] \in S PROVE \E j \in 1 .. l + 1 : b[j] = s[i]
        <4>1. CASE i = m + 1
          BY <3>1, <3>4, <3>5, <3>6, <4>1
        <4>2. CASE i \in 1 .. m
          <5>1. PICK j \in 1 .. l : a[j] = s[i]
            BY <2>2, <3>2, <3>5, <3>8, <4>2
          <5>2. QED
            BY <3>4, <3>5, <3>6, <5>1
        <4>3. QED
          BY <2>1, <4>1, <4>2
      <3>9. Good(m + 1)
        BY <3>4, <3>5, <3>7, <3>8
      <3>10. QED
        BY <2>1, <3>9
    <2>5. QED
      BY <2>3, <2>4
  <1>5. n \in T
    <2> HIDE DEF T
    <2>1. 0 .. Len(s) \subseteq T
      BY <1>1, <1>3, <1>4, AllUpTo
    <2>2. QED
      BY <2>1
  <1>6. QED
    BY <1>5 DEF k

\* Two sequences that agree, and on what is kept, in their first n entries.
LEMMA KeptAgree ==
  ASSUME NEW s \in Seq(Threads), NEW u \in Seq(Threads), NEW S, NEW W, NEW n \in Nat,
         n <= Len(s), n <= Len(u), \A i \in 1 .. n : u[i] = s[i] /\ (s[i] \in S <=> s[i] \in W)
  PROVE  KeptOf(u, W)[n] = KeptOf(s, S)[n]
  <1> DEFINE k == KeptOf(s, S)
             l == KeptOf(u, W)
             T == {m \in 0 .. n : k[m] = l[m]}
  <1>1. PICK a \in Nat, b \in Nat : a = Len(s) /\ b = Len(u)
    BY LenProperties
  <1>2. k[0] = <<>> /\ \A i \in 1 .. a : k[i] = IF s[i] \in S THEN Append(k[i - 1], s[i]) ELSE k[i - 1]
    BY <1>1, KeptSteps
  <1>3. l[0] = <<>> /\ \A i \in 1 .. b : l[i] = IF u[i] \in W THEN Append(l[i - 1], u[i]) ELSE l[i - 1]
    BY <1>1, KeptSteps
  <1> HIDE DEF k, l
  <1>4. 0 \in T
    BY <1>2, <1>3
  <1>5. ASSUME NEW m \in 0 .. n, m < n, m \in T PROVE m + 1 \in T
    <2>1. m + 1 \in 1 .. n /\ m + 1 \in 1 .. a /\ m + 1 \in 1 .. b /\ (m + 1) - 1 = m /\ m + 1 \in 0 .. n
      BY <1>1, <1>5
    <2>2. k[m + 1] = IF s[m + 1] \in S THEN Append(k[m], s[m + 1]) ELSE k[m]
      BY <1>2, <2>1
    <2>3. l[m + 1] = IF u[m + 1] \in W THEN Append(l[m], u[m + 1]) ELSE l[m]
      BY <1>3, <2>1
    <2>4. u[m + 1] = s[m + 1] /\ (s[m + 1] \in S <=> s[m + 1] \in W) /\ k[m] = l[m]
      BY <1>5, <2>1
    <2>5. k[m + 1] = l[m + 1]
      BY <2>2, <2>3, <2>4
    <2>6. QED
      BY <2>1, <2>5
  <1>6. n \in T
    <2> HIDE DEF T
    <2>1. 0 .. n \subseteq T
      BY <1>4, <1>5, AllUpTo
    <2>2. QED
      BY <2>1
  <1>7. QED
    BY <1>6 DEF k, l

LEMMA AmongAgree ==
  ASSUME NEW s \in Seq(Threads), NEW S, NEW W, \A i \in 1 .. Len(s) : s[i] \in S <=> s[i] \in W
  PROVE  Among(s, W) = Among(s, S)
  <1>1. PICK n \in Nat : n = Len(s)
    BY LenProperties
  <1>2. s \in Seq(Threads) /\ n <= Len(s) /\ \A i \in 1 .. n : s[i] = s[i] /\ (s[i] \in S <=> s[i] \in W)
    BY <1>1
  <1>3. KeptOf(s, W)[n] = KeptOf(s, S)[n]
    BY <1>2, KeptAgree
  <1>4. QED
    BY <1>1, <1>3 DEF Among

LEMMA AmongEmpty == ASSUME NEW S PROVE Among(<<>>, S) = <<>>
  <1>1. Len(<<>>) = 0
    OBVIOUS
  <1>2. KeptOf(<<>>, S)[0] = <<>>
    BY <1>1, KeptSteps
  <1>3. QED
    BY <1>1, <1>2 DEF Among

LEMMA AmongEntries ==
  ASSUME NEW s \in Seq(Threads), NEW S
  PROVE  /\ Among(s, S) \in Seq(Threads)
         /\ \A j \in 1 .. Len(Among(s, S)) : Among(s, S)[j] \in S /\ \E i \in 1 .. Len(s) : s[i] = Among(s, S)[j]
         /\ \A i \in 1 .. Len(s) : s[i] \in S => \E j \in 1 .. Len(Among(s, S)) : Among(s, S)[j] = s[i]
  <1>1. Len(s) \in 0 .. Len(s)
    BY LenProperties
  <1>2. QED
    BY <1>1, KeptEntries DEF Among

LEMMA AmongAppend ==
  ASSUME NEW s \in Seq(Threads), NEW x \in Threads, NEW S
  PROVE  Among(Append(s, x), S) = IF x \in S THEN Append(Among(s, S), x) ELSE Among(s, S)
  <1>1. PICK n \in Nat : n = Len(s)
    BY LenProperties
  <1>2. PICK u \in Seq(Threads) : u = Append(s, x) /\ Len(u) = n + 1 /\ u[n + 1] = x /\ \A i \in 1 .. n : u[i] = s[i]
    <2>1. /\ Append(s, x) \in Seq(Threads) /\ Len(Append(s, x)) = Len(s) + 1 /\ Append(s, x)[Len(s) + 1] = x
          /\ \A i \in 1 .. Len(s) : Append(s, x)[i] = s[i]
      BY AppendProperties
    <2>2. QED
      BY <1>1, <2>1
  <1>3. KeptOf(u, S)[n] = KeptOf(s, S)[n]
    <2>1. n <= Len(s) /\ n <= Len(u)
      BY <1>1, <1>2
    <2>2. \A i \in 1 .. n : u[i] = s[i] /\ (s[i] \in S <=> s[i] \in S)
      BY <1>2
    <2>3. QED
      BY <2>1, <2>2, KeptAgree
  <1>4. KeptOf(u, S)[n + 1] = IF x \in S THEN Append(KeptOf(u, S)[n], x) ELSE KeptOf(u, S)[n]
    <2>1. n + 1 \in 1 .. n + 1 /\ (n + 1) - 1 = n /\ Len(u) \in Nat /\ Len(u) = n + 1
      BY <1>2
    <2>2. \A i \in 1 .. n + 1 :
            KeptOf(u, S)[i] = IF u[i] \in S THEN Append(KeptOf(u, S)[i - 1], u[i]) ELSE KeptOf(u, S)[i - 1]
      BY <2>1, KeptSteps
    <2>3. PICK m \in 1 .. n + 1 : m = n + 1 /\ m - 1 = n
      BY <2>1
    <2>4. KeptOf(u, S)[m] = IF u[m] \in S THEN Append(KeptOf(u, S)[m - 1], u[m]) ELSE KeptOf(u, S)[m - 1]
      BY <2>2
    <2>5. QED
      BY <1>2, <2>3, <2>4
  <1>5. QED
    BY <1>1, <1>2, <1>3, <1>4 DEF Among

LEMMA AmongPrepend ==
  ASSUME NEW s \in Seq(Threads), NEW x \in Threads, NEW S
  PROVE  Among(<<x>> \o s, S) = IF x \in S THEN <<x>> \o Among(s, S) ELSE Among(s, S)
  <1>1. PICK n \in Nat : n = Len(s)
    BY LenProperties
  <1>2. PICK u \in Seq(Threads) : u = <<x>> \o s /\ Len(u) = n + 1 /\ u[1] = x /\ \A i \in 1 .. n : u[i + 1] = s[i]
    <2>1. <<x>> \in Seq(Threads) /\ Len(<<x>>) = 1 /\ <<x>>[1] = x
      OBVIOUS
    <2>2. PICK y \in Seq(Threads) : y = <<x>> /\ Len(y) = 1 /\ y[1] = x
      BY <2>1
    <2>3. PICK u \in Seq(Threads) : /\ u = y \o s /\ Len(u) = 1 + n
                                    /\ \A i \in 1 .. 1 + n : u[i] = IF i <= 1 THEN y[i] ELSE s[i - 1]
      <3>1. /\ y \o s \in Seq(Threads) /\ Len(y \o s) = Len(y) + Len(s)
            /\ \A i \in 1 .. Len(y) + Len(s) : (y \o s)[i] = IF i <= Len(y) THEN y[i] ELSE s[i - Len(y)]
        BY ConcatProperties
      <3>2. QED
        BY <1>1, <2>2, <3>1
    <2>4. u[1] = x
      <3>1. 1 \in 1 .. 1 + n
        OBVIOUS
      <3>2. QED
        BY <2>2, <2>3, <3>1
    <2>5. ASSUME NEW i \in 1 .. n PROVE u[i + 1] = s[i]
      <3>1. PICK j \in 1 .. 1 + n : j = i + 1 /\ ~(j <= 1) /\ j - 1 = i
        OBVIOUS
      <3>2. u[j] = s[j - 1]
        BY <2>3, <3>1
      <3>3. QED
        BY <3>1, <3>2
    <2>6. Len(u) = n + 1
      BY <2>3
    <2>7. QED
      BY <2>2, <2>3, <2>4, <2>5, <2>6
  <1> DEFINE k == KeptOf(s, S)
             l == KeptOf(u, S)
             front == IF x \in S THEN <<x>> ELSE <<>>
             T == {m \in 0 .. n : l[m + 1] = front \o k[m]}
  <1>3. /\ k[0] = <<>> /\ \A i \in 1 .. n : k[i] = IF s[i] \in S THEN Append(k[i - 1], s[i]) ELSE k[i - 1]
        /\ \A i \in 0 .. n : k[i] \in Seq(Threads)
    <2>1. \A i \in 0 .. n : KeptOf(s, S)[i] \in Seq(Threads)
      BY <1>1, KeptEntries
    <2>2. QED
      BY <1>1, <2>1, KeptSteps
  <1>4. l[0] = <<>> /\ \A i \in 1 .. n + 1 : l[i] = IF u[i] \in S THEN Append(l[i - 1], u[i]) ELSE l[i - 1]
    <2>1. Len(u) \in Nat /\ Len(u) = n + 1
      BY <1>2
    <2>2. QED
      BY <2>1, KeptSteps
  <1>5. front \in Seq(Threads) /\ front \o <<>> = front /\ Append(<<>>, x) = <<x>>
    <2>1. front \in Seq(Threads)
      OBVIOUS
    <2> HIDE DEF front
    <2>2. front \o <<>> = front
      BY <2>1, ConcatEmptySeq
    <2>3. QED
      BY <2>1, <2>2
  <1> HIDE DEF k, l
  <1>6. 0 \in T
    <2>1. l[1] = front
      <3>1. 1 \in 1 .. n + 1 /\ 1 - 1 = 0
        OBVIOUS
      <3>2. l[1] = IF x \in S THEN Append(<<>>, x) ELSE <<>>
        BY <1>2, <1>4, <3>1
      <3>3. QED
        BY <1>5, <3>2
    <2> HIDE DEF front
    <2>2. l[0 + 1] = front \o k[0]
      BY <1>3, <1>5, <2>1
    <2>3. QED
      BY <2>2
  <1> HIDE DEF front
  <1>7. ASSUME NEW m \in 0 .. n, m < n, m \in T PROVE m + 1 \in T
    <2>1. /\ m + 1 \in 1 .. n /\ (m + 1) - 1 = m /\ m + 1 \in 0 .. n
          /\ (m + 1) + 1 \in 1 .. n + 1 /\ ((m + 1) + 1) - 1 = m + 1
      BY <1>7
    <2>2. k[m + 1] = IF s[m + 1] \in S THEN Append(k[m], s[m + 1]) ELSE k[m]
      BY <1>3, <2>1
    <2>3. l[(m + 1) + 1] = IF s[m + 1] \in S THEN Append(l[m + 1], s[m + 1]) ELSE l[m + 1]
      BY <1>2, <1>4, <2>1
    <2>4. l[m + 1] = front \o k[m]
      BY <1>7
    <2>5. k[m] \in Seq(Threads) /\ s[m + 1] \in Threads
      BY <1>1, <1>3, <2>1, ElementOfSeq
    <2>6. Append(front \o k[m], s[m + 1]) = front \o Append(k[m], s[m + 1])
      <3>1. PICK a \in Seq(Threads), y \in Threads : a = k[m] /\ y = s[m + 1]
        BY <2>5
      <3>2. front \o a \in Seq(Threads) /\ <<y>> \in Seq(Threads) /\ front \in Seq(Threads) /\ a \in Seq(Threads)
        BY <1>5, ConcatProperties
      <3>3. Append(front \o a, y) = (front \o a) \o <<y>>
        BY <3>2, AppendIsConcat
      <3>4. Append(a, y) = a \o <<y>>
        BY AppendIsConcat
      <3>5. (front \o a) \o <<y>> = front \o (a \o <<y>>)
        <4>1. PICK b \in Seq(Threads), c \in Seq(Threads) : b = <<y>> /\ c = front
          BY <3>2
        <4>2. (c \o a) \o b = c \o (a \o b)
          BY ConcatAssociative
        <4>3. QED
          BY <4>1, <4>2
      <3>6. QED
        BY <3>1, <3>3, <3>4, <3>5
    <2>7. l[(m + 1) + 1] = front \o k[m + 1]
      BY <2>2, <2>3, <2>4, <2>6
    <2>8. QED
      BY <2>1, <2>7
  <1>8. l[n + 1] = front \o k[n]
    <2> HIDE DEF T
    <2>1. 0 .. n \subseteq T
      BY <1>6, <1>7, AllUpTo
    <2>2. n \in T
      BY <2>1
    <2>3. QED
      BY <2>2 DEF T
  <1>9. Among(<<x>> \o s, S) = l[n + 1] /\ Among(s, S) = k[n]
    BY <1>1, <1>2 DEF Among, k, l
  <1>10. <<>> \o k[n] = k[n]
    BY <1>3, ConcatEmptySeq
  <1>11. QED
    BY <1>8, <1>9, <1>10 DEF front

\* What is kept of what was kept.
LEMMA AmongAmong ==
  ASSUME NEW s \in Seq(Threads), NEW S, NEW W
  PROVE  Among(Among(s, S), W) = Among(s, S \cap W)
  <1>1. PICK n \in Nat : n = Len(s)
    BY LenProperties
  <1> DEFINE k == KeptOf(s, S)
             l == KeptOf(s, S \cap W)
             T == {m \in 0 .. n : Among(k[m], W) = l[m]}
  <1>2. /\ k[0] = <<>> /\ \A i \in 1 .. n : k[i] = IF s[i] \in S THEN Append(k[i - 1], s[i]) ELSE k[i - 1]
        /\ \A i \in 0 .. n : k[i] \in Seq(Threads)
    <2>1. \A i \in 0 .. n : KeptOf(s, S)[i] \in Seq(Threads)
      BY <1>1, KeptEntries
    <2>2. QED
      BY <1>1, <2>1, KeptSteps
  <1>3. l[0] = <<>> /\ \A i \in 1 .. n : l[i] = IF s[i] \in S \cap W THEN Append(l[i - 1], s[i]) ELSE l[i - 1]
    BY <1>1, KeptSteps
  <1> HIDE DEF k, l
  <1>4. 0 \in T
    BY <1>2, <1>3, AmongEmpty
  <1>5. ASSUME NEW m \in 0 .. n, m < n, m \in T PROVE m + 1 \in T
    <2>1. m + 1 \in 1 .. n /\ (m + 1) - 1 = m /\ m + 1 \in 0 .. n
      BY <1>5
    <2>2. k[m + 1] = IF s[m + 1] \in S THEN Append(k[m], s[m + 1]) ELSE k[m]
      BY <1>2, <2>1
    <2>3. l[m + 1] = IF s[m + 1] \in S \cap W THEN Append(l[m], s[m + 1]) ELSE l[m]
      BY <1>3, <2>1
    <2>4. Among(k[m], W) = l[m] /\ k[m] \in Seq(Threads)
      BY <1>2, <1>5
    <2>5. s[m + 1] \in Threads
      BY <1>1, <2>1, ElementOfSeq
    <2>6. Among(Append(k[m], s[m + 1]), W) = IF s[m + 1] \in W THEN Append(l[m], s[m + 1]) ELSE l[m]
      <3>1. PICK a \in Seq(Threads), y \in Threads : a = k[m] /\ y = s[m + 1]
        BY <2>4, <2>5
      <3>2. Among(Append(a, y), W) = IF y \in W THEN Append(Among(a, W), y) ELSE Among(a, W)
        BY AmongAppend
      <3>3. QED
        BY <2>4, <3>1, <3>2
    <2>7. Among(k[m + 1], W) = l[m + 1]
      BY <2>2, <2>3, <2>4, <2>6
    <2>8. QED
      BY <2>1, <2>7
  <1>6. n \in T
    <2> HIDE DEF T
    <2>1. 0 .. n \subseteq T
      BY <1>4, <1>5, AllUpTo
    <2>2. QED
      BY <2>1
  <1>7. QED
    BY <1>1, <1>6 DEF Among, k, l

-----------------------------------------------------------------------------
(* The refinement.                                                           *)

\* Slices and need_resched: a thread that waits, in a queue or blocked, has ticks left;
\* sched_next is asked for when the running thread has none or a more urgent one is READY.
SliceInv ==
  /\ \A t \in Threads : state[t] \in {"READY", "BLOCKED"} => slice[t] # 0
  /\ mode \in {"user", "dequeue"} => ~need_resched
  /\ mode # "dequeue" /\ fnd_current # Idle /\ CurrentRunning /\ ~need_resched => slice[fnd_current] # 0
  /\ mode # "dequeue" /\ fnd_current # Idle /\ CurrentRunning /\ need_resched /\ slice[fnd_current] # 0
     => \E t \in Threads : state[t] = "READY" /\ priority[t] < priority[fnd_current]

LEMMA SliceInvHolds == Spec => []SliceInv
  <1>1. Init => SliceInv
    BY ConstantTypes DEF Init, SliceInv
  <1>2. TypeOK /\ RunInv /\ SliceInv /\ [Next]_vars => SliceInv'
    <2> SUFFICES ASSUME TypeOK, RunInv, SliceInv, [Next]_vars PROVE SliceInv'
      OBVIOUS
    <2> USE ConstantTypes
    \* The running thread stays as it is, nobody becomes READY or stops being it.
    <2>s. ASSUME UNCHANGED <<state, slice, priority, need_resched, fnd_current>>,
                 mode' # "dequeue", mode' = "user" => ~need_resched, mode # "dequeue"
          PROVE  SliceInv'
      BY <2>s DEF SliceInv, CurrentRunning, TypeOK
    <2>c. ASSUME NEW t \in Threads, NEW p \in Procs, NEW q \in Prios, mode = "user", fnd_current # Idle,
                 AllocThread(t), Create(t, p, q)
          PROVE  SliceInv'
      <3>1. /\ fnd_current \in Threads /\ t # fnd_current /\ state[fnd_current] = "RUNNING"
            /\ ~need_resched /\ slice[fnd_current] # 0
        BY <2>c DEF AllocThread, Allocatable, RunInv, CurrentRunning, TypeOK, SliceInv
      <3>2. /\ state'[t] = "READY" /\ \A u \in Threads \ {t} : state'[u] = state[u]
            /\ priority'[t] = q /\ \A u \in Threads \ {t} : priority'[u] = priority[u]
            /\ slice'[t] # 0 /\ \A u \in Threads \ {t} : slice'[u] = slice[u]
            /\ mode' = "kernel" /\ fnd_current' = fnd_current
        BY <2>c DEF Create, TypeOK
      <3>3. need_resched' => q < priority[fnd_current]
        BY <2>c, <3>1 DEF Create, Urge, PrioOf
      <3>4. QED
        BY <3>1, <3>2, <3>3 DEF SliceInv
    <2>1. CASE OtherTrap
      BY <2>1, <2>s DEF OtherTrap, recVars, SliceInv
    <2>2. CASE Yield
      <3>1. fnd_current \in Threads /\ state[fnd_current] = "RUNNING"
        BY <2>2 DEF Yield, InThread, RunInv, CurrentRunning, TypeOK
      <3>2. /\ slice'[fnd_current] = 0 /\ \A u \in Threads \ {fnd_current} : slice'[u] = slice[u]
            /\ mode' = "kernel" /\ need_resched' = TRUE /\ UNCHANGED <<state, fnd_current>>
        BY <2>2, <3>1 DEF Yield, TypeOK
      <3>3. QED
        BY <3>1, <3>2 DEF SliceInv
    <2>3. ASSUME NEW n \in Timeouts \cup {Forever}, Block(n) PROVE SliceInv'
      <3>1. /\ fnd_current \in Threads /\ state[fnd_current] = "RUNNING" /\ slice[fnd_current] # 0
        BY <2>3 DEF Block, InThread, RunInv, CurrentRunning, TypeOK, SliceInv
      <3>2. /\ state'[fnd_current] = "BLOCKED" /\ \A u \in Threads \ {fnd_current} : state'[u] = state[u]
            /\ mode' = "kernel" /\ UNCHANGED <<slice, fnd_current>>
        BY <2>3, <3>1 DEF Block, TypeOK
      <3>3. QED
        BY <3>1, <3>2 DEF SliceInv, CurrentRunning
    <2>4. CASE ThreadCreate
      <3>1. PICK t \in Threads : AllocThread(t) /\ Create(t, proc[fnd_current], priority[fnd_current])
        BY <2>4 DEF ThreadCreate
      <3>2. proc[fnd_current] \in Procs /\ priority[fnd_current] \in Prios /\ mode = "user" /\ fnd_current # Idle
        BY <2>4 DEF ThreadCreate, InThread, TypeOK
      <3>3. QED
        BY <2>c, <3>1, <3>2
    <2>5. ASSUME NEW p \in Procs, NEW q \in Prios, ProcSpawn(p, q) PROVE SliceInv'
      BY <2>5, <2>c DEF ProcSpawn, InThread
    <2>6. ASSUME NEW t \in Threads, CloseThreadHandle(t) PROVE SliceInv'
      BY <2>6, <2>s DEF CloseThreadHandle, InThread
    <2>7. CASE ThreadExit
      <3>1. fnd_current \in Threads
        BY <2>7 DEF ThreadExit, InThread, TypeOK
      <3>2. /\ state'[fnd_current] = "DEAD" /\ \A u \in Threads \ {fnd_current} : state'[u] = state[u]
            /\ mode' = "kernel" /\ UNCHANGED <<slice, fnd_current>>
        BY <2>7, <3>1 DEF ThreadExit, TypeOK
      <3>3. QED
        BY <3>1, <3>2 DEF SliceInv, CurrentRunning
    <2>8. ASSUME NEW p \in Procs, KillProc(p) PROVE SliceInv'
      <3>1. /\ fnd_current \in Threads /\ mode = "user" /\ mode' = "kernel" /\ ~need_resched
            /\ UNCHANGED <<slice, need_resched, fnd_current>>
        BY <2>8 DEF KillProc, InThread, TypeOK, SliceInv
      <3>2. \A u \in Threads : state'[u] # "DEAD" => state'[u] = state[u]
        BY <2>8 DEF KillProc
      <3>3. QED
        BY <3>1, <3>2 DEF SliceInv, CurrentRunning
    <2>9. CASE TimerIrq
      BY <2>9, <2>s DEF TimerIrq, recVars, SliceInv
    <2>10. ASSUME NEW t \in Threads, WakeByHandler(t) \/ TimedOut(t) PROVE SliceInv'
      <3>1. /\ mode \in {"tick", "kernel"} /\ mode' = mode /\ state[t] = "BLOCKED" /\ Urge(priority[t])
            /\ UNCHANGED <<fnd_current, priority, slice>>
        BY <2>10 DEF WakeByHandler, TimedOut, Wake, recVars
      <3>2. state'[t] = "READY" /\ \A u \in Threads \ {t} : state'[u] = state[u]
        BY <2>10 DEF WakeByHandler, TimedOut, Wake, TypeOK
      <3>3. \A u \in Threads : state[u] = "READY" => state'[u] = "READY"
        BY <3>1, <3>2
      <3>4. \A u \in Threads : state'[u] \in {"READY", "BLOCKED"} => slice[u] # 0
        BY <3>1, <3>2 DEF SliceInv
      <3>5. fnd_current # Idle /\ CurrentRunning' => fnd_current \in Threads /\ t # fnd_current /\ CurrentRunning
        BY <3>1, <3>2 DEF CurrentRunning, TypeOK
      <3>6. fnd_current # Idle /\ need_resched' => need_resched \/ priority[t] < priority[fnd_current]
        BY <3>1 DEF Urge, PrioOf
      <3>7. need_resched => need_resched'
        BY <3>1 DEF Urge
      <3>8. QED
        BY <3>1, <3>2, <3>3, <3>4, <3>5, <3>6, <3>7 DEF SliceInv
    <2>11. CASE TickEnd
      <3>1. UNCHANGED <<state, priority, fnd_current>> /\ mode = "tick" /\ mode' = "kernel" /\ CurrentRunning
        BY <2>11 DEF TickEnd, recVars, RunInv
      <3>2. CASE fnd_current = Idle
        BY <2>11, <3>1, <3>2 DEF TickEnd, SliceInv
      <3>3. CASE fnd_current # Idle
        <4>1. fnd_current \in Threads /\ state[fnd_current] = "RUNNING" /\ slice[fnd_current] \in Nat
          BY <3>1, <3>3 DEF CurrentRunning, TypeOK
        <4>2. /\ \A u \in Threads \ {fnd_current} : slice'[u] = slice[u]
              /\ need_resched' = (need_resched \/ slice'[fnd_current] = 0)
              /\ slice'[fnd_current] # 0 => slice[fnd_current] # 0
          BY <2>11, <3>1, <3>3, <4>1 DEF TickEnd, TypeOK
        <4>3. QED
          BY <3>1, <3>3, <4>1, <4>2 DEF SliceInv, CurrentRunning
      <3>4. QED
        BY <3>2, <3>3
    <2>12. CASE Resume
      BY <2>12, <2>s DEF Resume, recVars
    <2>13. CASE Requeue
      <3>1. fnd_current \in Threads /\ mode' = "dequeue" /\ need_resched' = FALSE
        BY <2>13 DEF Requeue, TypeOK
      <3>2. /\ \A u \in Threads \ {fnd_current} : slice'[u] = slice[u] /\ state'[u] = state[u]
            /\ slice'[fnd_current] # 0
        BY <2>13, <3>1 DEF Requeue, TypeOK
      <3>3. QED
        BY <3>1, <3>2 DEF SliceInv
    <2>14. CASE Leave
      BY <2>14 DEF Leave, SliceInv
    <2>15. CASE DispatchIdle
      BY <2>15 DEF DispatchIdle, SliceInv
    <2>16. ASSUME NEW p \in Prios, Skip(p) PROVE SliceInv'
      BY <2>16 DEF Skip, SliceInv
    <2>17. ASSUME NEW p \in Prios, Dispatch(p) PROVE SliceInv'
      <3>1. /\ state[queue_head[p]] = "READY" /\ queue_head[p] \in Threads
            /\ mode = "dequeue" /\ UNCHANGED <<slice, need_resched, priority>>
            /\ fnd_current' = queue_head[p] /\ state' = [state EXCEPT ![queue_head[p]] = "RUNNING"]
        BY <2>17 DEF Dispatch, FirstQueue, TypeOK, recVars
      <3>2. \A u \in Threads : state'[u] \in {"READY", "BLOCKED"} => state'[u] = state[u]
        BY <3>1 DEF TypeOK
      <3>3. ~need_resched' /\ slice[queue_head[p]] # 0
        BY <3>1 DEF SliceInv
      <3>4. QED
        BY <3>1, <3>2, <3>3 DEF SliceInv
    <2>18. CASE UNCHANGED vars
      BY <2>18 DEF vars, recVars, SliceInv, CurrentRunning
    <2>19. QED
      BY <2>1, <2>2, <2>3, <2>4, <2>5, <2>6, <2>7, <2>8, <2>9, <2>10, <2>11, <2>12, <2>13,
         <2>14, <2>15, <2>16, <2>17, <2>18 DEF Next, Kernel, Trap
  <1>3. QED
    BY <1>1, <1>2, TypeCorrect, RunInvHolds, PTL DEF Spec

\* The abstract queues, and whether the running thread has used up its slice.
Lists == [p \in Prios |-> ReadyList(p)]
Spent == fnd_current # Idle /\ CurrentRunning /\ slice[fnd_current] = 0

LEMMA ReadyListIs ==
  ASSUME NEW Q \in Queues, Linking(Q, queue_head, queue_tail, next), NEW p \in Prios
  PROVE  ReadyList(p) = Among(Q[p], Ready)
  <1>1. List(p) = ListFrom(queue_head[p], next)
    BY DEF List, OnQueue, Walk, ListFrom, Visited, WalkFrom
  <1>2. ListFrom(queue_head[p], next) = Q[p]
    BY ListIsQueue
  <1>3. QED
    BY <1>1, <1>2 DEF ReadyList

LEMMA ReadyListWillBe ==
  ASSUME NEW R \in Queues, Linking(R, queue_head', queue_tail', next'), NEW p \in Prios
  PROVE  ReadyList(p)' = Among(R[p], Ready')
  <1>1. List(p)' = ListFrom(queue_head'[p], next')
    BY DEF List, OnQueue, Walk, ListFrom, Visited, WalkFrom
  <1>2. ListFrom(queue_head'[p], next') = R[p]
    BY ListIsQueue
  <1>3. QED
    BY <1>1, <1>2 DEF ReadyList

LEMMA AppendIs ==
  ASSUME NEW s \in Seq(Threads), NEW u \in Seq(Threads), NEW t \in Threads,
         Len(u) = Len(s) + 1, u[Len(s) + 1] = t, \A i \in 1 .. Len(s) : u[i] = s[i]
  PROVE  u = Append(s, t)
  <1>1. PICK n \in Nat : n = Len(s)
    BY LenProperties
  <1>2. PICK v \in Seq(Threads) : /\ v = Append(s, t) /\ Len(v) = n + 1 /\ v[n + 1] = t
                                  /\ \A i \in 1 .. n : v[i] = s[i]
    <2>1. /\ Append(s, t) \in Seq(Threads) /\ Len(Append(s, t)) = Len(s) + 1 /\ Append(s, t)[Len(s) + 1] = t
          /\ \A i \in 1 .. Len(s) : Append(s, t)[i] = s[i]
      BY AppendProperties
    <2>2. QED
      BY <1>1, <2>1
  <1>3. \A i \in 1 .. n + 1 : i = n + 1 \/ i \in 1 .. n
    OBVIOUS
  <1>4. Len(u) = Len(v) /\ \A i \in 1 .. Len(u) : u[i] = v[i]
    BY <1>1, <1>2, <1>3
  <1>5. QED
    BY <1>2, <1>4, SeqEqual

LEMMA PrependIs ==
  ASSUME NEW s \in Seq(Threads), NEW u \in Seq(Threads), NEW t \in Threads,
         Len(u) = Len(s) + 1, u[1] = t, \A i \in 1 .. Len(s) : u[i + 1] = s[i]
  PROVE  u = <<t>> \o s
  <1>1. PICK n \in Nat : n = Len(s)
    BY LenProperties
  <1>2. PICK y \in Seq(Threads) : y = <<t>> /\ Len(y) = 1 /\ y[1] = t
    <2>1. <<t>> \in Seq(Threads) /\ Len(<<t>>) = 1 /\ <<t>>[1] = t
      OBVIOUS
    <2>2. QED
      BY <2>1
  <1>3. PICK v \in Seq(Threads) : /\ v = y \o s /\ Len(v) = n + 1
                                  /\ \A i \in 1 .. n + 1 : v[i] = IF i <= 1 THEN y[i] ELSE s[i - 1]
    <2>1. /\ y \o s \in Seq(Threads) /\ Len(y \o s) = Len(y) + Len(s)
          /\ \A i \in 1 .. Len(y) + Len(s) : (y \o s)[i] = IF i <= Len(y) THEN y[i] ELSE s[i - Len(y)]
      BY ConcatProperties
    <2>2. Len(y) + Len(s) = n + 1 /\ Len(y) = 1
      BY <1>1, <1>2
    <2>3. PICK v \in Seq(Threads) : v = y \o s
      BY <2>1
    <2>4. Len(v) = n + 1
      BY <2>1, <2>2, <2>3
    <2>5. ASSUME NEW i \in 1 .. n + 1 PROVE v[i] = IF i <= 1 THEN y[i] ELSE s[i - 1]
      BY <2>1, <2>2, <2>3
    <2>6. QED
      BY <1>2, <2>3, <2>4, <2>5
  <1>4. ASSUME NEW i \in 1 .. n + 1 PROVE u[i] = v[i]
    <2>1. CASE i = 1
      BY <1>2, <1>3, <2>1
    <2>2. CASE i # 1
      <3>1. PICK j \in 1 .. n : j = i - 1 /\ j + 1 = i /\ ~(i <= 1)
        BY <2>2
      <3>2. u[j + 1] = s[j] /\ v[i] = s[i - 1]
        BY <1>1, <1>3, <3>1
      <3>3. QED
        BY <3>1, <3>2
    <2>3. QED
      BY <2>1, <2>2
  <1>5. Len(u) = Len(v) /\ \A i \in 1 .. Len(u) : u[i] = v[i]
    BY <1>1, <1>3, <1>4
  <1>6. u = v
    BY <1>5, SeqEqual
  <1>7. QED
    BY <1>2, <1>3, <1>6

\* A record that Create or a wake-up queues is in no queue before.
LEMMA OutOfQueues ==
  ASSUME TypeOK, NEW Q \in Queues, Linking(Q, queue_head, queue_tail, next), Contents(Q),
         NEW t \in Threads, ~Linked(t) \/ state[t] \notin {"READY", "DEAD"}
  PROVE  \A p \in Prios : ~InQueue(Q, t, p)
  <1>1. CASE ~Linked(t)
    BY <1>1, UnlinkedIsOut
  <1>2. CASE state[t] \notin {"READY", "DEAD"}
    BY <1>2 DEF Contents, InQueue
  <1>3. QED
    BY <1>1, <1>2

\* Queueing a thread, at either end, on the abstract queues.
LEMMA ListsGain ==
  ASSUME TypeOK, ListInv, NEW t \in Threads, NEW p \in Prios,
         ~Linked(t) \/ state[t] \notin {"READY", "DEAD"},
         state[t] # "READY", state'[t] = "READY", \A u \in Threads \ {t} : state'[u] = state[u]
  PROVE  /\ EnqueueTail(t, p) => Lists' = [Lists EXCEPT ![p] = Append(Lists[p], t)]
         /\ EnqueueHead(t, p) => Lists' = [Lists EXCEPT ![p] = <<t>> \o Lists[p]]
  <1>1. PICK Q \in Queues : Linking(Q, queue_head, queue_tail, next) /\ Contents(Q)
    BY DEF ListInv
  <1>2. \A q \in Prios : ~InQueue(Q, t, q)
    BY <1>1, OutOfQueues
  <1>3. t \in Ready' /\ \A u \in Threads \ {t} : u \in Ready' <=> u \in Ready
    BY DEF Ready
  <1>4. \A q \in Prios : Q[q] \in Seq(Threads) /\ Lists[q] = Among(Q[q], Ready)
    BY <1>1, NthThread, ReadyListIs DEF Lists
  <1>5. ASSUME NEW q \in Prios PROVE Among(Q[q], Ready') = Lists[q]
    <2>1. PICK s \in Seq(Threads) : s = Q[q] /\ \A i \in 1 .. Len(s) : s[i] \in Threads
      BY NthThread
    <2>2. \A i \in 1 .. Len(s) : s[i] \in Ready <=> s[i] \in Ready'
      BY <1>2, <1>3, <2>1 DEF InQueue
    <2>3. Among(s, Ready') = Among(s, Ready)
      BY <2>2, AmongAgree
    <2>4. QED
      BY <1>4, <2>1, <2>3
  <1>6. PICK n \in Nat : n = Len(Q[p])
    BY NthThread
  <1>7. ASSUME EnqueueTail(t, p) PROVE Lists' = [Lists EXCEPT ![p] = Append(Lists[p], t)]
    <2>1. PICK R \in Queues :
          /\ Linking(R, queue_head', queue_tail', next')
          /\ Len(R[p]) = n + 1 /\ R[p][n + 1] = t
          /\ \A i \in 1 .. n : R[p][i] = Q[p][i]
          /\ \A q \in Prios \ {p} : R[q] = Q[q]
      <3>1. PICK R \in Queues :
            /\ Linking(R, queue_head', queue_tail', next')
            /\ Len(R[p]) = Len(Q[p]) + 1 /\ R[p][Len(Q[p]) + 1] = t
            /\ \A i \in 1 .. Len(Q[p]) : R[p][i] = Q[p][i]
            /\ \A q \in Prios \ {p} : R[q] = Q[q]
        BY <1>1, <1>2, <1>7, AppendedList
      <3>2. QED
        BY <1>6, <3>1
    <2>2. R[p] \in Seq(Threads) /\ Q[p] \in Seq(Threads) /\ Len(R[p]) = Len(Q[p]) + 1 /\ R[p][Len(Q[p]) + 1] = t
          /\ \A i \in 1 .. Len(Q[p]) : R[p][i] = Q[p][i]
      BY <1>6, <2>1, NthThread
    <2>3. R[p] = Append(Q[p], t)
      BY <2>2, AppendIs
    <2>4. Among(R[p], Ready') = Append(Among(Q[p], Ready'), t)
      <3>1. PICK s \in Seq(Threads) : s = Q[p]
        BY <2>2
      <3>2. Among(Append(s, t), Ready') = IF t \in Ready' THEN Append(Among(s, Ready'), t) ELSE Among(s, Ready')
        BY AmongAppend
      <3>3. QED
        BY <1>3, <2>3, <3>1, <3>2
    <2>5. \A q \in Prios : ReadyList(q)' = Among(R[q], Ready')
      BY <2>1, ReadyListWillBe
    <2>6. \A q \in Prios : ReadyList(q)' = IF q = p THEN Append(Lists[p], t) ELSE Lists[q]
      BY <1>5, <2>1, <2>4, <2>5
    <2>7. QED
      BY <2>6 DEF Lists
  <1>8. ASSUME EnqueueHead(t, p) PROVE Lists' = [Lists EXCEPT ![p] = <<t>> \o Lists[p]]
    <2>1. PICK R \in Queues :
          /\ Linking(R, queue_head', queue_tail', next')
          /\ Len(R[p]) = n + 1 /\ R[p][1] = t
          /\ \A i \in 2 .. n + 1 : R[p][i] = Q[p][i - 1]
          /\ \A q \in Prios \ {p} : R[q] = Q[q]
      <3>1. PICK R \in Queues :
            /\ Linking(R, queue_head', queue_tail', next')
            /\ Len(R[p]) = Len(Q[p]) + 1 /\ R[p][1] = t
            /\ \A i \in 2 .. Len(Q[p]) + 1 : R[p][i] = Q[p][i - 1]
            /\ \A q \in Prios \ {p} : R[q] = Q[q]
        BY <1>1, <1>2, <1>8, PrependedList
      <3>2. QED
        BY <1>6, <3>1
    <2>2. \A i \in 1 .. n : R[p][i + 1] = Q[p][i]
      <3> SUFFICES ASSUME NEW i \in 1 .. n PROVE R[p][i + 1] = Q[p][i]
        OBVIOUS
      <3>1. PICK j \in 2 .. n + 1 : j = i + 1 /\ j - 1 = i
        OBVIOUS
      <3>2. R[p][j] = Q[p][j - 1]
        BY <2>1
      <3>3. QED
        BY <3>1, <3>2
    <2>3. R[p] \in Seq(Threads) /\ Q[p] \in Seq(Threads) /\ Len(R[p]) = Len(Q[p]) + 1 /\ R[p][1] = t
          /\ \A i \in 1 .. Len(Q[p]) : R[p][i + 1] = Q[p][i]
      BY <1>6, <2>1, <2>2, NthThread
    <2>4. R[p] = <<t>> \o Q[p]
      BY <2>3, PrependIs
    <2>5. Among(R[p], Ready') = <<t>> \o Among(Q[p], Ready')
      <3>1. PICK s \in Seq(Threads) : s = Q[p]
        BY <2>3
      <3>2. Among(<<t>> \o s, Ready') = IF t \in Ready' THEN <<t>> \o Among(s, Ready') ELSE Among(s, Ready')
        BY AmongPrepend
      <3>3. QED
        BY <1>3, <2>4, <3>1, <3>2
    <2>6. \A q \in Prios : ReadyList(q)' = Among(R[q], Ready')
      BY <2>1, ReadyListWillBe
    <2>7. \A q \in Prios : ReadyList(q)' = IF q = p THEN <<t>> \o Lists[p] ELSE Lists[q]
      BY <1>5, <2>1, <2>5, <2>6
    <2>8. QED
      BY <2>7 DEF Lists
  <1>9. QED
    BY <1>7, <1>8

LEMMA HeadAndTail ==
  ASSUME NEW s \in Seq(Threads), NEW t \in Threads
  PROVE  <<t>> \o s # <<>> /\ Head(<<t>> \o s) = t /\ Tail(<<t>> \o s) = s
  <1>1. PICK n \in Nat : n = Len(s)
    BY LenProperties
  <1>2. PICK y \in Seq(Threads) : y = <<t>> /\ Len(y) = 1 /\ y[1] = t
    <2>1. <<t>> \in Seq(Threads) /\ Len(<<t>>) = 1 /\ <<t>>[1] = t
      OBVIOUS
    <2>2. QED
      BY <2>1
  <1>3. PICK u \in Seq(Threads) : /\ u = y \o s /\ Len(u) = n + 1
                                  /\ \A i \in 1 .. n + 1 : u[i] = IF i <= 1 THEN y[i] ELSE s[i - 1]
    <2>1. /\ y \o s \in Seq(Threads) /\ Len(y \o s) = Len(y) + Len(s)
          /\ \A i \in 1 .. Len(y) + Len(s) : (y \o s)[i] = IF i <= Len(y) THEN y[i] ELSE s[i - Len(y)]
      BY ConcatProperties
    <2>2. Len(y) + Len(s) = n + 1 /\ Len(y) = 1
      BY <1>1, <1>2
    <2>3. PICK u \in Seq(Threads) : u = y \o s
      BY <2>1
    <2>4. Len(u) = n + 1
      BY <2>1, <2>2, <2>3
    <2>5. ASSUME NEW i \in 1 .. n + 1 PROVE u[i] = IF i <= 1 THEN y[i] ELSE s[i - 1]
      BY <2>1, <2>2, <2>3
    <2>6. QED
      BY <1>2, <2>3, <2>4, <2>5
  <1>4. u # <<>>
    <2>1. Len(<<>>) = 0
      OBVIOUS
    <2>2. QED
      BY <1>3, <2>1
  <1>5. u[1] = t
    <2>1. 1 \in 1 .. n + 1
      OBVIOUS
    <2>2. QED
      BY <1>2, <1>3, <2>1
  <1>6. PICK v \in Seq(Threads) : v = Tail(u) /\ Len(v) = n /\ \A i \in 1 .. n : v[i] = u[i + 1]
    <2>1. Tail(u) \in Seq(Threads) /\ Len(Tail(u)) = Len(u) - 1 /\ \A i \in 1 .. Len(Tail(u)) : Tail(u)[i] = u[i + 1]
      BY <1>4, HeadTailProperties
    <2>2. Len(Tail(u)) = n
      BY <1>3, <2>1
    <2>3. QED
      BY <2>1, <2>2
  <1>7. ASSUME NEW i \in 1 .. n PROVE v[i] = s[i]
    <2>1. PICK j \in 1 .. n + 1 : j = i + 1 /\ ~(j <= 1) /\ j - 1 = i
      OBVIOUS
    <2>2. u[j] = s[j - 1]
      BY <1>3, <2>1
    <2>3. QED
      BY <1>6, <2>1, <2>2
  <1>8. Len(v) = Len(s) /\ \A i \in 1 .. Len(v) : v[i] = s[i]
    BY <1>1, <1>6, <1>7
  <1>9. v = s
    BY <1>8, SeqEqual
  <1>10. Head(u) = u[1]
    OBVIOUS
  <1>11. QED
    BY <1>2, <1>3, <1>4, <1>5, <1>6, <1>9, <1>10

\* The abstract queues hold READY threads, all of them.
LEMMA ListsHold ==
  ASSUME TypeOK, ListInv
  PROVE  /\ \A p \in Prios : /\ Lists[p] \in Seq(Threads)
                             /\ \A i \in 1 .. Len(Lists[p]) : state[Lists[p][i]] = "READY"
                             /\ queue_head[p] = Null => Lists[p] = <<>>
         /\ \A t \in Threads : state[t] = "READY" => Lists[priority[t]] # <<>>
  <1>1. PICK Q \in Queues : Linking(Q, queue_head, queue_tail, next) /\ Contents(Q)
    BY DEF ListInv
  <1>2. ASSUME NEW p \in Prios
        PROVE  /\ Lists[p] \in Seq(Threads)
               /\ \A i \in 1 .. Len(Lists[p]) : Lists[p][i] \in Ready /\ Len(Q[p]) # 0
               /\ \A i \in 1 .. Len(Q[p]) : Q[p][i] \in Ready => Lists[p] # <<>>
    <2>1. PICK s \in Seq(Threads) : s = Q[p] /\ Len(s) \in Nat
      BY NthThread
    <2>2. PICK a : a = Lists[p] /\ a = Among(s, Ready)
      BY <1>1, <2>1, ReadyListIs DEF Lists
    <2>3. /\ a \in Seq(Threads)
          /\ \A j \in 1 .. Len(a) : a[j] \in Ready /\ \E i \in 1 .. Len(s) : s[i] = a[j]
          /\ \A i \in 1 .. Len(s) : s[i] \in Ready => \E j \in 1 .. Len(a) : a[j] = s[i]
      BY <2>2, AmongEntries
    <2>4. a = <<>> => Len(a) = 0
      OBVIOUS
    <2>5. ASSUME NEW i \in 1 .. Len(s), s[i] \in Ready PROVE a # <<>>
      <3>1. PICK j \in 1 .. Len(a) : a[j] = s[i]
        BY <2>3, <2>5
      <3>2. Len(a) # 0
        BY <3>1
      <3>3. QED
        BY <2>4, <3>2
    <2>6. ASSUME NEW j \in 1 .. Len(a) PROVE Len(s) # 0
      <3>1. PICK i \in 1 .. Len(s) : s[i] = a[j]
        BY <2>3
      <3>2. QED
        BY <3>1
    <2>7. QED
      BY <2>1, <2>2, <2>3, <2>5, <2>6
  <1>3. ASSUME NEW p \in Prios, queue_head[p] = Null PROVE Lists[p] = <<>>
    <2>1. Len(Q[p]) = 0
      <3>1. Len(Q[p]) \in Nat /\ \A i \in 1 .. Len(Q[p]) : Q[p][i] # Null
        BY NthThread
      <3>2. Len(Q[p]) # 0 => 1 \in 1 .. Len(Q[p])
        BY <3>1
      <3>3. QED
        BY <1>1, <1>3, <3>1, <3>2 DEF Linking
    <2>2. Lists[p] \in Seq(Threads) /\ \A i \in 1 .. Len(Lists[p]) : FALSE
      BY <1>2, <2>1
    <2>3. Len(Lists[p]) \in Nat
      BY <2>2, LenProperties
    <2>4. Len(Lists[p]) = 0
      BY <2>2, <2>3
    <2>5. QED
      BY <2>2, <2>4, EmptySeq
  <1>4. ASSUME NEW t \in Threads, state[t] = "READY" PROVE Lists[priority[t]] # <<>>
    <2>1. priority[t] \in Prios /\ t \in Ready
      BY <1>4 DEF TypeOK, Ready
    <2>2. PICK i \in 1 .. Len(Q[priority[t]]) : Q[priority[t]][i] = t
      BY <1>1, <1>4 DEF Contents, InQueue
    <2>3. QED
      BY <1>2, <2>1, <2>2
  <1>5. QED
    BY <1>2, <1>3, <1>4 DEF Ready

\* dequeue unlinks a record: a READY one leaves the abstract queue it was first of,
\* and another was not in it.
LEMMA ListsLose ==
  ASSUME TypeOK, ListInv, NEW p \in Prios, queue_head[p] # Null, Unlink(p),
         state'[queue_head[p]] # "READY", \A u \in Threads \ {queue_head[p]} : state'[u] = state[u]
  PROVE  IF state[queue_head[p]] = "READY"
         THEN /\ Lists[p] # <<>> /\ Head(Lists[p]) = queue_head[p]
              /\ Lists' = [Lists EXCEPT ![p] = Tail(Lists[p])]
         ELSE Lists' = Lists
  <1>1. PICK Q \in Queues : Linking(Q, queue_head, queue_tail, next) /\ Contents(Q)
    BY DEF ListInv
  <1>2. PICK n \in Nat : n = Len(Q[p])
    BY NthThread
  <1>3. PICK t \in Threads : t = queue_head[p]
    BY DEF TypeOK
  <1>4. PICK R \in Queues :
        /\ Linking(R, queue_head', queue_tail', next')
        /\ n # 0 /\ Q[p][1] = t /\ Len(R[p]) = n - 1
        /\ \A i \in 1 .. n - 1 : R[p][i] = Q[p][i + 1]
        /\ \A q \in Prios \ {p} : R[q] = Q[q]
    <2>1. PICK R \in Queues :
          /\ Linking(R, queue_head', queue_tail', next')
          /\ Len(Q[p]) # 0 /\ Q[p][1] = queue_head[p] /\ Len(R[p]) = Len(Q[p]) - 1
          /\ \A i \in 1 .. Len(R[p]) : R[p][i] = Q[p][i + 1]
          /\ \A q \in Prios \ {p} : R[q] = Q[q]
      BY <1>1, UnlinkedList
    <2>2. QED
      BY <1>2, <1>3, <2>1
  <1>5. ASSUME NEW q \in Prios, NEW i \in 1 .. Len(R[q]) PROVE R[q][i] \in Threads \ {t}
    <2>0. R[q][i] \in Threads
      BY NthThread
    <2>1. CASE q = p
      <3>1. i + 1 \in 1 .. n /\ 1 \in 1 .. n /\ i + 1 # 1 /\ R[q][i] = Q[q][i + 1]
        BY <1>4, <2>1
      <3>2. Q[p][i + 1] # Q[p][1]
        BY <1>1, <1>2, <3>1 DEF Linking
      <3>3. QED
        BY <1>4, <2>0, <2>1, <3>1, <3>2
    <2>2. CASE q # p
      <3>1. 1 \in 1 .. n
        BY <1>4
      <3>2. Q[q][i] # Q[p][1]
        BY <1>1, <1>2, <1>4, <2>2, <3>1 DEF Linking
      <3>3. QED
        BY <1>4, <2>0, <2>2, <3>2
    <2>3. QED
      BY <2>1, <2>2
  <1>6. ASSUME NEW q \in Prios PROVE ReadyList(q)' = Among(R[q], Ready)
    <2>1. PICK s \in Seq(Threads) : s = R[q]
      BY NthThread
    <2>2. \A i \in 1 .. Len(s) : s[i] \in Ready <=> s[i] \in Ready'
      BY <1>3, <1>5, <2>1 DEF Ready
    <2>3. Among(s, Ready') = Among(s, Ready)
      BY <2>2, AmongAgree
    <2>4. QED
      BY <1>4, <2>1, <2>3, ReadyListWillBe
  <1>7. \A q \in Prios : Lists[q] = Among(Q[q], Ready)
    BY <1>1, ReadyListIs DEF Lists
  <1>8. PICK s \in Seq(Threads) : s = R[p]
    BY NthThread
  <1>9. Q[p] = <<t>> \o s
    <2>1. PICK u \in Seq(Threads) : u = Q[p] /\ Len(u) = n
      BY <1>2, NthThread
    <2>2. Len(s) = n - 1
      BY <1>4, <1>8
    <2>3. /\ Len(u) = Len(s) + 1 /\ u[1] = t
          /\ \A i \in 1 .. Len(s) : u[i + 1] = s[i]
      BY <1>4, <1>8, <2>1, <2>2
    <2>4. u = <<t>> \o s
      BY <2>3, PrependIs
    <2>5. QED
      BY <2>1, <2>4
  <1>10. PICK a \in Seq(Threads) : a = Among(s, Ready)
    BY AmongEntries
  <1>11. Lists[p] = IF t \in Ready THEN <<t>> \o a ELSE a
    <2>1. Among(<<t>> \o s, Ready) = IF t \in Ready THEN <<t>> \o Among(s, Ready) ELSE Among(s, Ready)
      BY AmongPrepend
    <2>2. QED
      BY <1>7, <1>9, <1>10, <2>1
  <1>12. \A q \in Prios : ReadyList(q)' = IF q = p THEN a ELSE Lists[q]
    BY <1>4, <1>6, <1>7, <1>8, <1>10
  <1>13. CASE state[t] = "READY"
    <2>1. Lists[p] = <<t>> \o a
      BY <1>11, <1>13 DEF Ready
    <2>2. <<t>> \o a # <<>> /\ Head(<<t>> \o a) = t /\ Tail(<<t>> \o a) = a
      BY HeadAndTail
    <2>3. Lists[p] # <<>> /\ Head(Lists[p]) = t /\ Tail(Lists[p]) = a
      BY <2>1, <2>2
    <2>4. Lists' = [Lists EXCEPT ![p] = Tail(Lists[p])]
      BY <1>12, <2>3 DEF Lists
    <2>5. QED
      BY <1>3, <1>13, <2>3, <2>4
  <1>14. CASE state[t] # "READY"
    <2>1. Lists[p] = a
      BY <1>11, <1>14 DEF Ready
    <2>2. \A q \in Prios : ReadyList(q)' = Lists[q]
      BY <1>12, <2>1
    <2>3. Lists' = Lists
      BY <2>2 DEF Lists
    <2>4. QED
      BY <1>3, <1>14, <2>3
  <1>15. QED
    BY <1>13, <1>14

\* Killing threads where they are.
LEMMA ListsKill ==
  ASSUME TypeOK, ListInv, UNCHANGED queueVars, NEW S, Ready' = Ready \ S
  PROVE  Lists' = [p \in Prios |-> Among(Lists[p], Threads \ S)]
  <1>1. PICK Q \in Queues : Linking(Q, queue_head, queue_tail, next) /\ Contents(Q)
    BY DEF ListInv
  <1>2. Linking(Q, queue_head', queue_tail', next')
    BY <1>1 DEF queueVars
  <1>3. ASSUME NEW p \in Prios PROVE ReadyList(p)' = Among(Lists[p], Threads \ S)
    <2>1. PICK s \in Seq(Threads) : s = Q[p]
      BY NthThread
    <2>2. Lists[p] = Among(s, Ready) /\ ReadyList(p)' = Among(s, Ready')
      BY <1>1, <1>2, <2>1, ReadyListIs, ReadyListWillBe DEF Lists
    <2>3. PICK W : W = Threads \ S
      OBVIOUS
    <2>4. Among(Among(s, Ready), W) = Among(s, Ready \cap W)
      BY AmongAmong
    <2>5. Ready' = Ready \cap W
      BY <2>3 DEF Ready
    <2>6. QED
      BY <2>2, <2>3, <2>4, <2>5
  <1>4. QED
    BY <1>3 DEF Lists

LEMMA FifoInit == ASSUME Init PROVE Fifo!Init
  <1>1. PICK p \in Prios : \E Q \in Queues :
          /\ Q = [r \in Prios |-> IF r = p THEN <<1>> ELSE <<>>]
          /\ Linking(Q, queue_head, queue_tail, next) /\ Contents(Q)
          /\ 1 \in Threads /\ priority[1] = p
    BY InitialQueues
  <1>2. PICK Q \in Queues :
          /\ Q = [r \in Prios |-> IF r = p THEN <<1>> ELSE <<>>]
          /\ Linking(Q, queue_head, queue_tail, next)
          /\ 1 \in Threads /\ priority[1] = p
    BY <1>1
  <1>3. /\ mode = "kernel" /\ fnd_current = Idle /\ priority \in [Threads -> Prios]
        /\ state = [t \in Threads |-> IF t = 1 THEN "READY" ELSE "FREE"]
    <2>1. mode = "kernel" /\ fnd_current = Idle /\ state = [t \in Threads |-> IF t = 1 THEN "READY" ELSE "FREE"]
      BY DEF Init
    <2>2. PICK q \in Prios : priority = [t \in Threads |-> IF t = 1 THEN q ELSE 0]
      BY DEF Init
    <2>3. 0 \in Prios
      BY SchedAssumption DEF Prios
    <2>4. QED
      BY <2>1, <2>2, <2>3
  <1>4. 1 \in Ready
    BY <1>2, <1>3 DEF Ready
  <1>5. Among(<<1>>, Ready) = <<1>> /\ Among(<<>>, Ready) = <<>>
    <2>1. <<>> \in Seq(Threads) /\ Append(<<>>, 1) = <<1>>
      OBVIOUS
    <2>2. Among(<<>>, Ready) = <<>>
      BY AmongEmpty
    <2>3. PICK e \in Seq(Threads), t \in Threads : e = <<>> /\ t = 1
      BY <1>2, <2>1
    <2>4. Among(Append(e, t), Ready) = IF t \in Ready THEN Append(Among(e, Ready), t) ELSE Among(e, Ready)
      BY AmongAppend
    <2>5. QED
      BY <1>4, <2>1, <2>2, <2>3, <2>4
  <1>6. \A r \in Prios : ReadyList(r) = IF r = p THEN <<1>> ELSE <<>>
    BY <1>2, <1>5, ReadyListIs
  <1>7. Running = Idle
    BY <1>3 DEF Running
  <1>8. QED
    BY <1>2, <1>3, <1>6, <1>7 DEF Fifo!Init

\* Every step of the linked queues is a step of the FIFO queues, or one they do not see.
LEMMA FifoStep ==
  ASSUME StaleReuse = FALSE, TypeOK, RunInv, QInv, SliceInv, [Next]_vars
  PROVE  Fifo!Next \/ UNCHANGED Fifo!vars
  <1> USE ConstantTypes
  <1>0. /\ ListInv /\ None \notin Threads /\ None # Idle /\ Idle \notin Threads
        /\ fnd_current \in Threads \cup {Idle}
    BY FifoAssumption DEF QInv, TypeOK, Threads, Idle
  <1>u. ASSUME Lists' = Lists, UNCHANGED priority, Running' = Running, Spent' = Spent
        PROVE  UNCHANGED Fifo!vars
    BY <1>u DEF Fifo!vars, Lists, Spent
  \* What the FIFO queues do not see.
  <1>s. ASSUME UNCHANGED <<queueVars, state, priority, slice, fnd_current>>,
               (mode = "dequeue") = (mode' = "dequeue")
        PROVE  UNCHANGED Fifo!vars
    <2>1. Lists' = Lists
      BY <1>s DEF Lists, ReadyList, List, OnQueue, Walk, Ready, queueVars
    <2>2. Running' = Running /\ Spent' = Spent
      BY <1>s DEF Running, Spent, CurrentRunning
    <2>3. QED
      BY <1>s, <1>u, <2>1, <2>2
  \* The running thread or the idle thread gives up the CPU.
  <1>l. ASSUME UNCHANGED <<queueVars, priority, fnd_current>>, Ready' = Ready,
               mode' = "dequeue" \/ fnd_current # Idle, mode # "dequeue",
               fnd_current # Idle => ~CurrentRunning'
        PROVE  Fifo!Next \/ UNCHANGED Fifo!vars
    <2>1. Lists' = Lists
      BY <1>l DEF Lists, ReadyList, List, OnQueue, Walk, queueVars
    <2>2. Running' = None /\ Spent' = FALSE
      BY <1>0, <1>l DEF Running, Spent
    <2>3. CASE Running = None
      <3>1. Spent = FALSE
        BY <1>0, <2>3 DEF Running, Spent
      <3>2. QED
        BY <1>l, <1>u, <2>1, <2>2, <2>3, <3>1
    <2>4. CASE Running # None
      <3>1. Fifo!Leave
        BY <1>l, <2>1, <2>2, <2>4 DEF Fifo!Leave, Lists, Spent
      <3>2. QED
        BY <3>1 DEF Fifo!Next
    <2>5. QED
      BY <2>3, <2>4
  \* A thread joins the tail of a queue.
  <1>a. ASSUME NEW t \in Threads, NEW p \in Prios, EnqueueTail(t, p),
               ~Linked(t) \/ state[t] \notin {"READY", "DEAD"}, state[t] \notin {"READY", "RUNNING"},
               state'[t] = "READY", \A u \in Threads \ {t} : state'[u] = state[u],
               \A u \in Threads \ {t} : slice'[u] = slice[u],
               priority' = [priority EXCEPT ![t] = p], UNCHANGED fnd_current,
               mode \in {"user", "tick", "kernel"}, mode' \in {"tick", "kernel"}
        PROVE  Fifo!Next
    <2>1. Lists' = [Lists EXCEPT ![p] = Append(Lists[p], t)]
      BY <1>0, <1>a, ListsGain
    <2>2. Running' = Running /\ Spent' = Spent /\ t # Running
      <3>1. CASE fnd_current = Idle
        BY <1>0, <1>a, <3>1 DEF Running, Spent
      <3>2. CASE fnd_current = t
        <4>1. ~CurrentRunning /\ ~CurrentRunning' /\ fnd_current # Idle
          BY <1>0, <1>a, <3>2 DEF CurrentRunning
        <4>2. QED
          BY <1>0, <1>a, <4>1 DEF Running, Spent
      <3>3. CASE fnd_current \in Threads \ {t}
        <4>1. CurrentRunning' = CurrentRunning /\ fnd_current # Idle /\ slice'[fnd_current] = slice[fnd_current]
          BY <1>0, <1>a, <3>3 DEF CurrentRunning
        <4>2. QED
          BY <1>0, <1>a, <3>3, <4>1 DEF Running, Spent
      <3>4. QED
        BY <1>0, <3>1, <3>2, <3>3
    <2>3. \A q \in Prios : \A i \in 1 .. Len(Lists[q]) : Lists[q][i] # t
      BY <1>0, <1>a, ListsHold
    <2>4. ~Fifo!Queued(t)
      BY <2>3 DEF Fifo!Queued, Lists
    <2>5. Fifo!Arrive(t, p)
      BY <1>a, <2>1, <2>2, <2>4 DEF Fifo!Arrive, Lists, Spent
    <2>6. QED
      BY <2>5 DEF Fifo!Next
  <1>c. ASSUME NEW t \in Threads, NEW p \in Procs, NEW q \in Prios, mode = "user", AllocThread(t), Create(t, p, q)
        PROVE  Fifo!Next
    <2>1. /\ ~Linked(t) /\ EnqueueTail(t, q) /\ t # fnd_current /\ mode' = "kernel"
          /\ state[t] \in {"FREE", "DEAD"} /\ UNCHANGED fnd_current /\ priority' = [priority EXCEPT ![t] = q]
      BY <1>c DEF Create, AllocThread, Allocatable
    <2>2. /\ state'[t] = "READY" /\ \A u \in Threads \ {t} : state'[u] = state[u]
          /\ \A u \in Threads \ {t} : slice'[u] = slice[u]
      BY <1>c DEF Create, TypeOK
    <2>3. QED
      BY <1>a, <1>c, <2>1, <2>2
  <1>1. CASE OtherTrap
    BY <1>1, <1>s DEF OtherTrap, recVars
  <1>2. CASE Yield
    <2>1. fnd_current \in Threads /\ CurrentRunning /\ UNCHANGED <<queueVars, state, priority, fnd_current>>
      BY <1>2 DEF Yield, InThread, RunInv, TypeOK, recVars
    <2>2. slice'[fnd_current] = 0
      BY <1>2, <2>1 DEF Yield, TypeOK
    <2>3. Running = fnd_current /\ Running' = Running /\ Spent' = TRUE
      BY <1>0, <2>1, <2>2 DEF Running, Spent, CurrentRunning
    <2>4. Lists' = Lists
      BY <2>1 DEF Lists, ReadyList, List, OnQueue, Walk, Ready, queueVars
    <2>5. Fifo!Spend
      BY <2>1, <2>3, <2>4 DEF Fifo!Spend, Lists, Spent
    <2>6. QED
      BY <2>5 DEF Fifo!Next
  <1>3. ASSUME NEW n \in Timeouts \cup {Forever}, Block(n) PROVE Fifo!Next \/ UNCHANGED Fifo!vars
    <2>1. fnd_current \in Threads /\ state[fnd_current] = "RUNNING" /\ fnd_current # Idle
      BY <1>3 DEF Block, InThread, RunInv, CurrentRunning, TypeOK
    <2>2. /\ state'[fnd_current] = "BLOCKED" /\ \A u \in Threads \ {fnd_current} : state'[u] = state[u]
          /\ UNCHANGED <<queueVars, priority, fnd_current>> /\ mode = "user"
      BY <1>3, <2>1 DEF Block, InThread, TypeOK, recVars
    <2>3. Ready' = Ready /\ ~CurrentRunning'
      BY <2>1, <2>2 DEF Ready, CurrentRunning
    <2>4. QED
      BY <1>l, <2>1, <2>2, <2>3
  <1>4. CASE ThreadCreate
    <2>1. PICK t \in Threads : AllocThread(t) /\ Create(t, proc[fnd_current], priority[fnd_current])
      BY <1>4 DEF ThreadCreate
    <2>2. proc[fnd_current] \in Procs /\ priority[fnd_current] \in Prios /\ mode = "user"
      BY <1>4 DEF ThreadCreate, InThread, TypeOK
    <2>3. QED
      BY <1>c, <2>1, <2>2
  <1>5. ASSUME NEW p \in Procs, NEW q \in Prios, ProcSpawn(p, q) PROVE Fifo!Next
    BY <1>5, <1>c DEF ProcSpawn, InThread
  <1>6. ASSUME NEW t \in Threads, CloseThreadHandle(t) PROVE UNCHANGED Fifo!vars
    BY <1>6, <1>s DEF CloseThreadHandle, InThread
  <1>7. CASE ThreadExit
    <2>1. fnd_current \in Threads /\ state[fnd_current] = "RUNNING" /\ fnd_current # Idle
      BY <1>7 DEF ThreadExit, InThread, RunInv, CurrentRunning, TypeOK
    <2>2. /\ state'[fnd_current] = "DEAD" /\ \A u \in Threads \ {fnd_current} : state'[u] = state[u]
          /\ UNCHANGED <<queueVars, priority, fnd_current>> /\ mode = "user"
      BY <1>7, <2>1 DEF ThreadExit, InThread, TypeOK, recVars
    <2>3. Ready' = Ready /\ ~CurrentRunning'
      BY <2>1, <2>2 DEF Ready, CurrentRunning
    <2>4. QED
      BY <1>l, <2>1, <2>2, <2>3
  <1>8. ASSUME NEW p \in Procs, KillProc(p) PROVE Fifo!Next
    <2>1. PICK S \in SUBSET Threads : S = {t \in Threads : proc[t] = p}
      OBVIOUS
    <2>2. /\ fnd_current \in Threads /\ fnd_current # Idle /\ CurrentRunning
          /\ UNCHANGED <<queueVars, slice, priority, fnd_current>>
      BY <1>8 DEF KillProc, InThread, RunInv, TypeOK
    <2>3. \A t \in Threads : state'[t] = IF t \in S /\ state[t] # "FREE" THEN "DEAD" ELSE state[t]
      BY <1>8, <2>1 DEF KillProc
    <2>4. Ready' = Ready \ S
      BY <2>3 DEF Ready
    <2>5. Lists' = [q \in Prios |-> Among(Lists[q], Threads \ S)]
      BY <1>0, <2>2, <2>4, ListsKill
    <2>6. Running = fnd_current /\ (CurrentRunning' <=> fnd_current \notin S)
      BY <1>0, <2>2, <2>3 DEF Running, CurrentRunning
    <2>7. Running' = IF Running \in S THEN None ELSE Running
      BY <2>2, <2>6 DEF Running
    <2>8. Spent' = (Spent /\ Running \notin S)
      BY <2>2, <2>6 DEF Spent
    <2>9. \A q \in Prios : Fifo!Among(Lists[q], Threads \ S) = Among(Lists[q], Threads \ S)
      BY DEF Fifo!Among, Fifo!KeptOf, Among, KeptOf
    <2>10. Fifo!Kill(S)
      BY <2>2, <2>5, <2>7, <2>8, <2>9 DEF Fifo!Kill, Lists, Spent
    <2>11. QED
      BY <2>10 DEF Fifo!Next
  <1>9. CASE TimerIrq
    BY <1>9, <1>s DEF TimerIrq, recVars
  <1>10. ASSUME NEW t \in Threads, WakeByHandler(t) \/ TimedOut(t) PROVE Fifo!Next
    <2>1. Wake(t) /\ mode \in {"tick", "kernel"} /\ mode' = mode
      BY <1>10 DEF WakeByHandler, TimedOut
    <2>2. /\ priority[t] \in Prios /\ state[t] = "BLOCKED" /\ EnqueueTail(t, priority[t])
          /\ UNCHANGED <<fnd_current, slice>> /\ priority' = [priority EXCEPT ![t] = priority[t]]
      BY <2>1 DEF Wake, TypeOK, recVars
    <2>3. /\ state'[t] = "READY" /\ \A u \in Threads \ {t} : state'[u] = state[u]
      BY <2>1 DEF Wake, TypeOK
    <2>4. QED
      BY <1>a, <2>1, <2>2, <2>3
  <1>11. CASE TickEnd
    <2>1. /\ UNCHANGED <<queueVars, state, priority, fnd_current>> /\ mode = "tick" /\ mode' = "kernel"
          /\ CurrentRunning
      BY <1>11 DEF TickEnd, recVars, RunInv
    <2>2. Lists' = Lists /\ Running' = Running
      BY <2>1 DEF Lists, ReadyList, List, OnQueue, Walk, Ready, queueVars, Running, CurrentRunning
    <2>3. CASE fnd_current = Idle
      <3>1. Spent' = Spent
        BY <2>1, <2>3 DEF Spent
      <3>2. QED
        BY <1>u, <2>1, <2>2, <3>1
    <2>4. CASE fnd_current # Idle
      <3>1. /\ fnd_current \in Threads /\ slice[fnd_current] \in Nat
            /\ slice'[fnd_current] = IF slice[fnd_current] > 0 THEN slice[fnd_current] - 1 ELSE 0
        BY <1>0, <1>11, <2>1, <2>4 DEF TickEnd, TypeOK
      <3>2. CASE slice'[fnd_current] = 0
        <4>1. Running = fnd_current /\ Spent' = TRUE
          BY <2>1, <2>4, <3>2 DEF Running, Spent, CurrentRunning
        <4>2. Fifo!Spend
          BY <2>1, <2>2, <3>1, <4>1 DEF Fifo!Spend, Lists, Spent
        <4>3. QED
          BY <4>2 DEF Fifo!Next
      <3>3. CASE slice'[fnd_current] # 0
        <4>1. Spent' = FALSE /\ Spent = FALSE
          BY <2>1, <3>1, <3>3 DEF Spent
        <4>2. QED
          BY <1>u, <2>1, <2>2, <4>1
      <3>4. QED
        BY <3>2, <3>3
    <2>5. QED
      BY <2>3, <2>4
  <1>12. CASE Resume
    BY <1>12, <1>s DEF Resume, recVars
  <1>13. CASE Requeue
    <2> DEFINE t == fnd_current
               p == priority[fnd_current]
    <2>1. /\ t \in Threads /\ t # Idle /\ p \in Prios /\ state[t] = "RUNNING" /\ CurrentRunning
          /\ mode = "kernel" /\ mode' = "dequeue" /\ need_resched /\ UNCHANGED <<priority, fnd_current>>
      BY <1>13 DEF Requeue, CurrentRunning, TypeOK, recVars
    <2>2. state'[t] = "READY" /\ \A u \in Threads \ {t} : state'[u] = state[u]
      BY <1>13, <2>1 DEF Requeue, TypeOK
    <2>3. Running = t /\ Running' = None /\ Spent' = FALSE
      BY <2>1, <2>2 DEF Running, Spent, CurrentRunning
    <2>4. /\ EnqueueTail(t, p) => Lists' = [Lists EXCEPT ![p] = Append(Lists[p], t)]
          /\ EnqueueHead(t, p) => Lists' = [Lists EXCEPT ![p] = <<t>> \o Lists[p]]
      BY <1>0, <2>1, <2>2, ListsGain
    <2>5. CASE slice[t] = 0
      <3>1. EnqueueTail(t, p) /\ Spent
        BY <1>13, <2>1, <2>5 DEF Requeue, Spent
      <3>2. Lists' = [Lists EXCEPT ![p] = Append(Lists[p], t)]
        BY <2>4, <3>1
      <3>3. Fifo!Expire
        BY <2>1, <2>3, <3>1, <3>2 DEF Fifo!Expire, Lists, Spent
      <3>4. QED
        BY <3>3 DEF Fifo!Next
    \* A thread that has ticks left gives way to a more urgent one only.
    <2>6. CASE slice[t] # 0
      <3>1. EnqueueHead(t, p) /\ ~Spent
        BY <1>13, <2>6 DEF Requeue, Spent
      <3>2. Lists' = [Lists EXCEPT ![p] = <<t>> \o Lists[p]]
        BY <2>4, <3>1
      <3>3. PICK u \in Threads : state[u] = "READY" /\ priority[u] < p
        BY <2>1, <2>6 DEF SliceInv
      <3>4. priority[u] \in Prios /\ Lists[priority[u]] # <<>>
        BY <1>0, <3>3, ListsHold DEF TypeOK
      <3>5. Fifo!Preempt
        BY <2>1, <2>3, <3>1, <3>2, <3>3, <3>4 DEF Fifo!Preempt, Lists, Spent
      <3>6. QED
        BY <3>5 DEF Fifo!Next
    <2>7. QED
      BY <2>5, <2>6
  <1>14. CASE Leave
    <2>1. /\ UNCHANGED <<queueVars, state, priority, fnd_current>> /\ mode = "kernel" /\ mode' = "dequeue"
          /\ fnd_current # Idle => ~CurrentRunning
      BY <1>14 DEF Leave, recVars
    <2>2. Ready' = Ready /\ CurrentRunning' = CurrentRunning
      BY <2>1 DEF Ready, CurrentRunning
    <2>3. QED
      BY <1>l, <2>1, <2>2
  <1>15. CASE DispatchIdle
    <2>1. /\ UNCHANGED <<queueVars, state, priority, slice>> /\ mode = "dequeue" /\ mode' = "user" /\ fnd_current' = Idle
          /\ \A p \in Prios : queue_head[p] = Null
      BY <1>15 DEF DispatchIdle, recVars
    <2>2. Running = None /\ Spent = FALSE
      BY <1>0, <2>1 DEF Running, Spent, CurrentRunning, RunInv
    <2>3. Running' = Idle /\ Spent' = FALSE
      BY <2>1 DEF Running, Spent
    <2>4. Lists' = Lists
      BY <2>1 DEF Lists, ReadyList, List, OnQueue, Walk, Ready, queueVars
    <2>5. \A p \in Prios : Lists[p] = <<>>
      BY <1>0, <2>1, ListsHold
    <2>6. Fifo!Dispatch
      BY <2>1, <2>2, <2>3, <2>4, <2>5 DEF Fifo!Dispatch, Lists, Spent
    <2>7. QED
      BY <2>6 DEF Fifo!Next
  <1>16. ASSUME NEW p \in Prios, Skip(p) PROVE UNCHANGED Fifo!vars
    <2>1. /\ queue_head[p] # Null /\ Unlink(p) /\ UNCHANGED <<mode, state, priority, slice, fnd_current>>
          /\ state[queue_head[p]] # "READY"
      BY <1>16 DEF Skip, FirstQueue, recVars
    <2>2. Lists' = Lists
      BY <1>0, <2>1, ListsLose
    <2>3. Running' = Running /\ Spent' = Spent
      BY <2>1 DEF Running, Spent, CurrentRunning
    <2>4. QED
      BY <1>u, <2>1, <2>2, <2>3
  <1>17. ASSUME NEW p \in Prios, Dispatch(p) PROVE Fifo!Next
    <2>1. PICK t \in Threads : t = queue_head[p]
      BY <1>17 DEF Dispatch, FirstQueue, TypeOK
    <2>2. /\ queue_head[p] # Null /\ Unlink(p) /\ UNCHANGED <<priority, slice>> /\ mode = "dequeue" /\ mode' = "user"
          /\ state[t] = "READY" /\ fnd_current' = t /\ state' = [state EXCEPT ![t] = "RUNNING"]
          /\ \A q \in Prios : q < p => queue_head[q] = Null
      BY <1>17, <2>1 DEF Dispatch, FirstQueue, recVars
    <2>3. state'[t] = "RUNNING" /\ \A u \in Threads \ {t} : state'[u] = state[u]
      BY <2>2 DEF TypeOK
    <2>4. /\ Lists[p] # <<>> /\ Head(Lists[p]) = t
          /\ Lists' = [Lists EXCEPT ![p] = Tail(Lists[p])]
      BY <1>0, <2>1, <2>2, <2>3, ListsLose
    <2>5. Running = None /\ Spent = FALSE
      BY <1>0, <2>2 DEF Running, Spent, CurrentRunning, RunInv
    <2>6. Running' = t /\ Spent' = FALSE
      BY <1>0, <2>1, <2>2, <2>3 DEF Running, Spent, CurrentRunning, SliceInv
    <2>7. \A q \in Prios : q < p => Lists[q] = <<>>
      BY <1>0, <2>2, ListsHold
    <2>8. Fifo!Urgent(p)
      BY <2>4, <2>7 DEF Fifo!Urgent, Lists
    <2>9. Fifo!Dispatch
      BY <2>2, <2>4, <2>5, <2>6, <2>8 DEF Fifo!Dispatch, Lists, Spent
    <2>10. QED
      BY <2>9 DEF Fifo!Next
  <1>18. CASE UNCHANGED vars
    BY <1>18, <1>s DEF vars, recVars
  <1>19. QED
    BY <1>1, <1>2, <1>3, <1>4, <1>5, <1>6, <1>7, <1>8, <1>9, <1>10, <1>11, <1>12, <1>13,
       <1>14, <1>15, <1>16, <1>17, <1>18 DEF Next, Kernel, Trap

\* As long as no record is reused while it is linked, the linked lists of sched.c are one
\* FIFO queue of threads per priority: enqueue, dequeue with the records it skips,
\* sched_wake, sched_kill_proc and sched_next implement SchedFifo, and a thread that has
\* ticks left loses the CPU to a more urgent one only.
THEOREM QueuesAreFifo == ASSUME StaleReuse = FALSE PROVE Spec => ImplementsFifo
  <1>1. Init => Fifo!Init
    BY FifoInit
  <1>2. TypeOK /\ RunInv /\ QInv /\ SliceInv /\ [Next]_vars => [Fifo!Next]_(Fifo!vars)
    BY FifoStep
  <1>3. QED
    BY <1>1, <1>2, TypeCorrect, RunInvHolds, QueueInvHolds, SliceInvHolds, PTL
       DEF Spec, ImplementsFifo, Fifo!Spec
=============================================================================

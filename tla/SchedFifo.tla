----------------------------- MODULE SchedFifo -----------------------------
(***************************************************************************)
(* What the scheduler promises (sched.c's header and the scheduler section  *)
(* of doc/spec_Foundation.md): one FIFO queue of threads per priority, the  *)
(* CPU goes to the first thread of the most urgent non-empty queue, a thread *)
(* whose slice is used up goes to the tail of its queue, and one that loses *)
(* the CPU earlier loses it to a more urgent thread and keeps its place at  *)
(* the head.  A thread leaves a queue only to run or because it is killed.  *)
(***************************************************************************)
EXTENDS Subsequences

CONSTANTS Threads, Prios, Idle, None

VARIABLES rq,    \* rq[p]: the ready threads of priority p, first to run first
          prio,  \* prio[t]: the priority of a queued or running thread
          run,   \* the running thread, Idle, or None while the kernel chooses
          spent  \* the running thread has used up its slice, or yields

vars == <<rq, prio, run, spent>>

Queued(t) == \E p \in Prios : \E i \in 1 .. Len(rq[p]) : rq[p][i] = t
Urgent(p) == rq[p] # <<>> /\ \A q \in Prios : q < p => rq[q] = <<>>

Init ==
  \E t \in Threads, p \in Prios :
    /\ rq = [q \in Prios |-> IF q = p THEN <<t>> ELSE <<>>]
    /\ prio \in [Threads -> Prios] /\ prio[t] = p
    /\ run = Idle
    /\ spent = FALSE

\* A new or a woken thread joins the tail of a queue.
Arrive(t, p) ==
  /\ t # run /\ ~Queued(t)
  /\ rq' = [rq EXCEPT ![p] = Append(@, t)]
  /\ prio' = [prio EXCEPT ![t] = p]
  /\ UNCHANGED <<run, spent>>

\* The last tick of the running thread's slice passes, or it yields.
Spend ==
  /\ run \in Threads
  /\ spent' = TRUE
  /\ UNCHANGED <<rq, prio, run>>

\* A thread that has used up its slice goes to the tail.
Expire ==
  /\ run \in Threads /\ spent
  /\ rq' = [rq EXCEPT ![prio[run]] = Append(@, run)]
  /\ run' = None /\ spent' = FALSE
  /\ UNCHANGED prio

\* The running thread gives way to a more urgent one.
Preempt ==
  /\ run \in Threads /\ ~spent
  /\ \E p \in Prios : p < prio[run] /\ rq[p] # <<>>
  /\ rq' = [rq EXCEPT ![prio[run]] = <<run>> \o @]
  /\ run' = None /\ spent' = FALSE
  /\ UNCHANGED prio

\* The running thread blocks or ends, or the idle thread is interrupted.
Leave ==
  /\ run # None
  /\ run' = None /\ spent' = FALSE
  /\ UNCHANGED <<rq, prio>>

\* The threads of S are killed, wherever they are.
Kill(S) ==
  /\ rq' = [p \in Prios |-> Among(rq[p], Threads \ S)]
  /\ run' = IF run \in S THEN None ELSE run
  /\ spent' = (spent /\ run \notin S)
  /\ UNCHANGED prio

\* The CPU goes to the first thread of the most urgent non-empty queue.
Dispatch ==
  /\ run = None
  /\ \/ \E p \in Prios : /\ Urgent(p)
                         /\ run' = Head(rq[p])
                         /\ rq' = [rq EXCEPT ![p] = Tail(@)]
     \/ /\ \A p \in Prios : rq[p] = <<>>
        /\ run' = Idle
        /\ UNCHANGED rq
  /\ UNCHANGED <<prio, spent>>

Next ==
  \/ \E t \in Threads, p \in Prios : Arrive(t, p)
  \/ Spend \/ Expire \/ Preempt \/ Leave \/ Dispatch
  \/ \E S \in SUBSET Threads : Kill(S)

Spec == Init /\ [][Next]_vars
=============================================================================

-------------------------- MODULE SchedRefinement --------------------------
(***************************************************************************)
(* The linked queues of sched.c implement the FIFO queues of SchedFifo: an   *)
(* abstract queue is the list from queue_head without the records that are   *)
(* no longer READY, which sched_kill_proc leaves linked for dequeue to skip. *)
(***************************************************************************)
EXTENDS Sched, Subsequences

CONSTANT None   \* no thread runs: the kernel is about to choose one

ASSUME FifoAssumption == None \notin Threads \cup {Idle}

List(p) == [i \in 1 .. Cardinality(OnQueue(p)) |-> Walk(p)[i - 1]]

Ready == {t \in Threads : state[t] = "READY"}
ReadyList(p) == Among(List(p), Ready)

Running == IF fnd_current = Idle
           THEN IF mode = "dequeue" THEN None ELSE Idle
           ELSE IF CurrentRunning THEN fnd_current ELSE None

Fifo == INSTANCE SchedFifo WITH rq <- [p \in Prios |-> ReadyList(p)],
                                prio <- priority, run <- Running,
                                spent <- fnd_current # Idle /\ CurrentRunning
                                         /\ slice[fnd_current] = 0

\* Every step of enqueue, dequeue, sched_wake, sched_kill_proc and sched_next is
\* a step of the FIFO scheduler or changes nothing it can see.
ImplementsFifo == Fifo!Spec
=============================================================================

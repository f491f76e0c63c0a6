-------------------------------- MODULE Blk --------------------------------
(***************************************************************************)
(* Disk requests of the Foundation kernel: the queue of                      *)
(* src/foundation/kernel/blk.c, the IDC that transfers sectors by DMA, the    *)
(* edge-latched interrupt line between them and the loop of trap.c that       *)
(* drains it, with processes that end while their transfer is running.        *)
(*                                                                         *)
(* The kernel runs with interrupts off but the device does not wait for it:    *)
(* a transfer may finish between any two steps of the kernel.  Requests that   *)
(* fail their argument checks change nothing and are not modelled.  The        *)
(* sectors themselves are not modelled, only whose request they belong to.     *)
(***************************************************************************)
EXTENDS Naturals, Sequences, FiniteSets

CONSTANTS
  Threads, Procs,
  Home,       \* Home[t]: the process of a thread
  Null,
  MaxQueue    \* FND_MAX_THREADS, the entries of queue

ASSUME BlkAssumption ==
  /\ Home \in [Threads -> Procs]
  /\ Null \notin Threads \cup Procs
  /\ IsFiniteSet(Threads) /\ MaxQueue = Cardinality(Threads)

VARIABLES
  vm,       \* mm_vm: transfers go through the kernel's bounce buffer
  proc,     \* proc[p]: "LIVE", "EXITING" or "FREE"; the memory of a FREE process is released
  thread,   \* thread[t]: "READY", "BLK_IO" or "DEAD"
  result,   \* result[t]: what the last blk_io of t returned
  queue,    \* queue: the requests, queue[1] on the IDC while running
  running,
  idc,      \* the IDC: busy, the thread it transfers for, its status, its interrupt level
  bounce,   \* the thread whose sectors are in the bounce buffer
  enabled,  \* the interrupt enables of the IDC and of its IRQC line
  pending,  \* the IRQC's PENDING bit: set by a rising edge of the level
  kop       \* where the kernel is: user mode, handle_irqs or proc_exit

vars == <<vm, proc, thread, result, queue, running, idc, bounce, enabled, pending, kop>>

Requests == [thread : Threads, op : {"read", "write", "identify"}]
Results  == {"none", "done", "error"}

TypeOK ==
  /\ vm \in BOOLEAN
  /\ proc \in [Procs -> {"LIVE", "EXITING", "FREE"}]
  /\ thread \in [Threads -> {"READY", "BLK_IO", "DEAD"}]
  /\ result \in [Threads -> Results]
  /\ queue \in Seq(Requests) /\ Len(queue) <= MaxQueue
  /\ running \in BOOLEAN
  /\ idc \in [busy : BOOLEAN, thread : Threads \cup {Null}, op : {"read", "write", "none"},
              status : {"idle", "done", "error"}, irq : BOOLEAN]
  /\ bounce \in Threads \cup {Null}
  /\ enabled \in BOOLEAN /\ pending \in BOOLEAN
  /\ kop \in [at : {"user", "look", "blk_irq", "ack", "exit"}, proc : Procs \cup {Null}]

At(place) == [at |-> place, proc |-> Null]

-----------------------------------------------------------------------------
(* The device.                                                              *)

\* idc_clear: status and interrupt bits written back, which lowers the level.
Cleared(d) == [d EXCEPT !.status = "idle", !.irq = FALSE]

\* The transfer ends, or is refused: finish_success, finish_error.
IdcFinish ==
  /\ idc.busy
  /\ \E status \in {"done", "error"} :
       /\ idc' = [idc EXCEPT !.busy = FALSE, !.status = status, !.irq = @ \/ enabled]
       /\ bounce' = IF vm /\ idc.op = "read" THEN idc.thread ELSE bounce
  /\ pending' = (pending \/ (enabled /\ ~idc.irq))
  /\ UNCHANGED <<vm, proc, thread, result, queue, running, enabled, kop>>

-----------------------------------------------------------------------------
(* The queue.                                                               *)

Mine(p, r) == Home[r.thread] = p

\* run_queue, called with nothing running: the IDENTIFY requests at the head
\* of q are answered at once, then the next transfer starts.
Head1(q) == CHOOSE i \in 1 .. Len(q) + 1 :
              /\ \A j \in 1 .. i - 1 : q[j].op = "identify"
              /\ i <= Len(q) => q[i].op # "identify"
Identified(q) == {q[i].thread : i \in 1 .. Head1(q) - 1}

\* start of request r: registers, DMA channel and, with V, the data to write.
\* A busy device ignores the command.
Started(r) == IF idc.busy THEN Cleared(idc)
              ELSE [busy |-> TRUE, thread |-> r.thread, op |-> r.op, status |-> "idle", irq |-> FALSE]
Filled(r)  == IF vm /\ r.op = "write" THEN r.thread ELSE bounce

\* An IDENTIFY ends at once: its completion is latched in the IRQC although the
\* kernel clears it.
RunQueue(q) ==
  LET rest == SubSeq(q, Head1(q), Len(q)) IN
  /\ queue' = rest
  /\ running' = (rest # <<>>)
  /\ idc' = IF rest # <<>> THEN Started(rest[1]) ELSE Cleared(idc)
  /\ bounce' = IF rest # <<>> THEN Filled(rest[1]) ELSE bounce
  /\ enabled' = (enabled \/ rest # <<>>)
  /\ pending' = (pending \/ (enabled /\ Identified(q) # {}))

\* sys_blk_io that finds the queue empty and needs no transfer, the one that
\* starts its transfer, and the one that waits behind others.
IdentifyNow(t) ==
  /\ kop.at = "user" /\ thread[t] = "READY" /\ queue = <<>>
  /\ \E status \in {"done", "error"} : result' = [result EXCEPT ![t] = status]
  /\ idc' = Cleared(idc)
  /\ pending' = (pending \/ enabled)
  /\ UNCHANGED <<vm, proc, thread, queue, running, bounce, enabled, kop>>

WaitBehindCopies(r) == queue' = Append(queue, r) /\ bounce' = Filled(r) /\ UNCHANGED <<running, idc, enabled, pending>>
WaitBehind(r) == queue' = Append(queue, r) /\ UNCHANGED <<running, idc, bounce, enabled, pending>>

BlkIo(t, op) ==
  LET r == [thread |-> t, op |-> op] IN
  /\ kop.at = "user" /\ thread[t] = "READY" /\ Len(queue) < MaxQueue
  /\ op = "identify" => queue # <<>>
  /\ thread' = [thread EXCEPT ![t] = "BLK_IO"]
  /\ IF running THEN WaitBehind(r) ELSE RunQueue(Append(queue, r))
  /\ UNCHANGED <<vm, proc, result, kop>>

-----------------------------------------------------------------------------
(* Interrupts.                                                              *)

\* Interrupts are on in user mode: the CPU enters the kernel for the IDC's line,
\* or for another one.
IdcInterrupt ==
  /\ kop.at = "user" /\ pending /\ enabled
  /\ kop' = At("look")
  /\ UNCHANGED <<vm, proc, thread, result, queue, running, idc, bounce, enabled, pending>>

OtherInterrupt ==
  /\ kop.at = "user"
  /\ kop' = At("look")
  /\ UNCHANGED <<vm, proc, thread, result, queue, running, idc, bounce, enabled, pending>>

\* blk_pending: the device signals although no edge is latched.
NeverPending == FALSE
BlkPending == running /\ idc.irq

\* The head of the loop of handle_irqs.
LookForIrq ==
  /\ kop.at = "look"
  /\ kop' = At(IF (pending /\ enabled) \/ BlkPending THEN "blk_irq" ELSE "user")
  /\ UNCHANGED <<vm, proc, thread, result, queue, running, idc, bounce, enabled, pending>>

\* blk_irq waits for the device and the DMA channel.
TransferOver == ~idc.busy

\* idc_result: FND_OK unless an error bit is set.  A lookup table of the error codes
\* would have a hole, as the comment in the code says.
ResultAfterClear == "done"
IdcResult == IF idc.status = "error" THEN "error" ELSE "done"

\* blk_irq: the requester of queue[1] gets the result, then the queue runs on.
\* Its READ data is copied out of the bounce buffer before that is filled again.
BlkIrqSpurious ==
  /\ kop.at = "blk_irq" /\ ~running
  /\ idc' = Cleared(idc)
  /\ kop' = At("ack")
  /\ UNCHANGED <<vm, proc, thread, result, queue, running, bounce, enabled, pending>>

BlkIrq ==
  LET done == {queue[1].thread} \cup Identified(Tail(queue)) IN
  /\ kop.at = "blk_irq" /\ running /\ TransferOver
  /\ thread' = [t \in Threads |-> IF t \in done THEN "READY" ELSE thread[t]]
  /\ \E identified \in [Identified(Tail(queue)) -> {"done", "error"}] :
       result' = [t \in Threads |-> IF t = queue[1].thread THEN IdcResult
                                    ELSE IF t \in DOMAIN identified THEN identified[t] ELSE result[t]]
  /\ RunQueue(Tail(queue))
  /\ kop' = At("ack")
  /\ UNCHANGED <<vm, proc>>

\* The line's PENDING bit is written back, whatever it holds by now.
AckIrq ==
  /\ kop.at = "ack"
  /\ pending' = FALSE
  /\ kop' = At("look")
  /\ UNCHANGED <<vm, proc, thread, result, queue, running, idc, bounce, enabled>>

-----------------------------------------------------------------------------
(* Processes.                                                               *)

\* proc_exit and sched_kill_proc.
ExitBegin(p) ==
  /\ kop.at = "user" /\ proc[p] = "LIVE"
  /\ proc' = [proc EXCEPT ![p] = "EXITING"]
  /\ thread' = [t \in Threads |-> IF Home[t] = p THEN "DEAD" ELSE thread[t]]
  /\ kop' = [at |-> "exit", proc |-> p]
  /\ UNCHANGED <<vm, result, queue, running, idc, bounce, enabled, pending>>

\* blk_proc_exited: its transfer is aborted and waited for, its requests dropped.
NoAbort(p) == TRUE
Aborted(p) == running /\ Mine(p, queue[1]) => ~idc.busy

Kept(p) ==
  LET keep[i \in 0 .. Len(queue)] ==
        IF i = 0 THEN <<>>
        ELSE IF Mine(p, queue[i]) THEN keep[i - 1] ELSE Append(keep[i - 1], queue[i])
  IN keep[Len(queue)]

\* ... then the queue runs on, and proc_exit releases the memory.
ExitEnd ==
  LET p == kop.proc
      q == Kept(p)
      stopped == running /\ Mine(p, queue[1])
      done == IF stopped THEN Identified(q) ELSE {}
  IN
  /\ kop.at = "exit" /\ Aborted(p)
  /\ IF stopped THEN RunQueue(q)
     ELSE queue' = q /\ UNCHANGED <<running, idc, bounce, enabled, pending>>
  /\ thread' = [t \in Threads |-> IF t \in done THEN "READY" ELSE thread[t]]
  /\ \E identified \in [done -> {"done", "error"}] :
       result' = [t \in Threads |-> IF t \in done THEN identified[t] ELSE result[t]]
  /\ proc' = [proc EXCEPT ![p] = "FREE"]
  /\ kop' = At("user")
  /\ UNCHANGED vm

\* The records of an ended process are used for a new one.
Spawn(p) ==
  /\ kop.at = "user" /\ proc[p] = "FREE"
  /\ proc' = [proc EXCEPT ![p] = "LIVE"]
  /\ thread' = [t \in Threads |-> IF Home[t] = p THEN "READY" ELSE thread[t]]
  /\ result' = [t \in Threads |-> IF Home[t] = p THEN "none" ELSE result[t]]
  /\ UNCHANGED <<vm, queue, running, idc, bounce, enabled, pending, kop>>

-----------------------------------------------------------------------------

Init ==
  /\ vm \in BOOLEAN
  /\ proc = [p \in Procs |-> "LIVE"]
  /\ thread = [t \in Threads |-> "READY"]
  /\ result = [t \in Threads |-> "none"]
  /\ queue = <<>> /\ running = FALSE
  /\ idc = [busy |-> FALSE, thread |-> Null, op |-> "none", status |-> "idle", irq |-> FALSE]
  /\ bounce = Null
  /\ enabled = FALSE /\ pending = FALSE
  /\ kop = At("user")

Kernel == LookForIrq \/ BlkIrqSpurious \/ BlkIrq \/ AckIrq \/ ExitEnd

Next ==
  \/ IdcFinish \/ IdcInterrupt \/ OtherInterrupt \/ Kernel
  \/ \E t \in Threads : IdentifyNow(t) \/ \E op \in {"read", "write", "identify"} : BlkIo(t, op)
  \/ \E p \in Procs : ExitBegin(p) \/ Spawn(p)

Spec == Init /\ [][Next]_vars

\* The device ends every transfer, the kernel runs on, and an interrupt that is
\* pending whenever user code runs is taken in the end.
FairSpec == Spec /\ WF_vars(IdcFinish) /\ WF_vars(Kernel) /\ SF_vars(IdcInterrupt)

-----------------------------------------------------------------------------
(* Properties.                                                              *)

\* The queue holds the requests of exactly the threads blocked in BLK_IO, once
\* each, so it is never full for a thread that can call (sys_blk_io, blk.c:277), and
\* something runs while it is not empty; what an ending process left in it goes with
\* that process (blk_proc_exited, blk.c:243).
QueueHoldsWaiters ==
  /\ \A i, j \in 1 .. Len(queue) : queue[i].thread = queue[j].thread => i = j
  /\ \A t \in Threads : thread[t] = "BLK_IO" => \E i \in 1 .. Len(queue) : queue[i].thread = t
  /\ \A i \in 1 .. Len(queue) : \/ thread[queue[i].thread] = "BLK_IO"
                                \/ kop.at = "exit" /\ Mine(kop.proc, queue[i])
  /\ running <=> queue # <<>>

\* The device transfers only for the request at the head of the queue, and only
\* while the memory of its process is not released (blk.c:235-242): no DMA into
\* memory that has a new owner.  Commands reach an idle device.
DmaIntoLiveMemory ==
  idc.busy => running /\ idc.thread = queue[1].thread /\ proc[Home[idc.thread]] # "FREE"

\* The one bounce buffer holds the sectors of the running request: those to write
\* from its start on, those read once the device is done (blk.c:176, 223).
BounceIsOwn ==
  vm /\ running /\ (queue[1].op = "write" \/ (~idc.busy /\ idc.status = "done")) => bounce = queue[1].thread

\* A transfer is answered with the status the device gave for this transfer, never
\* early on an interrupt that an IDENTIFY or an abort left behind (blk_irq, blk.c:213).
RightAnswer ==
  [][\A t \in Threads :
       thread[t] = "BLK_IO" /\ thread'[t] = "READY" /\ queue[1].thread = t /\ queue[1].op # "identify"
         => /\ ~idc.busy /\ idc.thread = t
            /\ idc.status # "idle" /\ result'[t] = idc.status]_vars

\* Every request ends: no completion is lost between the edge-latched line, the
\* write-back of its PENDING bit and the next start (handle_irqs, trap.c:57).
EveryRequestEnds == \A t \in Threads : thread[t] = "BLK_IO" ~> thread[t] # "BLK_IO"

\* The queue and the buffer are in order: of their types, with exactly the waiting requests, and with the
\* sectors of the one that runs.
QueueInv == TypeOK /\ QueueHoldsWaiters /\ BounceIsOwn
=============================================================================

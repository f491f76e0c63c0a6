----------------------------- MODULE BlkProofs -----------------------------
(***************************************************************************)
(* Proofs about Blk, for any number of processes and threads: the queue holds  *)
(* exactly the waiting requests, no transfer runs into released memory, and    *)
(* each transfer is answered with its own status.                             *)
(*                                                                         *)
(* What the run checks is not inductive.  The proof needs that the device       *)
(* follows the head of the queue (DeviceFollows): it always transfers or has    *)
(* transferred for queue[1], which is never an IDENTIFY; and that threads       *)
(* end with their process (ThreadsHaveHomes).                                 *)
(***************************************************************************)
EXTENDS Blk, Integers, FiniteSetTheorems, SequenceTheorems, WellFoundedInduction, TLAPS

\* Only the threads of a process that runs can run; a process is ending while
\* proc_exit is at work on it (proc.c), and only then.
ThreadsHaveHomes ==
  /\ \A t \in Threads : thread[t] # "DEAD" => proc[Home[t]] = "LIVE"
  /\ \A p \in Procs : proc[p] = "EXITING" <=> kop.at = "exit" /\ kop.proc = p
  /\ kop.at = "exit" => kop.proc \in Procs

\* The IDC works, or has worked, for the head of the queue and for nothing else
\* (start, blk.c:150; blk_proc_exited, blk.c:235).
DeviceFollows ==
  /\ running => queue[1].op # "identify"
  /\ running => idc.thread = queue[1].thread /\ idc.op = queue[1].op /\ (idc.busy \/ idc.status # "idle")
  /\ ~running => ~idc.busy

IInv == QueueInv /\ ThreadsHaveHomes /\ DeviceFollows

-----------------------------------------------------------------------------
(* Numbers and sequences.                                                    *)

\* A set of numbers that is not empty has a first one.
LEMMA FirstExists ==
  ASSUME NEW S \in SUBSET Nat, S # {}
  PROVE  \E j \in S : \A k \in S : j <= k
<1> DEFINE R == OpToRel(<, Nat)
<1>1. IsWellFoundedOn(R, Nat)
  BY NatLessThanWellFounded
<1>2. \A j, k \in Nat : k < j => <<k, j>> \in R
  BY DEF OpToRel
<1> HIDE DEF R
<1>3. PICK j \in S : \A k \in S : ~(<<k, j>> \in R)
  BY <1>1, WFMin
<1>4. \A k \in S : ~(k < j)
  BY <1>2, <1>3, Zenon
<1> QED
  BY <1>4

\* A set of numbers that holds 0 and, with each one up to n, the next, holds all up to n.
LEMMA UpTo ==
  ASSUME NEW n \in Nat, NEW S, 0 \in S, \A i \in 0 .. n : i < n /\ i \in S => i + 1 \in S
  PROVE  0 .. n \subseteq S
<1> DEFINE Out == {i \in 0 .. n : i \notin S}
<1>1. SUFFICES ASSUME Out # {} PROVE FALSE
  OBVIOUS
<1>2. PICK j \in Out : \A k \in Out : j <= k
  <2>1. Out \in SUBSET Nat
    OBVIOUS
  <2> HIDE DEF Out
  <2> QED
    BY <1>1, <2>1, FirstExists
<1>3. j \in 1 .. n /\ j - 1 \in 0 .. n /\ j - 1 \in S
  BY <1>2
<1> QED
  BY <1>2, <1>3

LEMMA MaxQueueNat == MaxQueue \in Nat
  BY BlkAssumption, FS_CardinalityType

LEMMA NthRequest ==
  ASSUME NEW q \in Seq(Requests)
  PROVE  /\ Len(q) \in Nat
         /\ \A i \in 1 .. Len(q) : q[i] \in Requests /\ q[i].thread \in Threads
         /\ q = <<>> <=> Len(q) = 0
<1>1. \A i \in 1 .. Len(q) : q[i] \in Requests
  BY ElementOfSeq
<1>2. \A r \in Requests : r.thread \in Threads
  BY DEF Requests
<1> QED
  BY <1>1, <1>2, LenProperties, EmptySeq

-----------------------------------------------------------------------------
(* The operators on the queue.                                               *)

\* What the loop has kept of the first m requests.
KeptSoFar(p, k, m) ==
  /\ k \in Seq(Requests) /\ Len(k) <= m
  /\ \A j \in 1 .. Len(k) : \E i \in 1 .. m : k[j] = queue[i] /\ ~Mine(p, queue[i])
  /\ \A i \in 1 .. m : Mine(p, queue[i]) \/ \E j \in 1 .. Len(k) : k[j] = queue[i]
  /\ \A i, j \in 1 .. Len(k) : k[i].thread = k[j].thread => i = j
  /\ m > 0 /\ ~Mine(p, queue[1]) => Len(k) > 0 /\ k[1] = queue[1]

LEMMA KeptSoFarNext ==
  ASSUME queue \in Seq(Requests), \A i, j \in 1 .. Len(queue) : queue[i].thread = queue[j].thread => i = j,
         NEW p, NEW k, NEW m \in 0 .. Len(queue), m < Len(queue), KeptSoFar(p, k, m)
  PROVE  KeptSoFar(p, IF Mine(p, queue[m + 1]) THEN k ELSE Append(k, queue[m + 1]), m + 1)
<1> DEFINE r == queue[m + 1]
           a == Append(k, r)
<1>0. /\ Len(queue) \in Nat /\ m \in Nat /\ m + 1 \in 1 .. Len(queue)
      /\ \A i \in 1 .. m : i \in 1 .. Len(queue) /\ i # m + 1
      /\ r \in Requests /\ k \in Seq(Requests) /\ Len(k) \in Nat
  <2>1. Len(queue) \in Nat /\ \A i \in 1 .. Len(queue) : queue[i] \in Requests
    BY NthRequest
  <2>2. m \in Nat /\ m + 1 \in 1 .. Len(queue) /\ \A i \in 1 .. m : i \in 1 .. Len(queue) /\ i # m + 1
    BY <2>1
  <2>3. k \in Seq(Requests)
    BY DEF KeptSoFar
  <2> QED
    BY <2>1, <2>2, <2>3, LenProperties
<1>i. (\A i \in 1 .. m + 1 : i \in 1 .. m \/ i = m + 1) /\ (\A i \in 1 .. m : i \in 1 .. m + 1) /\ m + 1 \in 1 .. m + 1
  BY <1>0
<1>k. /\ Len(k) <= m
      /\ \A j \in 1 .. Len(k) : \E i \in 1 .. m : k[j] = queue[i] /\ ~Mine(p, queue[i])
      /\ \A i \in 1 .. m : Mine(p, queue[i]) \/ \E j \in 1 .. Len(k) : k[j] = queue[i]
      /\ \A i, j \in 1 .. Len(k) : k[i].thread = k[j].thread => i = j
      /\ m > 0 /\ ~Mine(p, queue[1]) => Len(k) > 0 /\ k[1] = queue[1]
  BY DEF KeptSoFar
<1>1. CASE Mine(p, r)
  <2>1. Len(k) <= m + 1
    BY <1>0, <1>k
  <2>2. \A j \in 1 .. Len(k) : \E i \in 1 .. m + 1 : k[j] = queue[i] /\ ~Mine(p, queue[i])
    BY <1>i, <1>k
  <2>3. \A i \in 1 .. m + 1 : Mine(p, queue[i]) \/ \E j \in 1 .. Len(k) : k[j] = queue[i]
    BY <1>i, <1>k, <1>1
  <2>4. ~Mine(p, queue[1]) => Len(k) > 0 /\ k[1] = queue[1]
    <3>1. CASE m = 0
      BY <1>1, <3>1
    <3>2. CASE m > 0
      BY <1>k, <3>2
    <3> QED
      BY <1>0, <3>1, <3>2
  <2> QED
    BY <1>0, <1>k, <1>1, <2>1, <2>2, <2>3, <2>4 DEF KeptSoFar
<1>2. CASE ~Mine(p, r)
  <2>2. a \in Seq(Requests) /\ Len(a) = Len(k) + 1 /\ a[Len(k) + 1] = r /\ \A i \in 1 .. Len(k) : a[i] = k[i]
    BY <1>0, AppendProperties
  <2>a. \A j \in 1 .. Len(a) : j \in 1 .. Len(k) \/ j = Len(k) + 1
    BY <1>0, <2>2
  <2>b. Len(k) + 1 \in 1 .. Len(a) /\ \A j \in 1 .. Len(k) : j \in 1 .. Len(a)
    BY <1>0, <2>2
  <2>3. \A i \in 1 .. Len(k) : k[i].thread # r.thread
    <3> SUFFICES ASSUME NEW i \in 1 .. Len(k), k[i].thread = r.thread PROVE FALSE
      OBVIOUS
    <3>1. PICK j \in 1 .. m : k[i] = queue[j]
      BY <1>k
    <3> QED
      BY <1>0, <3>1
  <2> HIDE DEF a
  <2>4. Len(a) <= m + 1
    BY <1>0, <1>k, <2>2
  <2>5. ASSUME NEW j \in 1 .. Len(a) PROVE \E i \in 1 .. m + 1 : a[j] = queue[i] /\ ~Mine(p, queue[i])
    <3>1. CASE j \in 1 .. Len(k)
      <4>1. PICK i \in 1 .. m : k[j] = queue[i] /\ ~Mine(p, queue[i])
        BY <1>k, <3>1
      <4>2. a[j] = k[j] /\ i \in 1 .. m + 1
        BY <1>i, <2>2, <3>1, <4>1
      <4> QED
        BY <4>1, <4>2
    <3>2. CASE j = Len(k) + 1
      BY <1>i, <1>2, <2>2, <3>2
    <3> QED
      BY <2>a, <3>1, <3>2
  <2>6. ASSUME NEW i \in 1 .. m + 1 PROVE Mine(p, queue[i]) \/ \E j \in 1 .. Len(a) : a[j] = queue[i]
    <3>1. CASE i \in 1 .. m
      BY <1>k, <2>2, <2>b, <3>1
    <3>2. CASE i = m + 1
      BY <2>2, <2>b, <3>2
    <3> QED
      BY <1>i, <3>1, <3>2
  <2>7. ASSUME NEW i \in 1 .. Len(a), NEW j \in 1 .. Len(a), a[i].thread = a[j].thread PROVE i = j
    <3>1. CASE i \in 1 .. Len(k) /\ j \in 1 .. Len(k)
      BY <1>k, <2>2, <2>7, <3>1
    <3>2. CASE i \in 1 .. Len(k) /\ j = Len(k) + 1
      BY <2>2, <2>3, <2>7, <3>2
    <3>3. CASE j \in 1 .. Len(k) /\ i = Len(k) + 1
      BY <2>2, <2>3, <2>7, <3>3
    <3> QED
      BY <2>a, <3>1, <3>2, <3>3
  <2>8. ~Mine(p, queue[1]) => Len(a) > 0 /\ a[1] = queue[1]
    <3>1. CASE m = 0
      BY <1>0, <1>k, <2>2, <3>1
    <3>2. CASE m > 0
      BY <1>0, <1>k, <2>2, <3>2
    <3> QED
      BY <1>0, <3>1, <3>2
  <2> QED
    BY <1>0, <1>2, <2>2, <2>4, <2>5, <2>6, <2>7, <2>8 DEF KeptSoFar, a
<1> QED
  BY <1>1, <1>2

\* What blk_proc_exited leaves in the queue: the requests of the other processes,
\* in a queue whose head stays the head when it is one of them (blk.c:243-246).
LEMMA KeptFacts ==
  ASSUME queue \in Seq(Requests), \A i, j \in 1 .. Len(queue) : queue[i].thread = queue[j].thread => i = j,
         NEW p
  PROVE  KeptSoFar(p, Kept(p), Len(queue))
<1> DEFINE n == Len(queue)
           IsKeep(f) == f = [i \in 0 .. n |-> IF i = 0 THEN <<>>
                               ELSE IF Mine(p, queue[i]) THEN f[i - 1] ELSE Append(f[i - 1], queue[i])]
           keep == CHOOSE f : IsKeep(f)
           S == {m \in 0 .. n : KeptSoFar(p, keep[m], m)}
<1>1. n \in Nat
  BY NthRequest
<1>2. IsKeep(keep)
  <2>1. \E f : IsKeep(f)
    <3> DEFINE Step(f, i) == IF Mine(p, queue[i]) THEN f[i - 1] ELSE Append(f[i - 1], queue[i])
               Keeps(f, m) == f = [i \in 0 .. m |-> IF i = 0 THEN <<>> ELSE Step(f, i)]
               T == {m \in 0 .. n : \E f : Keeps(f, m)}
    <3> HIDE DEF n
    <3> HIDE DEF Step
    <3>1. 0 \in T
      <4> DEFINE f == [i \in 0 .. 0 |-> <<>>]
      <4>1. Keeps(f, 0)
        OBVIOUS
      <4>2. 0 \in 0 .. n
        BY <1>1
      <4> HIDE DEF f, Keeps
      <4> QED
        BY <4>1, <4>2
    <3>2. ASSUME NEW m \in 0 .. n, m < n, m \in T PROVE m + 1 \in T
      <4>1. PICK f : Keeps(f, m)
        BY <3>2
      <4> DEFINE g == [i \in 0 .. m + 1 |-> IF i = 0 THEN <<>> ELSE Step(f, i)]
      <4>2. \A i \in 0 .. m : g[i] = f[i]
        BY <4>1
      <4>3. \A i \in 1 .. m + 1 : Step(g, i) = Step(f, i)
        <5>1. \A i \in 1 .. m + 1 : g[i - 1] = f[i - 1]
          <6>1. \A i \in 1 .. m + 1 : i - 1 \in 0 .. m
            OBVIOUS
          <6> HIDE DEF g
          <6> QED
            BY <4>2, <6>1
        <5> HIDE DEF g
        <5> QED
          BY <5>1 DEF Step
      <4>4. Keeps(g, m + 1)
        <5> DEFINE h == [i \in 0 .. m + 1 |-> IF i = 0 THEN <<>> ELSE Step(g, i)]
        <5>1. ASSUME NEW i \in 0 .. m + 1 PROVE g[i] = h[i]
          <6>1. CASE i = 0
            BY <6>1
          <6>2. CASE i \in 1 .. m + 1
            <7>1. g[i] = Step(f, i) /\ h[i] = Step(g, i)
              BY <6>2
            <7> HIDE DEF g, h
            <7> QED
              BY <4>3, <6>2, <7>1
          <6> QED
            BY <6>1, <6>2
        <5>2. g = h
          BY <5>1
        <5> QED
          BY <5>2
      <4>5. m + 1 \in 0 .. n
        BY <3>2
      <4> HIDE DEF g, Keeps
      <4> QED
        BY <4>4, <4>5
    <3>3. n \in T
      <4> HIDE DEF T
      <4>1. 0 .. n \subseteq T
        BY <1>1, <3>1, <3>2, UpTo
      <4> QED
        BY <1>1, <4>1
    <3> QED
      BY <3>3 DEF Step
  <2> HIDE DEF IsKeep
  <2> QED
    BY <2>1
<1>3. Kept(p) = keep[n]
  BY DEF Kept
<1> HIDE DEF keep
<1>4. 0 \in S
  <2>1. keep[0] = <<>>
    <3> HIDE DEF n
    <3> QED
      BY <1>1, <1>2
  <2>2. KeptSoFar(p, <<>>, 0)
    BY DEF KeptSoFar
  <2> QED
    BY <1>1, <2>1, <2>2
<1>5. ASSUME NEW m \in 0 .. n, m < n, m \in S PROVE m + 1 \in S
  <2>1. keep[m + 1] = IF Mine(p, queue[m + 1]) THEN keep[m] ELSE Append(keep[m], queue[m + 1])
    <3>1. m + 1 \in 0 .. n /\ m + 1 # 0 /\ (m + 1) - 1 = m
      BY <1>1, <1>5
    <3> HIDE DEF n
    <3> QED
      BY <1>2, <3>1
  <2>2. KeptSoFar(p, keep[m + 1], m + 1)
    BY <1>5, <2>1, KeptSoFarNext
  <2> QED
    BY <1>1, <1>5, <2>2
<1>6. n \in S
  <2> HIDE DEF S
  <2>1. 0 .. n \subseteq S
    BY <1>1, <1>4, <1>5, UpTo
  <2> QED
    BY <1>1, <2>1
<1> QED
  BY <1>3, <1>6

\* The first request that needs a transfer, or the end of the queue (run_queue).
LEMMA Head1Facts ==
  ASSUME NEW q \in Seq(Requests)
  PROVE  /\ Head1(q) \in 1 .. Len(q) + 1
         /\ \A j \in 1 .. Head1(q) - 1 : q[j].op = "identify"
         /\ Head1(q) <= Len(q) => q[Head1(q)].op # "identify"
<1> DEFINE S == {i \in 1 .. Len(q) + 1 : i <= Len(q) => q[i].op # "identify"}
<1>1. Len(q) \in Nat
  BY NthRequest
<1>2. PICK i \in S : \A k \in S : i <= k
  <2>1. Len(q) + 1 \in S /\ S \in SUBSET Nat
    BY <1>1
  <2> HIDE DEF S
  <2> QED
    BY <2>1, FirstExists
<1>3. \A j \in 1 .. i - 1 : q[j].op = "identify"
  BY <1>1, <1>2
<1> QED
  BY <1>1, <1>2, <1>3 DEF Head1

\* The device as a type.
Idc == [busy : BOOLEAN, thread : Threads \cup {Null}, op : {"read", "write", "none"},
        status : {"idle", "done", "error"}, irq : BOOLEAN]

\* run_queue on a queue q, called with the device idle: a part of q is left that
\* starts with a transfer, the device and the buffer have been given to it, and
\* whoever is not in it any more was identified.
LEMMA RunQueueFacts ==
  ASSUME TypeOK, ~idc.busy, NEW q \in Seq(Requests), Len(q) <= MaxQueue,
         \A i, j \in 1 .. Len(q) : q[i].thread = q[j].thread => i = j,
         RunQueue(q)
  PROVE  /\ queue' \in Seq(Requests) /\ Len(queue') <= MaxQueue
         /\ running' \in BOOLEAN /\ idc' \in Idc /\ bounce' \in Threads \cup {Null}
         /\ enabled' \in BOOLEAN /\ pending' \in BOOLEAN
         /\ running' <=> queue' # <<>>
         /\ \A i, j \in 1 .. Len(queue') : queue'[i].thread = queue'[j].thread => i = j
         /\ \A i \in 1 .. Len(queue') : \E j \in 1 .. Len(q) : queue'[i] = q[j] /\ q[j].thread \notin Identified(q)
         /\ \A j \in 1 .. Len(q) : \/ q[j].thread \in Identified(q)
                                   \/ \E i \in 1 .. Len(queue') : queue'[i] = q[j]
         /\ vm' = vm => BounceIsOwn'
         /\ DeviceFollows'
<1> DEFINE h == Head1(q)
           rest == SubSeq(q, h, Len(q))
<1>1. /\ Len(q) \in Nat /\ h \in 1 .. Len(q) + 1
      /\ \A i \in 1 .. Len(q) : q[i] \in Requests /\ q[i].thread \in Threads
      /\ h <= Len(q) => q[h].op # "identify"
  BY NthRequest, Head1Facts
<1>2. Identified(q) = {q[i].thread : i \in 1 .. h - 1}
  BY DEF Identified
<1> HIDE DEF h
<1>3. /\ rest \in Seq(Requests) /\ Len(rest) = Len(q) + 1 - h
      /\ \A i \in 1 .. Len(rest) : rest[i] = q[h + i - 1] /\ h + i - 1 \in h .. Len(q) /\ h + i - 1 \in 1 .. Len(q)
  <2>1. h \in Int /\ Len(q) \in Int /\ \A i \in h .. Len(q) : q[i] \in Requests
    BY <1>1
  <2>2. /\ rest \in Seq(Requests) /\ Len(rest) = IF h <= Len(q) THEN Len(q) - h + 1 ELSE 0
        /\ \A i \in 1 .. Len(q) - h + 1 : rest[i] = q[h + i - 1]
    BY <2>1, SubSeqProperties
  <2>3. Len(rest) = Len(q) + 1 - h
    BY <1>1, <2>2
  <2>4. \A i \in 1 .. Len(rest) : /\ i \in 1 .. Len(q) - h + 1
                                  /\ h + i - 1 \in h .. Len(q) /\ h + i - 1 \in 1 .. Len(q)
    <3> HIDE DEF rest
    <3> QED
      BY <1>1, <2>3
  <2> HIDE DEF rest
  <2> QED
    BY <2>2, <2>3, <2>4
<1>4. /\ queue' = rest
      /\ running' = (rest # <<>>)
      /\ idc' = IF rest # <<>> THEN Started(rest[1]) ELSE Cleared(idc)
      /\ bounce' = IF rest # <<>> THEN Filled(rest[1]) ELSE bounce
      /\ enabled' = (enabled \/ rest # <<>>)
      /\ pending' = (pending \/ (enabled /\ Identified(q) # {}))
  BY DEF RunQueue, h
<1> HIDE DEF rest
<1>5. rest # <<>> => 1 \in 1 .. Len(rest) /\ rest[1] \in Requests /\ rest[1].op # "identify"
  <2> HAVE rest # <<>>
  <2>1. Len(rest) > 0
    BY <1>3, NthRequest
  <2>2. 1 \in 1 .. Len(rest) /\ h + 1 - 1 = h /\ h <= Len(q)
    BY <1>1, <1>3, <2>1
  <2> QED
    BY <1>1, <1>3, <2>2
<1>6. /\ enabled' \in BOOLEAN /\ pending' \in BOOLEAN /\ running' \in BOOLEAN /\ (running' <=> queue' # <<>>)
      /\ queue' \in Seq(Requests)
  BY <1>3, <1>4, Zenon
<1>7. Len(queue') <= MaxQueue
  BY <1>1, <1>3, <1>4, MaxQueueNat
<1>8. idc' \in Idc /\ DeviceFollows'
  <2>1. CASE rest = <<>>
    <3>1. idc' = [idc EXCEPT !.status = "idle", !.irq = FALSE] /\ running' = FALSE
      BY <1>4, <2>1 DEF Cleared
    <3> QED
      BY <3>1 DEF TypeOK, Idc, DeviceFollows
  <2>2. CASE rest # <<>>
    <3>1. idc' = [busy |-> TRUE, thread |-> rest[1].thread, op |-> rest[1].op, status |-> "idle", irq |-> FALSE]
      BY <1>4, <2>2 DEF Started
    <3>2. rest[1].thread \in Threads /\ rest[1].op \in {"read", "write"}
      BY <1>5, <2>2 DEF Requests
    <3>3. idc' \in Idc /\ idc'.busy /\ idc'.thread = rest[1].thread /\ idc'.op = rest[1].op
      BY <3>1, <3>2 DEF Idc
    <3>4. running' /\ queue'[1] = rest[1]
      BY <1>4, <2>2, Zenon
    <3> QED
      BY <1>5, <2>2, <3>3, <3>4 DEF DeviceFollows
  <2> QED
    BY <2>1, <2>2
<1>9. bounce' \in Threads \cup {Null}
  BY <1>4, <1>5 DEF Filled, TypeOK, Requests
<1>10. vm' = vm => BounceIsOwn'
  <2> SUFFICES ASSUME vm' = vm, vm, rest # <<>>, rest[1].op = "write" \/ (~idc'.busy /\ idc'.status = "done")
               PROVE  bounce' = rest[1].thread
    BY <1>4, Zenon DEF BounceIsOwn
  <2>1. idc'.busy
    BY <1>4 DEF Started
  <2> QED
    BY <1>4, <2>1 DEF Filled
<1>11. ASSUME NEW i \in 1 .. Len(rest), NEW j \in 1 .. Len(rest), rest[i].thread = rest[j].thread PROVE i = j
  <2>1. /\ h + i - 1 \in 1 .. Len(q) /\ h + j - 1 \in 1 .. Len(q)
        /\ q[h + i - 1].thread = q[h + j - 1].thread
    BY <1>3, <1>11
  <2>2. PICK a \in 1 .. Len(q), b \in 1 .. Len(q) : a = h + i - 1 /\ b = h + j - 1 /\ q[a].thread = q[b].thread
    BY <2>1, Zenon
  <2>3. a = b
    BY <2>2
  <2> QED
    BY <1>1, <2>2, <2>3
<1>12. ASSUME NEW i \in 1 .. Len(rest) PROVE \E j \in 1 .. Len(q) : rest[i] = q[j] /\ q[j].thread \notin Identified(q)
  <2> DEFINE j == h + i - 1
  <2>1. j \in 1 .. Len(q) /\ j \in h .. Len(q) /\ rest[i] = q[j]
    BY <1>3
  <2> HIDE DEF j
  <2>2. ASSUME NEW m \in 1 .. h - 1 PROVE q[m].thread # q[j].thread
    <3>1. m \in 1 .. Len(q) /\ m # j
      BY <1>1, <2>1
    <3> QED
      BY <2>1, <3>1
  <2> QED
    BY <1>2, <2>1, <2>2
<1>13. ASSUME NEW j \in 1 .. Len(q) PROVE q[j].thread \in Identified(q) \/ \E i \in 1 .. Len(rest) : rest[i] = q[j]
  <2>1. CASE j \in 1 .. h - 1
    BY <1>2, <2>1
  <2>2. CASE j >= h
    <3> DEFINE i == j - h + 1
    <3>1. i \in 1 .. Len(rest) /\ h + i - 1 = j
      BY <1>1, <1>3, <2>2
    <3> HIDE DEF i
    <3> QED
      BY <1>3, <3>1
  <2> QED
    BY <1>1, <2>1, <2>2
<1>14. /\ \A i, j \in 1 .. Len(queue') : queue'[i].thread = queue'[j].thread => i = j
       /\ \A i \in 1 .. Len(queue') : \E j \in 1 .. Len(q) : queue'[i] = q[j] /\ q[j].thread \notin Identified(q)
       /\ \A j \in 1 .. Len(q) : \/ q[j].thread \in Identified(q)
                                 \/ \E i \in 1 .. Len(queue') : queue'[i] = q[j]
  <2>1. queue' = rest
    BY <1>4
  <2> QED
    BY <1>11, <1>12, <1>13, <2>1, Zenon
<1> QED
  BY <1>6, <1>7, <1>8, <1>9, <1>10, <1>14, Zenon
-----------------------------------------------------------------------------
(* The invariant.                                                            *)

LEMMA InitIInv == Init => IInv
<1> SUFFICES ASSUME Init PROVE IInv
  OBVIOUS
<1>1. Home \in [Threads -> Procs]
  BY BlkAssumption
<1>2. TypeOK
  <2>1. idc \in Idc /\ kop \in [at : {"user", "look", "blk_irq", "ack", "exit"}, proc : Procs \cup {Null}]
    BY DEF Init, At, Idc
  <2>2. queue \in Seq(Requests) /\ Len(queue) <= MaxQueue
    BY MaxQueueNat DEF Init
  <2> QED
    BY <2>1, <2>2 DEF Init, TypeOK, Idc, Results
<1>3. QueueHoldsWaiters /\ BounceIsOwn /\ ThreadsHaveHomes /\ DeviceFollows
  BY <1>1 DEF Init, QueueHoldsWaiters, BounceIsOwn, ThreadsHaveHomes, DeviceFollows, At
<1> QED
  BY <1>2, <1>3 DEF IInv, QueueInv

LEMMA FinishIInv == IInv /\ IdcFinish => IInv'
<1> SUFFICES ASSUME IInv, IdcFinish PROVE IInv'
  OBVIOUS
<1> USE DEF IInv, QueueInv
<1>1. PICK status \in {"done", "error"} :
        /\ idc' = [idc EXCEPT !.busy = FALSE, !.status = status, !.irq = @ \/ enabled]
        /\ bounce' = IF vm /\ idc.op = "read" THEN idc.thread ELSE bounce
  BY DEF IdcFinish
<1>2. /\ UNCHANGED <<vm, proc, thread, result, queue, running, enabled, kop>> /\ idc.busy
      /\ pending' = (pending \/ (enabled /\ ~idc.irq))
  BY DEF IdcFinish
<1>3. idc \in Idc /\ idc' \in Idc /\ ~idc'.busy /\ idc'.thread = idc.thread /\ idc'.op = idc.op /\ idc'.status # "idle"
  BY <1>1, <1>2 DEF TypeOK, Idc
<1>4. pending' \in BOOLEAN
  BY <1>2, Zenon
<1>5. bounce' \in Threads \cup {Null}
  BY <1>1, <1>3 DEF TypeOK, Idc
<1>6. TypeOK'
  BY <1>2, <1>3, <1>4, <1>5 DEF TypeOK, Idc
<1>7. QueueHoldsWaiters' /\ ThreadsHaveHomes'
  BY <1>2 DEF QueueHoldsWaiters, ThreadsHaveHomes, Mine
<1>8. DeviceFollows'
  BY <1>2, <1>3 DEF DeviceFollows
<1>9. BounceIsOwn'
  <2>1. running /\ idc.thread = queue[1].thread /\ idc.op = queue[1].op /\ idc.op \in {"read", "write", "none"}
    BY <1>2, <1>3 DEF DeviceFollows, Idc
  <2>2. queue[1] \in Requests
    <3>1. queue \in Seq(Requests) /\ queue # <<>>
      BY <2>1 DEF TypeOK, QueueHoldsWaiters
    <3> QED
      BY <3>1, NthRequest
  <2>3. queue[1].op \in {"read", "write"}
    BY <2>1, <2>2 DEF Requests
  <2> QED
    BY <1>1, <1>2, <2>1, <2>3 DEF BounceIsOwn
<1> QED
  BY <1>6, <1>7, <1>8, <1>9

LEMMA IrqIInv == IInv /\ (IdcInterrupt \/ OtherInterrupt \/ LookForIrq \/ AckIrq) => IInv'
<1> SUFFICES ASSUME IInv, IdcInterrupt \/ OtherInterrupt \/ LookForIrq \/ AckIrq PROVE IInv'
  OBVIOUS
<1> USE DEF IInv, QueueInv
<1>1. /\ UNCHANGED <<vm, proc, thread, result, queue, running, idc, bounce, enabled>> /\ kop.at # "exit"
      /\ pending' = pending \/ pending' = FALSE
      /\ kop' = At("look") \/ kop' = At("blk_irq") \/ kop' = At("user")
  BY DEF IdcInterrupt, OtherInterrupt, LookForIrq, AckIrq
<1>2. kop'.at \in {"look", "blk_irq", "user"} /\ kop' \in [at : {"user", "look", "blk_irq", "ack", "exit"}, proc : Procs \cup {Null}]
  BY <1>1 DEF At
<1>p. pending' \in BOOLEAN
  BY <1>1, Zenon DEF TypeOK
<1>3. TypeOK'
  BY <1>1, <1>2, <1>p DEF TypeOK
<1>4. QueueHoldsWaiters'
  BY <1>1 DEF QueueHoldsWaiters
<1>5. ThreadsHaveHomes'
  BY <1>1, <1>2 DEF ThreadsHaveHomes
<1>6. DeviceFollows' /\ BounceIsOwn'
  BY <1>1 DEF DeviceFollows, BounceIsOwn
<1> QED
  BY <1>3, <1>4, <1>5, <1>6

\* The device is cleared while nothing runs.
LEMMA ClearedIInv ==
  ASSUME IInv, ~running, NEW t,
         BlkIrqSpurious \/ (t \in Threads /\ IdentifyNow(t))
  PROVE  IInv'
<1> USE DEF IInv, QueueInv
<1>1. /\ UNCHANGED <<vm, proc, thread, queue, running, bounce, enabled>>
      /\ idc' = Cleared(idc)
      /\ pending' = pending \/ pending' = (pending \/ enabled)
      /\ kop.at # "exit" /\ (kop' = At("ack") \/ kop' = kop)
      /\ result' \in [Threads -> Results]
  BY DEF BlkIrqSpurious, IdentifyNow, TypeOK, Results
<1>2. kop'.at # "exit" /\ kop' \in [at : {"user", "look", "blk_irq", "ack", "exit"}, proc : Procs \cup {Null}]
  BY <1>1 DEF At, TypeOK
<1>3. idc' \in Idc /\ ~idc'.busy
  BY <1>1 DEF Cleared, TypeOK, Idc, DeviceFollows
<1>4. pending' \in BOOLEAN
  BY <1>1, Zenon DEF TypeOK
<1>5. TypeOK'
  BY <1>1, <1>2, <1>3, <1>4 DEF TypeOK, Idc
<1>6. QueueHoldsWaiters'
  BY <1>1 DEF QueueHoldsWaiters
<1>7. ThreadsHaveHomes'
  BY <1>1, <1>2 DEF ThreadsHaveHomes
<1>8. DeviceFollows' /\ BounceIsOwn'
  BY <1>1, <1>3 DEF DeviceFollows, BounceIsOwn
<1> QED
  BY <1>5, <1>6, <1>7, <1>8
\* Whoever is in the queue while no process ends waits for it.
LEMMA QueuedWait ==
  ASSUME IInv, kop.at # "exit", NEW i \in 1 .. Len(queue)
  PROVE  thread[queue[i].thread] = "BLK_IO"
  BY DEF IInv, QueueInv, QueueHoldsWaiters

\* A queue with one more request, of a thread that was not in it.
OneMore(q, r) ==
  /\ q \in Seq(Requests) /\ Len(queue) \in Nat /\ Len(q) = Len(queue) + 1 /\ q # <<>>
  /\ q[Len(queue) + 1] = r /\ Len(queue) + 1 \in 1 .. Len(q)
  /\ \A i \in 1 .. Len(queue) : i \in 1 .. Len(q) /\ q[i] = queue[i]
  /\ \A i \in 1 .. Len(q) : q[i] = r \/ \E j \in 1 .. Len(queue) : q[i] = queue[j]
  /\ \A i, j \in 1 .. Len(q) : q[i].thread = q[j].thread => i = j

LEMMA Appended ==
  ASSUME IInv, kop.at # "exit", NEW r \in Requests, thread[r.thread] = "READY"
  PROVE  OneMore(Append(queue, r), r)
<1> DEFINE q == Append(queue, r)
<1> DEFINE n == Len(queue)
<1>2. queue \in Seq(Requests) /\ n \in Nat
  BY NthRequest DEF IInv, QueueInv, TypeOK
<1>3. q \in Seq(Requests) /\ Len(q) = n + 1 /\ q[n + 1] = r /\ \A i \in 1 .. n : q[i] = queue[i]
  BY <1>2, AppendProperties
<1> HIDE DEF q
<1>4. \A i \in 1 .. Len(q) : i \in 1 .. n \/ i = n + 1
  BY <1>2, <1>3
<1>5. n + 1 \in 1 .. Len(q) /\ \A i \in 1 .. n : i \in 1 .. Len(q)
  BY <1>2, <1>3
<1>6. q # <<>>
  BY <1>2, <1>3, NthRequest
<1>7. \A i \in 1 .. n : queue[i].thread # r.thread
  BY QueuedWait
<1>8. \A i, j \in 1 .. n : queue[i].thread = queue[j].thread => i = j
  BY DEF IInv, QueueInv, QueueHoldsWaiters
<1>9. ASSUME NEW i \in 1 .. Len(q), NEW j \in 1 .. Len(q), q[i].thread = q[j].thread PROVE i = j
  <2>1. CASE i \in 1 .. n /\ j \in 1 .. n
    BY <1>3, <1>8, <1>9, <2>1
  <2>2. CASE i = n + 1 /\ j \in 1 .. n
    BY <1>3, <1>7, <1>9, <2>2
  <2>3. CASE i \in 1 .. n /\ j = n + 1
    BY <1>3, <1>7, <1>9, <2>3
  <2> QED
    BY <1>4, <2>1, <2>2, <2>3
<1>10. \A i \in 1 .. Len(q) : q[i] = r \/ \E j \in 1 .. n : q[i] = queue[j]
  BY <1>3, <1>4
<1> QED
  BY <1>2, <1>3, <1>5, <1>6, <1>9, <1>10 DEF OneMore, q

LEMMA BlkIoIInv ==
  ASSUME IInv, NEW t \in Threads, NEW op \in {"read", "write", "identify"}, BlkIo(t, op)
  PROVE  IInv'
<1> USE DEF IInv, QueueInv
<1> DEFINE r == [thread |-> t, op |-> op]
           q == Append(queue, r)
           n == Len(queue)
<1>1. /\ kop.at = "user" /\ thread[t] = "READY" /\ n < MaxQueue /\ (op = "identify" => queue # <<>>)
      /\ thread' = [thread EXCEPT ![t] = "BLK_IO"] /\ UNCHANGED <<vm, proc, result, kop>>
      /\ running => WaitBehind(r)
      /\ ~running => RunQueue(q)
  BY DEF BlkIo
<1>2. /\ r \in Requests /\ q \in Seq(Requests) /\ n \in Nat /\ Len(q) = n + 1 /\ q # <<>>
      /\ q[n + 1] = r /\ n + 1 \in 1 .. Len(q)
      /\ \A i \in 1 .. n : i \in 1 .. Len(q) /\ q[i] = queue[i]
      /\ \A i \in 1 .. Len(q) : q[i] = r \/ \E j \in 1 .. n : q[i] = queue[j]
      /\ \A i, j \in 1 .. Len(q) : q[i].thread = q[j].thread => i = j
  <2>1. kop.at # "exit" /\ r \in Requests /\ thread[r.thread] = "READY"
    BY <1>1 DEF Requests
  <2>2. OneMore(q, r)
    <3> HIDE DEF r, IInv, QueueInv
    <3> QED
      BY <2>1, Appended
  <2> HIDE DEF q, r
  <2> QED
    BY <2>1, <2>2 DEF OneMore
<1>3. r.thread = t /\ r.op = op
  OBVIOUS
<1>4. Len(q) <= MaxQueue
  BY <1>1, <1>2, MaxQueueNat
<1> HIDE DEF q, r
<1>5. /\ queue' \in Seq(Requests) /\ Len(queue') <= MaxQueue
      /\ running' \in BOOLEAN /\ idc' \in Idc /\ bounce' \in Threads \cup {Null}
      /\ enabled' \in BOOLEAN /\ pending' \in BOOLEAN
      /\ running' <=> queue' # <<>>
      /\ \A i, j \in 1 .. Len(queue') : queue'[i].thread = queue'[j].thread => i = j
      /\ \A i \in 1 .. Len(queue') : \E j \in 1 .. Len(q) : queue'[i] = q[j]
      /\ \A j \in 1 .. Len(q) : \E i \in 1 .. Len(queue') : queue'[i] = q[j]
      /\ BounceIsOwn' /\ DeviceFollows'
  <2>1. CASE running
    <3>1. queue' = q /\ UNCHANGED <<running, idc, bounce, enabled, pending>>
      BY <1>1, <2>1 DEF WaitBehind, q
    <3>2. queue # <<>>
      BY <2>1 DEF QueueHoldsWaiters
    <3>3. 1 \in 1 .. n /\ queue'[1] = queue[1]
      BY <1>2, <3>1, <3>2, NthRequest DEF TypeOK
    <3>4. BounceIsOwn' /\ DeviceFollows'
      BY <1>1, <3>1, <3>3 DEF BounceIsOwn, DeviceFollows
    <3>5. /\ running' \in BOOLEAN /\ idc' \in Idc /\ bounce' \in Threads \cup {Null}
          /\ enabled' \in BOOLEAN /\ pending' \in BOOLEAN
      BY <3>1 DEF TypeOK, Idc
    <3>6. running' <=> queue' # <<>>
      BY <1>2, <2>1, <3>1
    <3> QED
      BY <1>2, <1>4, <3>1, <3>4, <3>5, <3>6, Zenon
  <2>2. CASE ~running
    <3>1. queue = <<>> /\ n = 0 /\ ~idc.busy
      BY <2>2 DEF QueueHoldsWaiters, DeviceFollows
    <3>2. Identified(q) = {}
      <4>1. q[1].op # "identify" /\ 1 \in 1 .. Len(q)
        BY <1>1, <1>2, <1>3, <3>1
      <4>2. Head1(q) \in 1 .. Len(q) + 1 /\ \A j \in 1 .. Head1(q) - 1 : q[j].op = "identify"
        BY <1>2, Head1Facts
      <4>3. Head1(q) = 1
        BY <1>2, <4>1, <4>2
      <4> QED
        BY <4>3 DEF Identified
    <3>3. RunQueue(q) /\ vm' = vm /\ TypeOK
      BY <1>1, <2>2 DEF q, r
    <3>4. \A i, j \in 1 .. Len(q) : q[i].thread = q[j].thread => i = j
      BY <1>2
    <3>5. /\ queue' \in Seq(Requests) /\ Len(queue') <= MaxQueue
          /\ running' \in BOOLEAN /\ idc' \in Idc /\ bounce' \in Threads \cup {Null}
          /\ enabled' \in BOOLEAN /\ pending' \in BOOLEAN
          /\ running' <=> queue' # <<>>
          /\ \A i, j \in 1 .. Len(queue') : queue'[i].thread = queue'[j].thread => i = j
          /\ \A i \in 1 .. Len(queue') : \E j \in 1 .. Len(q) : queue'[i] = q[j] /\ q[j].thread \notin Identified(q)
          /\ \A j \in 1 .. Len(q) : \/ q[j].thread \in Identified(q)
                                    \/ \E i \in 1 .. Len(queue') : queue'[i] = q[j]
          /\ vm' = vm => BounceIsOwn'
          /\ DeviceFollows'
      BY <1>2, <1>4, <3>1, <3>3, <3>4, RunQueueFacts, Zenon
    <3>6. \A j \in 1 .. Len(q) : \E i \in 1 .. Len(queue') : queue'[i] = q[j]
      BY <3>2, <3>5, Zenon
    <3>7. \A i \in 1 .. Len(queue') : \E j \in 1 .. Len(q) : queue'[i] = q[j]
      BY <3>5, Zenon
    <3> QED
      BY <3>3, <3>5, <3>6, <3>7, Zenon
  <2> QED
    BY <2>1, <2>2
<1>6. TypeOK'
  BY <1>1, <1>5 DEF TypeOK, Idc
<1>7. ThreadsHaveHomes'
  BY <1>1 DEF ThreadsHaveHomes, TypeOK
<1>8. QueueHoldsWaiters'
  <2>1. ASSUME NEW i \in 1 .. Len(queue') PROVE thread'[queue'[i].thread] = "BLK_IO"
    <3>1. PICK j \in 1 .. Len(q) : queue'[i] = q[j]
      BY <1>5
    <3>2. CASE q[j] = r
      BY <1>1, <1>3, <3>1, <3>2 DEF TypeOK
    <3>3. CASE \E m \in 1 .. n : q[j] = queue[m]
      <4>1. PICK m \in 1 .. n : q[j] = queue[m]
        BY <3>3
      <4>2. thread[queue[m].thread] = "BLK_IO" /\ queue[m].thread \in Threads
        BY <1>1, QueuedWait, NthRequest DEF TypeOK
      <4> QED
        BY <1>1, <3>1, <4>1, <4>2 DEF TypeOK
    <3> QED
      BY <1>2, <3>2, <3>3
  <2>2. ASSUME NEW u \in Threads, thread'[u] = "BLK_IO" PROVE \E i \in 1 .. Len(queue') : queue'[i].thread = u
    <3>1. \E j \in 1 .. Len(q) : q[j].thread = u
      <4>1. CASE u = t
        BY <1>2, <1>3, <4>1
      <4>2. CASE u # t
        <5>1. thread[u] = "BLK_IO"
          BY <1>1, <2>2, <4>2 DEF TypeOK
        <5>2. PICK m \in 1 .. n : queue[m].thread = u
          BY <5>1 DEF QueueHoldsWaiters
        <5> QED
          BY <1>2, <5>2
      <4> QED
        BY <4>1, <4>2
    <3>2. PICK j \in 1 .. Len(q) : q[j].thread = u
      BY <3>1
    <3>3. PICK i \in 1 .. Len(queue') : queue'[i] = q[j]
      BY <1>5
    <3> QED
      BY <3>2, <3>3
  <2> QED
    BY <1>5, <2>1, <2>2 DEF QueueHoldsWaiters
<1> QED
  BY <1>5, <1>6, <1>7, <1>8
\* The queue without its head.
LEMMA Popped ==
  ASSUME IInv, running
  PROVE  /\ queue \in Seq(Requests) /\ Len(queue) \in Nat /\ 1 \in 1 .. Len(queue)
         /\ queue[1] \in Requests /\ queue[1].thread \in Threads
         /\ Tail(queue) \in Seq(Requests) /\ Len(Tail(queue)) = Len(queue) - 1 /\ Len(Tail(queue)) <= MaxQueue
         /\ \A i \in 1 .. Len(Tail(queue)) : i + 1 \in 1 .. Len(queue) /\ Tail(queue)[i] = queue[i + 1]
         /\ \A i \in 1 .. Len(queue) : i # 1 => \E j \in 1 .. Len(Tail(queue)) : Tail(queue)[j] = queue[i]
         /\ \A i, j \in 1 .. Len(Tail(queue)) : Tail(queue)[i].thread = Tail(queue)[j].thread => i = j
         /\ \A i \in 1 .. Len(Tail(queue)) : Tail(queue)[i].thread # queue[1].thread
<1> DEFINE q == Tail(queue)
<1>1. queue \in Seq(Requests) /\ queue # <<>> /\ Len(queue) <= MaxQueue
  BY DEF IInv, QueueInv, TypeOK, QueueHoldsWaiters
<1>2. Len(queue) \in Nat /\ 1 \in 1 .. Len(queue) /\ queue[1] \in Requests /\ queue[1].thread \in Threads
  BY <1>1, NthRequest
<1>3. q \in Seq(Requests) /\ Len(q) = Len(queue) - 1 /\ \A i \in 1 .. Len(q) : q[i] = queue[i + 1]
  BY <1>1, HeadTailProperties
<1> HIDE DEF q
<1>4. Len(q) <= MaxQueue
  BY <1>1, <1>2, <1>3, MaxQueueNat
<1>5. \A i \in 1 .. Len(q) : i \in Nat /\ i + 1 \in 1 .. Len(queue) /\ i + 1 # 1
  BY <1>2, <1>3
<1>6. \A i \in 1 .. Len(queue) : i # 1 => i - 1 \in 1 .. Len(q) /\ (i - 1) + 1 = i
  BY <1>2, <1>3
<1>7. \A i, j \in 1 .. Len(queue) : queue[i].thread = queue[j].thread => i = j
  BY DEF IInv, QueueInv, QueueHoldsWaiters
<1>8. \A i \in 1 .. Len(queue) : i # 1 => \E j \in 1 .. Len(q) : q[j] = queue[i]
  BY <1>3, <1>6
<1>9. ASSUME NEW i \in 1 .. Len(q), NEW j \in 1 .. Len(q), q[i].thread = q[j].thread PROVE i = j
  <2>1. i + 1 = j + 1
    BY <1>3, <1>5, <1>7, <1>9
  <2> QED
    BY <1>5, <2>1
<1>10. \A i \in 1 .. Len(q) : q[i].thread # queue[1].thread
  BY <1>2, <1>3, <1>5, <1>7
<1> QED
  BY <1>1, <1>2, <1>3, <1>4, <1>5, <1>8, <1>9, <1>10 DEF q

LEMMA BlkIrqIInv == IInv /\ BlkIrq => IInv'
<1> SUFFICES ASSUME IInv, BlkIrq PROVE IInv'
  OBVIOUS
<1> DEFINE q == Tail(queue)
           h == queue[1].thread
           done == {h} \cup Identified(q)
<1>1. /\ kop.at = "blk_irq" /\ running /\ ~idc.busy
      /\ thread' = [t \in Threads |-> IF t \in done THEN "READY" ELSE thread[t]]
      /\ \E identified \in [Identified(q) -> {"done", "error"}] :
           result' = [t \in Threads |-> IF t = h THEN IdcResult
                                        ELSE IF t \in DOMAIN identified THEN identified[t] ELSE result[t]]
      /\ RunQueue(q) /\ kop' = At("ack") /\ UNCHANGED <<vm, proc>>
  BY DEF BlkIrq, TransferOver
<1>2. /\ Len(queue) \in Nat /\ 1 \in 1 .. Len(queue) /\ h \in Threads
      /\ q \in Seq(Requests) /\ Len(q) <= MaxQueue
      /\ \A i \in 1 .. Len(q) : i + 1 \in 1 .. Len(queue) /\ q[i] = queue[i + 1]
      /\ \A i \in 1 .. Len(queue) : i # 1 => \E j \in 1 .. Len(q) : q[j] = queue[i]
      /\ \A i, j \in 1 .. Len(q) : q[i].thread = q[j].thread => i = j
      /\ \A i \in 1 .. Len(q) : q[i].thread # h
  BY <1>1, Popped
<1> HIDE DEF q, h
<1>3. TypeOK /\ QueueHoldsWaiters /\ ThreadsHaveHomes
  BY DEF IInv, QueueInv
<1>4. /\ queue' \in Seq(Requests) /\ Len(queue') <= MaxQueue
      /\ running' \in BOOLEAN /\ idc' \in Idc /\ bounce' \in Threads \cup {Null}
      /\ enabled' \in BOOLEAN /\ pending' \in BOOLEAN
      /\ running' <=> queue' # <<>>
      /\ \A i, j \in 1 .. Len(queue') : queue'[i].thread = queue'[j].thread => i = j
      /\ \A i \in 1 .. Len(queue') : \E j \in 1 .. Len(q) : queue'[i] = q[j] /\ q[j].thread \notin Identified(q)
      /\ \A j \in 1 .. Len(q) : \/ q[j].thread \in Identified(q)
                                \/ \E i \in 1 .. Len(queue') : queue'[i] = q[j]
      /\ vm' = vm => BounceIsOwn'
      /\ DeviceFollows'
  BY <1>1, <1>2, <1>3, RunQueueFacts, Zenon
<1>5. kop.at # "exit" /\ kop'.at = "ack" /\ kop' \in [at : {"user", "look", "blk_irq", "ack", "exit"}, proc : Procs \cup {Null}]
  BY <1>1 DEF At
<1>6. result' \in [Threads -> Results]
  <2>1. IdcResult \in Results
    BY DEF IdcResult, Results
  <2> HIDE DEF done
  <2> QED
    BY <1>1, <1>3, <2>1 DEF TypeOK, Results
<1>7. thread' \in [Threads -> {"READY", "BLK_IO", "DEAD"}]
  BY <1>1, <1>3 DEF TypeOK
<1>8. TypeOK'
  BY <1>1, <1>3, <1>4, <1>5, <1>6, <1>7 DEF TypeOK, Idc
<1>9. ASSUME NEW i \in 1 .. Len(queue') PROVE thread'[queue'[i].thread] = "BLK_IO"
  <2>1. PICK j \in 1 .. Len(q) : queue'[i] = q[j] /\ q[j].thread \notin Identified(q)
    BY <1>4
  <2>2. q[j].thread \notin done
    BY <1>2, <2>1
  <2>3. q[j].thread \in Threads /\ thread[q[j].thread] = "BLK_IO"
    <3>1. q[j] = queue[j + 1] /\ j + 1 \in 1 .. Len(queue)
      BY <1>2
    <3>2. thread[queue[j + 1].thread] = "BLK_IO"
      BY <1>5, <3>1, QueuedWait
    <3>3. q[j].thread \in Threads
      BY <1>2, NthRequest
    <3> QED
      BY <3>1, <3>2, <3>3
  <2> QED
    BY <1>1, <2>1, <2>2, <2>3
<1>10. ASSUME NEW t \in Threads, thread'[t] = "BLK_IO" PROVE \E i \in 1 .. Len(queue') : queue'[i].thread = t
  <2>1. t \notin done /\ thread[t] = "BLK_IO"
    BY <1>1, <1>10
  <2>2. PICK m \in 1 .. Len(queue) : queue[m].thread = t
    BY <1>3, <2>1 DEF QueueHoldsWaiters
  <2>3. m # 1
    BY <2>1, <2>2 DEF h
  <2>4. PICK j \in 1 .. Len(q) : q[j] = queue[m]
    BY <1>2, <2>3
  <2>5. q[j].thread = t /\ t \notin Identified(q)
    BY <2>1, <2>2, <2>4
  <2>6. PICK i \in 1 .. Len(queue') : queue'[i] = q[j]
    BY <1>4, <2>5
  <2> QED
    BY <2>5, <2>6
<1>11. QueueHoldsWaiters'
  BY <1>4, <1>9, <1>10 DEF QueueHoldsWaiters
<1>12. ThreadsHaveHomes'
  <2>1. ASSUME NEW t \in Threads, thread'[t] # "DEAD" PROVE thread[t] # "DEAD"
    <3>1. CASE t \in done
      <4>1. \E i \in 1 .. Len(queue) : queue[i].thread = t
        <5>1. CASE t = h
          BY <1>2, <5>1 DEF h
        <5>2. CASE t \in Identified(q)
          <6>1. PICK j \in 1 .. Head1(q) - 1 : t = q[j].thread
            BY <5>2 DEF Identified
          <6>2. j \in 1 .. Len(q)
            BY <1>2, <6>1, NthRequest, Head1Facts
          <6> QED
            BY <1>2, <6>1, <6>2
        <5> QED
          BY <3>1, <5>1, <5>2
      <4> QED
        BY <1>5, <4>1, QueuedWait
    <3>2. CASE t \notin done
      BY <1>1, <2>1, <3>2
    <3> QED
      BY <3>1, <3>2
  <2> QED
    BY <1>1, <1>3, <1>5, <2>1 DEF ThreadsHaveHomes
<1> QED
  BY <1>1, <1>4, <1>8, <1>11, <1>12 DEF IInv, QueueInv
LEMMA ExitBeginIInv == ASSUME IInv, NEW p \in Procs, ExitBegin(p) PROVE IInv'
<1> USE DEF IInv, QueueInv
<1>1. /\ kop.at = "user" /\ proc[p] = "LIVE" /\ proc' = [proc EXCEPT ![p] = "EXITING"]
      /\ thread' = [t \in Threads |-> IF Home[t] = p THEN "DEAD" ELSE thread[t]]
      /\ kop' = [at |-> "exit", proc |-> p]
      /\ UNCHANGED <<vm, result, queue, running, idc, bounce, enabled, pending>>
  BY DEF ExitBegin
<1>2. Home \in [Threads -> Procs] /\ kop'.at = "exit" /\ kop'.proc = p
  BY <1>1, BlkAssumption
<1>3. kop' \in [at : {"user", "look", "blk_irq", "ack", "exit"}, proc : Procs \cup {Null}]
  BY <1>1
<1>4. proc' \in [Procs -> {"LIVE", "EXITING", "FREE"}] /\ thread' \in [Threads -> {"READY", "BLK_IO", "DEAD"}]
  BY <1>1 DEF TypeOK
<1>5. TypeOK'
  BY <1>1, <1>3, <1>4 DEF TypeOK
<1>6. QueueHoldsWaiters'
  <2>1. ASSUME NEW i \in 1 .. Len(queue) PROVE thread'[queue[i].thread] = "BLK_IO" \/ Mine(p, queue[i])
    <3>1. thread[queue[i].thread] = "BLK_IO" /\ queue[i].thread \in Threads
      BY <1>1, QueuedWait, NthRequest DEF TypeOK
    <3> QED
      BY <1>1, <3>1 DEF Mine
  <2>2. \A t \in Threads : thread'[t] = "BLK_IO" => thread[t] = "BLK_IO"
    BY <1>1
  <2> QED
    BY <1>1, <1>2, <2>1, <2>2 DEF QueueHoldsWaiters
<1>7. ThreadsHaveHomes'
  BY <1>1, <1>2 DEF ThreadsHaveHomes, TypeOK
<1>8. DeviceFollows' /\ BounceIsOwn'
  BY <1>1 DEF DeviceFollows, BounceIsOwn
<1> QED
  BY <1>5, <1>6, <1>7, <1>8

LEMMA SpawnIInv == ASSUME IInv, NEW p \in Procs, Spawn(p) PROVE IInv'
<1> USE DEF IInv, QueueInv
<1>1. /\ kop.at = "user" /\ proc[p] = "FREE" /\ proc' = [proc EXCEPT ![p] = "LIVE"]
      /\ thread' = [t \in Threads |-> IF Home[t] = p THEN "READY" ELSE thread[t]]
      /\ result' = [t \in Threads |-> IF Home[t] = p THEN "none" ELSE result[t]]
      /\ UNCHANGED <<vm, queue, running, idc, bounce, enabled, pending, kop>>
  BY DEF Spawn
<1>2. Home \in [Threads -> Procs]
  BY BlkAssumption
<1>3. /\ proc' \in [Procs -> {"LIVE", "EXITING", "FREE"}] /\ thread' \in [Threads -> {"READY", "BLK_IO", "DEAD"}]
      /\ result' \in [Threads -> Results]
  BY <1>1 DEF TypeOK, Results
<1>4. TypeOK'
  BY <1>1, <1>3 DEF TypeOK
<1>5. QueueHoldsWaiters'
  <2>1. ASSUME NEW i \in 1 .. Len(queue) PROVE thread'[queue[i].thread] = "BLK_IO"
    <3>1. thread[queue[i].thread] = "BLK_IO" /\ queue[i].thread \in Threads
      BY <1>1, QueuedWait, NthRequest DEF TypeOK
    <3> QED
      BY <1>1, <3>1 DEF ThreadsHaveHomes
  <2>2. \A t \in Threads : thread'[t] = "BLK_IO" => thread[t] = "BLK_IO"
    BY <1>1
  <2> QED
    BY <1>1, <2>1, <2>2 DEF QueueHoldsWaiters
<1>6. ThreadsHaveHomes'
  BY <1>1, <1>2 DEF ThreadsHaveHomes, TypeOK
<1>7. DeviceFollows' /\ BounceIsOwn'
  BY <1>1 DEF DeviceFollows, BounceIsOwn
<1> QED
  BY <1>4, <1>5, <1>6, <1>7

LEMMA ExitEndIInv == IInv /\ ExitEnd => IInv'
<1> SUFFICES ASSUME IInv, ExitEnd PROVE IInv'
  OBVIOUS
<1> DEFINE p == kop.proc
           q == Kept(p)
           stopped == running /\ Mine(p, queue[1])
           done == IF stopped THEN Identified(q) ELSE {}
<1>1. /\ kop.at = "exit" /\ (stopped => ~idc.busy)
      /\ stopped => RunQueue(q)
      /\ ~stopped => queue' = q /\ UNCHANGED <<running, idc, bounce, enabled, pending>>
      /\ thread' = [t \in Threads |-> IF t \in done THEN "READY" ELSE thread[t]]
      /\ \E identified \in [done -> {"done", "error"}] :
           result' = [t \in Threads |-> IF t \in done THEN identified[t] ELSE result[t]]
      /\ proc' = [proc EXCEPT ![p] = "FREE"] /\ kop' = At("user") /\ vm' = vm
  BY DEF ExitEnd, Aborted
<1>2. TypeOK /\ QueueHoldsWaiters /\ ThreadsHaveHomes /\ DeviceFollows /\ BounceIsOwn
  BY DEF IInv, QueueInv
<1>3. /\ p \in Procs /\ proc[p] = "EXITING" /\ Home \in [Threads -> Procs]
      /\ queue \in Seq(Requests) /\ Len(queue) \in Nat /\ Len(queue) <= MaxQueue
      /\ \A i, j \in 1 .. Len(queue) : queue[i].thread = queue[j].thread => i = j
      /\ running <=> queue # <<>>
  BY <1>1, <1>2, BlkAssumption, NthRequest DEF ThreadsHaveHomes, QueueHoldsWaiters, TypeOK
<1>4. KeptSoFar(p, q, Len(queue))
  BY <1>3, KeptFacts
<1> HIDE DEF q
<1>5. /\ q \in Seq(Requests) /\ Len(q) <= MaxQueue /\ Len(q) \in Nat
      /\ \A i, j \in 1 .. Len(q) : q[i].thread = q[j].thread => i = j
  BY <1>3, <1>4, MaxQueueNat, NthRequest DEF KeptSoFar
\* Whoever is kept waits.
<1>6. ASSUME NEW j \in 1 .. Len(q)
      PROVE  q[j].thread \in Threads /\ thread[q[j].thread] = "BLK_IO" /\ Home[q[j].thread] # p
  <2>1. PICK i \in 1 .. Len(queue) : q[j] = queue[i] /\ ~Mine(p, queue[i])
    BY <1>4 DEF KeptSoFar
  <2>2. thread[queue[i].thread] = "BLK_IO"
    BY <1>2, <2>1 DEF QueueHoldsWaiters
  <2>3. q[j].thread \in Threads
    BY <1>5, NthRequest
  <2> QED
    BY <2>1, <2>2, <2>3 DEF Mine
\* Whoever waits is kept.
<1>7. ASSUME NEW t \in Threads, thread[t] = "BLK_IO" PROVE \E j \in 1 .. Len(q) : q[j].thread = t
  <2>1. PICK i \in 1 .. Len(queue) : queue[i].thread = t
    BY <1>2, <1>7 DEF QueueHoldsWaiters
  <2>2. ~Mine(p, queue[i])
    BY <1>2, <1>3, <1>7, <2>1 DEF Mine, ThreadsHaveHomes
  <2>3. PICK j \in 1 .. Len(q) : q[j] = queue[i]
    BY <1>4, <2>2 DEF KeptSoFar
  <2> QED
    BY <2>1, <2>3
<1>8. /\ queue' \in Seq(Requests) /\ Len(queue') <= MaxQueue
      /\ running' \in BOOLEAN /\ idc' \in Idc /\ bounce' \in Threads \cup {Null}
      /\ enabled' \in BOOLEAN /\ pending' \in BOOLEAN
      /\ running' <=> queue' # <<>>
      /\ \A i, j \in 1 .. Len(queue') : queue'[i].thread = queue'[j].thread => i = j
      /\ \A i \in 1 .. Len(queue') : \E j \in 1 .. Len(q) : queue'[i] = q[j] /\ q[j].thread \notin done
      /\ \A j \in 1 .. Len(q) : q[j].thread \in done \/ \E i \in 1 .. Len(queue') : queue'[i] = q[j]
      /\ BounceIsOwn' /\ DeviceFollows'
  <2>1. CASE stopped
    <3>1. /\ queue' \in Seq(Requests) /\ Len(queue') <= MaxQueue
          /\ running' \in BOOLEAN /\ idc' \in Idc /\ bounce' \in Threads \cup {Null}
          /\ enabled' \in BOOLEAN /\ pending' \in BOOLEAN
          /\ running' <=> queue' # <<>>
          /\ \A i, j \in 1 .. Len(queue') : queue'[i].thread = queue'[j].thread => i = j
          /\ \A i \in 1 .. Len(queue') : \E j \in 1 .. Len(q) : queue'[i] = q[j] /\ q[j].thread \notin Identified(q)
          /\ \A j \in 1 .. Len(q) : \/ q[j].thread \in Identified(q)
                                    \/ \E i \in 1 .. Len(queue') : queue'[i] = q[j]
          /\ vm' = vm => BounceIsOwn'
          /\ DeviceFollows'
      <4> HIDE DEF stopped, done
      <4> QED
        BY <1>1, <1>2, <1>5, <2>1, RunQueueFacts, Zenon
    <3>2. done = Identified(q)
      BY <2>1
    <3> HIDE DEF stopped, done
    <3> QED
      BY <1>1, <3>1, <3>2, Zenon
  <2>2. CASE ~stopped
    <3>1. queue' = q /\ UNCHANGED <<running, idc, bounce, enabled, pending>> /\ done = {} /\ vm' = vm
      BY <1>1, <2>2
    <3>2. /\ running' \in BOOLEAN /\ idc' \in Idc /\ bounce' \in Threads \cup {Null}
          /\ enabled' \in BOOLEAN /\ pending' \in BOOLEAN
      BY <1>2, <3>1 DEF TypeOK, Idc
    <3>3. (running => q # <<>> /\ q[1] = queue[1]) /\ (~running => q = <<>>)
      <4>1. CASE running
        <5>1. Len(queue) > 0 /\ ~Mine(p, queue[1])
          BY <1>3, <2>2, <4>1, NthRequest
        <5>2. Len(q) > 0 /\ q[1] = queue[1]
          BY <1>4, <5>1 DEF KeptSoFar
        <5> QED
          BY <1>5, <4>1, <5>2, NthRequest
      <4>2. CASE ~running
        <5>1. Len(queue) = 0
          BY <1>3, <4>2, NthRequest
        <5>2. Len(q) = 0
          BY <1>4, <1>5, <5>1 DEF KeptSoFar
        <5> QED
          BY <1>5, <4>2, <5>2, NthRequest
      <4> QED
        BY <4>1, <4>2
    <3>4. BounceIsOwn' /\ DeviceFollows'
      BY <1>2, <3>1, <3>3 DEF BounceIsOwn, DeviceFollows
    <3>5. running' <=> queue' # <<>>
      BY <3>1, <3>3
    <3> HIDE DEF stopped, done
    <3>6. /\ \A i \in 1 .. Len(queue') : \E j \in 1 .. Len(q) : queue'[i] = q[j] /\ q[j].thread \notin done
          /\ \A j \in 1 .. Len(q) : q[j].thread \in done \/ \E i \in 1 .. Len(queue') : queue'[i] = q[j]
      BY <3>1
    <3> QED
      BY <1>5, <3>1, <3>2, <3>4, <3>5, <3>6, Zenon
  <2> QED
    BY <2>1, <2>2
<1>9. \A t \in done : \E j \in 1 .. Len(q) : q[j].thread = t
  <2> SUFFICES ASSUME NEW t \in Identified(q) PROVE \E j \in 1 .. Len(q) : q[j].thread = t
    OBVIOUS
  <2>1. PICK j \in 1 .. Head1(q) - 1 : t = q[j].thread
    BY DEF Identified
  <2>2. j \in 1 .. Len(q)
    BY <1>5, <2>1, Head1Facts
  <2> QED
    BY <2>1, <2>2
<1> HIDE DEF stopped, done
<1>10. kop'.at = "user" /\ kop' \in [at : {"user", "look", "blk_irq", "ack", "exit"}, proc : Procs \cup {Null}]
  BY <1>1 DEF At
<1>11. /\ thread' \in [Threads -> {"READY", "BLK_IO", "DEAD"}] /\ result' \in [Threads -> Results]
       /\ proc' \in [Procs -> {"LIVE", "EXITING", "FREE"}]
  <2>1. thread' \in [Threads -> {"READY", "BLK_IO", "DEAD"}] /\ proc' \in [Procs -> {"LIVE", "EXITING", "FREE"}]
    BY <1>1, <1>2 DEF TypeOK
  <2>2. PICK identified \in [done -> {"done", "error"}] :
          result' = [t \in Threads |-> IF t \in done THEN identified[t] ELSE result[t]]
    BY <1>1
  <2>3. result' \in [Threads -> Results]
    BY <1>2, <2>2 DEF TypeOK, Results
  <2> QED
    BY <2>1, <2>3
<1>12. TypeOK'
  BY <1>1, <1>2, <1>8, <1>10, <1>11 DEF TypeOK, Idc
<1>13. ASSUME NEW i \in 1 .. Len(queue') PROVE thread'[queue'[i].thread] = "BLK_IO"
  <2>1. PICK j \in 1 .. Len(q) : queue'[i] = q[j] /\ q[j].thread \notin done
    BY <1>8
  <2> QED
    BY <1>1, <1>6, <2>1
<1>14. ASSUME NEW t \in Threads, thread'[t] = "BLK_IO" PROVE \E i \in 1 .. Len(queue') : queue'[i].thread = t
  <2>1. t \notin done /\ thread[t] = "BLK_IO"
    BY <1>1, <1>14
  <2>2. PICK j \in 1 .. Len(q) : q[j].thread = t
    BY <1>7, <2>1
  <2>3. PICK i \in 1 .. Len(queue') : queue'[i] = q[j]
    BY <1>8, <2>1, <2>2
  <2> QED
    BY <2>2, <2>3
<1>15. QueueHoldsWaiters'
  BY <1>8, <1>13, <1>14 DEF QueueHoldsWaiters
<1>16. ThreadsHaveHomes'
  <2>1. ASSUME NEW t \in Threads, thread'[t] # "DEAD" PROVE thread[t] # "DEAD"
    <3>1. CASE t \in done
      BY <1>6, <1>9, <3>1
    <3>2. CASE t \notin done
      BY <1>1, <2>1, <3>2
    <3> QED
      BY <3>1, <3>2
  <2>2. ASSUME NEW t \in Threads, thread'[t] # "DEAD" PROVE proc'[Home[t]] = "LIVE"
    BY <1>1, <1>2, <1>3, <2>1, <2>2 DEF ThreadsHaveHomes, TypeOK
  <2>3. \A r \in Procs : proc'[r] # "EXITING"
    BY <1>1, <1>2 DEF ThreadsHaveHomes, TypeOK
  <2> QED
    BY <1>10, <2>2, <2>3 DEF ThreadsHaveHomes
<1> QED
  BY <1>8, <1>12, <1>15, <1>16 DEF IInv, QueueInv

LEMMA NextIInv == IInv /\ [Next]_vars => IInv'
<1> SUFFICES ASSUME IInv, [Next]_vars PROVE IInv'
  OBVIOUS
<1>1. CASE UNCHANGED vars
  BY <1>1 DEF vars, IInv, QueueInv, TypeOK, QueueHoldsWaiters, BounceIsOwn, ThreadsHaveHomes, DeviceFollows, Mine
<1>2. CASE IdcFinish
  BY <1>2, FinishIInv
<1>3. CASE IdcInterrupt \/ OtherInterrupt \/ LookForIrq \/ AckIrq
  BY <1>3, IrqIInv
<1>4. CASE BlkIrqSpurious
  <2>1. ~running
    BY <1>4 DEF BlkIrqSpurious
  <2> QED
    BY <1>4, <2>1, ClearedIInv
<1>5. CASE BlkIrq
  BY <1>5, BlkIrqIInv
<1>6. CASE ExitEnd
  BY <1>6, ExitEndIInv
<1>7. ASSUME NEW t \in Threads, IdentifyNow(t) PROVE IInv'
  <2>1. ~running
    BY <1>7 DEF IdentifyNow, IInv, QueueInv, QueueHoldsWaiters
  <2> QED
    BY <1>7, <2>1, ClearedIInv
<1>8. ASSUME NEW t \in Threads, NEW op \in {"read", "write", "identify"}, BlkIo(t, op) PROVE IInv'
  BY <1>8, BlkIoIInv
<1>9. ASSUME NEW p \in Procs, ExitBegin(p) \/ Spawn(p) PROVE IInv'
  BY <1>9, ExitBeginIInv, SpawnIInv
<1> QED
  BY <1>1, <1>2, <1>3, <1>4, <1>5, <1>6, <1>7, <1>8, <1>9, Zenon DEF Next, Kernel

LEMMA AlwaysIInv == Spec => []IInv
  BY InitIInv, NextIInv, PTL DEF Spec
-----------------------------------------------------------------------------
(* Theorems.                                                                 *)

\* The queue holds exactly the waiting requests and the bounce buffer the sectors of
\* the one that runs, whatever transfers, interrupts and exits interleave
\* (run_queue, blk_irq and blk_proc_exited, blk.c:197-247).
THEOREM QueueIsRight == Spec => []QueueInv
<1>1. IInv => QueueInv
  BY DEF IInv
<1> QED
  BY AlwaysIInv, <1>1, PTL

\* The device never transfers into memory that was released (blk_proc_exited aborts
\* the transfer and waits for it, blk.c:235-242).
THEOREM DmaIsSafe == Spec => []DmaIntoLiveMemory
<1>1. IInv => DmaIntoLiveMemory
  <2> SUFFICES ASSUME IInv, idc.busy PROVE running /\ idc.thread = queue[1].thread /\ proc[Home[idc.thread]] # "FREE"
    BY DEF DmaIntoLiveMemory
  <2> USE DEF IInv, QueueInv
  <2>1. running /\ idc.thread = queue[1].thread
    BY DEF DeviceFollows
  <2>2. 1 \in 1 .. Len(queue) /\ queue[1].thread \in Threads
    BY <2>1, Popped
  <2>3. CASE thread[queue[1].thread] = "BLK_IO"
    BY <2>1, <2>2, <2>3 DEF ThreadsHaveHomes
  <2>4. CASE kop.at = "exit" /\ Mine(kop.proc, queue[1])
    BY <2>1, <2>4 DEF ThreadsHaveHomes, Mine
  <2> QED
    BY <2>1, <2>2, <2>3, <2>4 DEF QueueHoldsWaiters
<1> QED
  BY AlwaysIInv, <1>1, PTL

\* A thread that can ask always finds room: the error return of sys_blk_io for a full
\* queue (blk.c:277) is never taken.
Room == \A t \in Threads : thread[t] = "READY" => Len(queue) < MaxQueue

THEOREM QueueHasRoom == Spec => []Room
<1>1. IInv => Room
  <2> SUFFICES ASSUME IInv, NEW t \in Threads, thread[t] = "READY", ~(Len(queue) < MaxQueue) PROVE FALSE
    BY DEF Room
  <2> USE DEF IInv, QueueInv
  <2> DEFINE S == 1 .. Len(queue)
             T == Threads \ {t}
             f == [i \in S |-> queue[i].thread]
  <2>1. Len(queue) \in Nat /\ \A i \in S : queue[i].thread \in Threads
    BY NthRequest DEF TypeOK
  <2>2. IsFiniteSet(S) /\ Cardinality(S) = Len(queue)
    <3>1. Len(queue) \in Int /\ 1 \in Int
      BY <2>1
    <3>2. IsFiniteSet(1 .. Len(queue)) /\ Cardinality(1 .. Len(queue)) = IF 1 > Len(queue) THEN 0 ELSE Len(queue) - 1 + 1
      BY <3>1, FS_Interval
    <3> QED
      BY <2>1, <3>2
  <2>3. IsFiniteSet(T) /\ Cardinality(T) = MaxQueue - 1
    BY BlkAssumption, FS_RemoveElement
  <2>4. Cardinality(T) < Cardinality(S)
    BY <2>1, <2>2, <2>3, MaxQueueNat
  <2>5. ASSUME NEW i \in S PROVE queue[i].thread # t
    <3>1. CASE thread[queue[i].thread] = "BLK_IO"
      BY <3>1
    <3>2. CASE kop.at = "exit" /\ Mine(kop.proc, queue[i])
      BY <3>2 DEF Mine, ThreadsHaveHomes
    <3> QED
      BY <3>1, <3>2 DEF QueueHoldsWaiters
  <2>6. f \in [S -> T]
    BY <2>1, <2>5
  <2>7. \E i, j \in S : i # j /\ f[i] = f[j]
    <3> HIDE DEF S, T, f
    <3> QED
      BY <2>2, <2>3, <2>4, <2>6, FS_PigeonHole
  <2> QED
    BY <2>7 DEF QueueHoldsWaiters
<1> QED
  BY AlwaysIInv, <1>1, PTL

\* A transfer is answered once it is over, with the status the device gave for it and
\* not with what an IDENTIFY, an abort or an earlier transfer left (blk_irq, blk.c:213).
THEOREM AnswerIsRight == Spec => RightAnswer
<1> DEFINE Right == \A t \in Threads :
              thread[t] = "BLK_IO" /\ thread'[t] = "READY" /\ queue[1].thread = t /\ queue[1].op # "identify"
                => /\ ~idc.busy /\ idc.thread = t
                   /\ idc.status # "idle" /\ result'[t] = idc.status
<1>1. IInv /\ [Next]_vars => [Right]_vars
  <2> SUFFICES ASSUME IInv, Next, NEW t \in Threads, thread[t] = "BLK_IO", thread'[t] = "READY",
                      queue[1].thread = t
               PROVE  ~idc.busy /\ idc.thread = t /\ idc.status # "idle" /\ result'[t] = idc.status
    OBVIOUS
  <2> USE DEF IInv, QueueInv
  <2>1. CASE BlkIrq
    <3>1. running /\ ~idc.busy
      BY <2>1 DEF BlkIrq, TransferOver
    <3>2. idc.thread = t /\ idc.status # "idle"
      BY <3>1 DEF DeviceFollows
    <3>3. result'[t] = IdcResult
      BY <2>1 DEF BlkIrq
    <3>4. IdcResult = idc.status
      BY <3>2 DEF IdcResult, TypeOK
    <3> QED
      BY <3>1, <3>2, <3>3, <3>4
  <2>2. CASE ExitEnd
    <3>1. kop.at = "exit" /\ Mine(kop.proc, queue[1])
      BY <2>2 DEF ExitEnd
    <3> QED
      BY <3>1 DEF ThreadsHaveHomes, Mine
  <2>3. ASSUME NEW p \in Procs, ExitBegin(p) PROVE FALSE
    BY <2>3 DEF ExitBegin
  <2>4. ASSUME NEW p \in Procs, Spawn(p) PROVE FALSE
    BY <2>4 DEF Spawn, ThreadsHaveHomes
  <2>5. ASSUME NEW u \in Threads, NEW op \in {"read", "write", "identify"}, BlkIo(u, op) PROVE FALSE
    BY <2>5 DEF BlkIo, TypeOK
  <2>6. ASSUME NEW u \in Threads, IdentifyNow(u) PROVE FALSE
    BY <2>6 DEF IdentifyNow
  <2>7. CASE IdcFinish \/ IdcInterrupt \/ OtherInterrupt \/ LookForIrq \/ BlkIrqSpurious \/ AckIrq
    BY <2>7 DEF IdcFinish, IdcInterrupt, OtherInterrupt, LookForIrq, BlkIrqSpurious, AckIrq
  <2> HIDE DEF IInv, QueueInv
  <2> QED
    BY <2>1, <2>2, <2>3, <2>4, <2>5, <2>6, <2>7, Zenon DEF Next, Kernel
<1> QED
  BY AlwaysIInv, <1>1, PTL DEF Spec, RightAnswer
=============================================================================

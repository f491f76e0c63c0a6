-------------------------- MODULE DiskCacheProofs --------------------------
(***************************************************************************)
(* Proofs about DiskCache, for any number of drives, windows and sectors: no  *)
(* window is ever stale, a read returns what is on the drive and succeeds      *)
(* when it can, the ages are ranks, and one client is served.                  *)
(*                                                                         *)
(* Coherent alone is not inductive: between WriteBegin and WriteEnd it must    *)
(* also be known that no window overlaps the sectors about to be written       *)
(* (WriteIsClear), which only the order "drop, then write" of main.c gives;     *)
(* and between ReadMiss and Prefetch that enough is read (EnoughAhead).         *)
(***************************************************************************)
EXTENDS DiskCache, Integers, FiniteSetTheorems, SequenceTheorems, WellFoundedInduction, TLAPS

Window == [drive : Drives \cup {All}, lba : Nat, age : Int, data : Seq(Contents)]

Stage == {"asked", "prefetch", "exact", "writing"}

Busy(v) == [at : Stage, badge : Badges, req : Request, victim : {v}]

Types ==
  /\ windows \in [Index -> Window]
  /\ \A i \in Filled(windows) : windows[i].drive \in Drives
  /\ capacity \in [Drives -> Nat]
  /\ disk \in [Drives -> Seq(Contents \cup {Bad})]
  /\ changed \in [Drives -> BOOLEAN]
  /\ op = Idle \/ \E v : op \in Busy(v)
  /\ op.at \in {"prefetch", "exact"} => op.req.kind = "read"
  /\ op.at = "writing" => op.req.kind = "write"

\* The request on its way to the drive overlaps no window (main.c:96-97).
WriteIsClear ==
  op.at = "writing" => Overlapping(windows, op.req.drive, op.req.lba, op.req.count) = {}

\* A read ahead covers the request (cache.c:64).
EnoughAhead == op.at = "prefetch" => op.req.count <= Ahead(op.req.drive, op.req.lba)

IInv == Types /\ WriteIsClear /\ EnoughAhead /\ Coherent

\* No window of new holds anything that the same window of old did not.
Keeps(old, new) ==
  \A i \in Filled(new) : /\ i \in Filled(old)
                         /\ new[i].drive = old[i].drive /\ new[i].lba = old[i].lba
                         /\ new[i].data = old[i].data

-----------------------------------------------------------------------------
(* The operations on windows.                                                *)

LEMMA EmptyType == Empty \in Window /\ Empty.data = <<>>
BY DEF Empty, Window

\* forget: nothing is added, and what is forgotten is empty (cache.c:9).
LEMMA ForgetKeeps ==
  ASSUME NEW ws \in [Index -> Window], NEW S \in SUBSET Index
  PROVE  /\ Forget(ws, S) \in [Index -> Window]
         /\ Keeps(ws, Forget(ws, S))
         /\ Filled(Forget(ws, S)) \cap S = {}
<1> DEFINE Younger(i) == {j \in S \cap Filled(ws) : ws[j].age < ws[i].age}
           Aged(i) == [ws[i] EXCEPT !.age = ws[i].age - Cardinality(Younger(i))]
<1>1. IsFiniteSet(Index)
  BY FS_Interval, CacheAssumption DEF Index
<1>2. ASSUME NEW i \in Index PROVE Cardinality(Younger(i)) \in Nat
  BY <1>1, FS_Subset, FS_CardinalityType
<1>3. ASSUME NEW i \in Index
      PROVE  /\ Aged(i) \in Window
             /\ Aged(i).drive = ws[i].drive /\ Aged(i).lba = ws[i].lba /\ Aged(i).data = ws[i].data
  <2>1. ASSUME NEW age \in Int
        PROVE  /\ [ws[i] EXCEPT !.age = age] \in Window
               /\ [ws[i] EXCEPT !.age = age].drive = ws[i].drive
               /\ [ws[i] EXCEPT !.age = age].lba = ws[i].lba
               /\ [ws[i] EXCEPT !.age = age].data = ws[i].data
    <3>1. ws[i] \in Window
      OBVIOUS
    <3> QED
      BY <3>1 DEF Window
  <2>2. ws[i].age \in Int
    BY DEF Window
  <2>3. ws[i].age - Cardinality(Younger(i)) \in Int
    <3> HIDE DEF Younger
    <3> QED
      BY <1>2, <2>2
  <2> HIDE DEF Younger
  <2> QED
    BY <2>1, <2>3
<1>4. Forget(ws, S) = [i \in Index |-> IF i \in S THEN Empty ELSE Aged(i)]
  BY DEF Forget
<1> HIDE DEF Aged
<1>5. Forget(ws, S) \in [Index -> Window]
  BY <1>3, <1>4, EmptyType
<1>6. ASSUME NEW i \in Filled(Forget(ws, S)) PROVE i \in Index /\ i \notin S /\ Forget(ws, S)[i] = Aged(i)
  BY <1>4, <1>6, EmptyType DEF Filled
<1> QED
  BY <1>3, <1>5, <1>6 DEF Keeps, Filled

\* touch changes ages only (cache.c:35).
LEMMA TouchKeeps ==
  ASSUME NEW ws \in [Index -> Window], NEW i
  PROVE  Touch(ws, i) \in [Index -> Window] /\ Keeps(ws, Touch(ws, i))
<1>1. ASSUME NEW j \in Index, NEW age \in Int
      PROVE  /\ [ws[j] EXCEPT !.age = age] \in Window
             /\ [ws[j] EXCEPT !.age = age].drive = ws[j].drive
             /\ [ws[j] EXCEPT !.age = age].lba = ws[j].lba
             /\ [ws[j] EXCEPT !.age = age].data = ws[j].data
  <2>1. ws[j] \in Window
    OBVIOUS
  <2> QED
    BY <2>1 DEF Window
<1>2. ASSUME NEW j \in Index
      PROVE  /\ Touch(ws, i)[j] \in Window
             /\ Touch(ws, i)[j].drive = ws[j].drive
             /\ Touch(ws, i)[j].lba = ws[j].lba
             /\ Touch(ws, i)[j].data = ws[j].data
  <2>1. ws[j] \in Window /\ ws[j].age \in Int /\ ws[j].age + 1 \in Int
    BY DEF Window
  <2>2. Touch(ws, i)[j] = IF j = i THEN [ws[j] EXCEPT !.age = 0]
                          ELSE IF j \in Filled(ws) /\ ws[j].age < ws[i].age
                               THEN [ws[j] EXCEPT !.age = ws[j].age + 1]
                          ELSE ws[j]
    BY DEF Touch
  <2> QED
    BY <1>1, <2>1, <2>2
<1>3. Touch(ws, i) = [j \in Index |-> Touch(ws, i)[j]]
  BY DEF Touch
<1> QED
  BY <1>2, <1>3 DEF Keeps, Filled

LEMMA DropKeeps ==
  ASSUME NEW ws \in [Index -> Window], NEW d
  PROVE  /\ Drop(ws, d) \in [Index -> Window]
         /\ Keeps(ws, Drop(ws, d))
         /\ \A i \in Filled(Drop(ws, d)) : d # All /\ ws[i].drive # d
<1> DEFINE S == {i \in Index : d = All \/ ws[i].drive = d}
<1>1. S \in SUBSET Index /\ Drop(ws, d) = Forget(ws, S)
  BY DEF Drop
<1>2. Filled(Forget(ws, S)) \cap S = {} /\ Filled(Forget(ws, S)) \subseteq Index
  BY <1>1, ForgetKeeps DEF Filled
<1> QED
  BY <1>1, <1>2, ForgetKeeps

-----------------------------------------------------------------------------
(* The invariant.                                                            *)

\* What is on the drives does not change and windows only lose what they had.
LEMMA KeepsCoherent ==
  ASSUME IInv, windows' \in [Index -> Window], Keeps(windows, windows'), UNCHANGED disk,
         \A i \in Filled(windows') : changed[windows[i].drive] => changed'[windows[i].drive]
  PROVE  Coherent' /\ \A i \in Filled(windows') : windows'[i].drive \in Drives
<1> SUFFICES ASSUME NEW i \in Filled(windows')
             PROVE  /\ windows'[i].drive \in Drives
                    /\ ~changed'[windows'[i].drive] =>
                         OnMedium(disk'[windows'[i].drive], windows'[i].lba, windows'[i].data)
  BY DEF Coherent, OnMedium, Filled
<1>1. /\ i \in Filled(windows)
      /\ windows'[i].drive = windows[i].drive
      /\ windows'[i].lba = windows[i].lba
      /\ windows'[i].data = windows[i].data
  BY DEF Keeps
<1>2. /\ windows[i].drive \in Drives
      /\ ~changed[windows[i].drive] => OnMedium(disk[windows[i].drive], windows[i].lba, windows[i].data)
  BY <1>1 DEF IInv, Types, Coherent
<1>3. ~changed'[windows[i].drive] => ~changed[windows[i].drive]
  OBVIOUS
<1> QED
  BY <1>1, <1>2, <1>3

LEMMA InitIInv == Init => IInv
<1> SUFFICES ASSUME Init PROVE IInv
  OBVIOUS
<1>1. windows \in [Index -> Window] /\ Filled(windows) = {}
  BY EmptyType DEF Init, Filled
<1>2. Types
  BY <1>1, CacheAssumption DEF Init, Types, Idle
<1> QED
  BY <1>1, <1>2 DEF IInv, WriteIsClear, EnoughAhead, Coherent, Init, Idle

\* The request in service, once it is known not to be Idle.
LEMMA BusyOp ==
  ASSUME Types, op.at # "idle"
  PROVE  /\ \E v : op \in Busy(v)
         /\ op.req \in Request /\ op.badge \in Badges
         /\ op.req.kind = "read" =>
              op.req.drive \in Drives /\ op.req.lba \in Nat /\ op.req.count \in 1 .. MaxSectors
         /\ op.req.kind = "write" =>
              /\ op.req.drive \in Drives /\ op.req.lba \in Nat /\ op.req.count \in 1 .. MaxSectors
              /\ op.req.value \in Contents
<1>1. PICK v : op \in Busy(v)
  BY DEF Types, Idle
<1>2. op.req \in Request /\ op.badge \in Badges
  BY <1>1 DEF Busy
<1>3. ASSUME NEW r \in Request, r.kind = "read"
      PROVE  r.drive \in Drives /\ r.lba \in Nat /\ r.count \in 1 .. MaxSectors
  BY <1>3, CacheAssumption DEF Request
<1>4. ASSUME NEW r \in Request, r.kind = "write"
      PROVE  r.drive \in Drives /\ r.lba \in Nat /\ r.count \in 1 .. MaxSectors /\ r.value \in Contents
  BY <1>4, CacheAssumption DEF Request
<1> QED
  BY <1>1, <1>2, <1>3, <1>4

\* Ahead never reaches past the known capacity.
LEMMA AheadType ==
  ASSUME Types, NEW d \in Drives, NEW lba \in Nat
  PROVE  Ahead(d, lba) \in Nat
BY CacheAssumption DEF Types, Ahead

\* What blk_io reads are the sectors of the medium, none of them bad.
LEMMA ReadSectors ==
  ASSUME Types, NEW d \in Drives, NEW lba \in Nat, NEW n \in Nat, Readable(d, lba, n)
  PROVE  /\ Sectors(d, lba, n) \in Seq(Contents)
         /\ Len(Sectors(d, lba, n)) = n
         /\ OnMedium(disk[d], lba, Sectors(d, lba, n))
<1>1. disk[d] \in Seq(Contents \cup {Bad})
  BY DEF Types
<1>2. \A s \in lba + 1 .. lba + n : disk[d][s] \in Contents /\ s <= Len(disk[d])
  <2> TAKE s \in lba + 1 .. lba + n
  <2>1. s \in 1 .. Len(disk[d]) /\ disk[d][s] # Bad
    BY DEF Readable, Extent
  <2> QED
    BY <1>1, <2>1
<1>3. /\ SubSeq(disk[d], lba + 1, lba + n) \in Seq(Contents)
      /\ Len(SubSeq(disk[d], lba + 1, lba + n)) = IF lba + 1 <= lba + n THEN lba + n - (lba + 1) + 1 ELSE 0
      /\ \A k \in 1 .. lba + n - (lba + 1) + 1 :
           SubSeq(disk[d], lba + 1, lba + n)[k] = disk[d][lba + 1 + k - 1]
  BY <1>2, SubSeqProperties
<1> DEFINE sectors == SubSeq(disk[d], lba + 1, lba + n)
<1>4. Len(sectors) = n
  BY <1>3
<1>5. ASSUME NEW k \in 1 .. n PROVE lba + k <= Len(disk[d]) /\ sectors[k] = disk[d][lba + k]
  <2>1. lba + k \in lba + 1 .. lba + n /\ k \in 1 .. lba + n - (lba + 1) + 1 /\ lba + 1 + k - 1 = lba + k
    OBVIOUS
  <2> QED
    BY <1>2, <1>3, <2>1
<1> QED
  BY <1>3, <1>4, <1>5 DEF Sectors, OnMedium

-----------------------------------------------------------------------------
(* One lemma per kind of step.                                               *)

\* A step that only drops windows, or reorders them, and does not reach "writing".
LEMMA DropStep ==
  ASSUME IInv, windows' \in [Index -> Window], Keeps(windows, windows'),
         UNCHANGED <<disk, changed>>, capacity' \in [Drives -> Nat],
         op' = Idle \/ \E v : op' \in Busy(v),
         op'.at \in {"prefetch", "exact"} => op'.req.kind = "read",
         op'.at # "writing", EnoughAhead'
  PROVE  IInv'
<1>1. Coherent' /\ \A i \in Filled(windows') : windows'[i].drive \in Drives
  BY KeepsCoherent
<1>2. Types'
  BY <1>1 DEF IInv, Types, Filled
<1> QED
  BY <1>1, <1>2 DEF IInv, WriteIsClear

LEMMA KeepsItself == ASSUME NEW ws PROVE Keeps(ws, ws)
BY DEF Keeps

\* Requests that arrive or are answered without a read or a write.
LEMMA LoopStep ==
  ASSUME IInv, \/ \E b \in Badges : ClientGone(b) \/ \E req \in Request : Receive(b, req)
               \/ Malformed
  PROVE  IInv'
<1>1. ASSUME NEW b \in Badges, ClientGone(b) PROVE IInv'
  BY <1>1, KeepsItself, DropStep DEF ClientGone, IInv, Types, Idle, EnoughAhead
<1>2. ASSUME NEW b \in Badges, NEW req \in Request, Receive(b, req) PROVE IInv'
  <2>1. op' = Idle \/ op' = [at |-> "asked", badge |-> b, req |-> req, victim |-> NWindows]
    BY <1>2 DEF Receive
  <2>2. op' = Idle \/ \E v : op' \in Busy(v)
    BY <2>1 DEF Busy, Stage
  <2>3. op'.at \notin {"prefetch", "exact", "writing"}
    BY <2>1 DEF Idle
  <2> QED
    BY <1>2, <2>2, <2>3, KeepsItself, DropStep DEF Receive, IInv, Types, EnoughAhead, Ahead
<1>3. ASSUME Malformed PROVE IInv'
  <2>1. windows' = Drop(windows, All) /\ op' = Idle
    BY <1>3 DEF Malformed, Answer
  <2>2. windows' \in [Index -> Window] /\ Keeps(windows, windows')
    BY <2>1, DropKeeps DEF IInv, Types
  <2> QED
    BY <1>3, <2>1, <2>2, DropStep DEF Malformed, IInv, Types, Idle, EnoughAhead, Ahead
<1> QED
  BY <1>1, <1>2, <1>3

\* A hit, a miss that begins, and an exact read.
LEMMA ReadStep ==
  ASSUME IInv, ReadHit \/ ReadMiss \/ ExactRead
  PROVE  IInv'
<1>1. CASE ReadHit
  <2>1. op' = Idle /\ UNCHANGED <<capacity, disk, changed>>
    BY <1>1 DEF ReadHit, Answer
  <2>2. windows' \in [Index -> Window] /\ Keeps(windows, windows')
    BY <1>1, TouchKeeps DEF ReadHit, IInv, Types
  <2> QED
    BY <2>1, <2>2, DropStep DEF IInv, Types, Idle, EnoughAhead
<1>2. CASE ReadMiss
  <2> DEFINE v == Victim(windows)
             at == IF Ahead(op.req.drive, op.req.lba) < op.req.count THEN "exact" ELSE "prefetch"
  <2>1. /\ UNCHANGED <<capacity, disk, changed>>
        /\ windows' = Forget(windows, {v})
        /\ op' = [op EXCEPT !.at = at, !.victim = v]
        /\ op.at = "asked" /\ op.req.kind = "read"
    BY <1>2 DEF ReadMiss, Asked
  <2>2. at \in {"exact", "prefetch"} /\ at \in Stage
    BY DEF Stage
  <2>3. PICK w : op \in Busy(w)
    BY <2>1, BusyOp DEF IInv
  <2> HIDE DEF v, at
  <2>4. op' \in Busy(v) /\ op'.at = at /\ op'.req = op.req
    BY <2>1, <2>2, <2>3 DEF Busy
  <2>5. windows' \in [Index -> Window] /\ Keeps(windows, windows')
    <3>1. windows \in [Index -> Window]
      BY DEF IInv, Types
    <3>2. Forget(windows, {v}) = Forget(windows, {v} \cap Index)
      BY DEF Forget, Filled
    <3> QED
      BY <2>1, <3>1, <3>2, ForgetKeeps
  <2>6. EnoughAhead'
    <3>1. op.req.drive \in Drives /\ op.req.lba \in Nat /\ op.req.count \in Nat
      BY <2>1, BusyOp, CacheAssumption DEF IInv
    <3>2. Ahead(op.req.drive, op.req.lba) \in Nat
      BY <3>1, AheadType DEF IInv
    <3>3. at = "prefetch" => op.req.count <= Ahead(op.req.drive, op.req.lba)
      BY <3>1, <3>2 DEF at
    <3>4. Ahead(op.req.drive, op.req.lba)' = Ahead(op'.req.drive, op'.req.lba)
      BY <2>1, <2>4 DEF Ahead
    <3>5. Ahead(op'.req.drive, op'.req.lba) = Ahead(op.req.drive, op.req.lba)
      BY <2>4
    <3> QED
      BY <2>4, <3>3, <3>4, <3>5 DEF EnoughAhead
  <2> QED
    BY <2>1, <2>2, <2>4, <2>5, <2>6, DropStep DEF IInv, Types
<1>3. CASE ExactRead
  <2>1. op' = Idle /\ UNCHANGED <<capacity, disk, changed>>
    BY <1>3 DEF ExactRead, Answer
  <2>2. windows' = windows \/ windows' = Drop(windows, All)
    BY <1>3 DEF ExactRead
  <2>3. windows' \in [Index -> Window] /\ Keeps(windows, windows')
    BY <2>2, DropKeeps, KeepsItself DEF IInv, Types
  <2> QED
    BY <2>1, <2>3, DropStep DEF IInv, Types, Idle, EnoughAhead
<1> QED
  BY <1>1, <1>2, <1>3

\* IDENTIFY trusts the medium again, and has no window left of it.
LEMMA IdentifyStep ==
  ASSUME IInv, Identify
  PROVE  IInv'
<1> DEFINE d == op.req.drive
<1>1. /\ UNCHANGED disk /\ op' = Idle
      /\ windows' = Drop(windows, d)
      /\ changed' = [c \in Drives |-> c # d /\ changed[c]]
  BY DEF Identify, Answer
<1>2. capacity' \in [Drives -> Nat]
  <2>1. PICK ok : capacity' = [c \in Drives |-> IF c # d THEN capacity[c] ELSE IF ok THEN Len(disk[d]) ELSE 0]
    BY DEF Identify
  <2>2. ASSUME NEW c \in Drives PROVE Len(disk[c]) \in Nat /\ capacity[c] \in Nat
    BY LenProperties DEF IInv, Types
  <2> HIDE DEF d
  <2> QED
    BY <2>1, <2>2
<1> HIDE DEF d
<1>3. /\ windows' \in [Index -> Window] /\ Keeps(windows, windows')
      /\ \A i \in Filled(windows') : windows[i].drive # d
  BY <1>1, DropKeeps DEF IInv, Types
<1>4. ASSUME NEW i \in Filled(windows') PROVE changed[windows[i].drive] => changed'[windows[i].drive]
  <2>1. windows[i].drive \in Drives \ {d}
    BY <1>3 DEF IInv, Types, Keeps
  <2> QED
    BY <1>1, <2>1
<1>5. Coherent' /\ \A i \in Filled(windows') : windows'[i].drive \in Drives
  BY <1>1, <1>3, <1>4, KeepsCoherent
<1>6. changed' \in [Drives -> BOOLEAN]
  BY <1>1 DEF IInv, Types
<1>7. Types'
  BY <1>1, <1>2, <1>3, <1>5, <1>6 DEF IInv, Types, Filled, Idle
<1> QED
  BY <1>1, <1>5, <1>7 DEF IInv, WriteIsClear, Idle, EnoughAhead

\* Another medium: its drive is marked, the others stay as they are.
LEMMA MediaStep ==
  ASSUME IInv, NEW d \in Drives, NEW medium \in Media, MediaChange(d, medium)
  PROVE  IInv'
<1>1. /\ UNCHANGED <<windows, capacity, op>>
      /\ disk' = [disk EXCEPT ![d] = medium]
      /\ changed' = [changed EXCEPT ![d] = TRUE]
  BY DEF MediaChange
<1>2. Types'
  BY <1>1, CacheAssumption DEF IInv, Types, Filled
<1>3. WriteIsClear'
  BY <1>1 DEF IInv, WriteIsClear, Overlapping, Filled
<1>4. ASSUME NEW i \in Filled(windows), ~changed'[windows[i].drive]
      PROVE  OnMedium(disk'[windows[i].drive], windows[i].lba, windows[i].data)
  <2>1. windows[i].drive \in Drives \ {d} /\ ~changed[windows[i].drive]
    BY <1>1, <1>4 DEF IInv, Types
  <2>2. disk'[windows[i].drive] = disk[windows[i].drive]
    BY <1>1, <2>1 DEF IInv, Types
  <2> QED
    BY <2>1, <2>2 DEF IInv, Coherent
<1>5. Coherent'
  BY <1>1, <1>4 DEF Coherent, Filled
<1> QED
  BY <1>1, <1>2, <1>3, <1>5 DEF IInv, EnoughAhead, Ahead

\* A window is filled only with sectors that were read without an error.
LEMMA PrefetchStep ==
  ASSUME IInv, Prefetch
  PROVE  IInv'
<1> DEFINE d == op.req.drive
           lba == op.req.lba
           n == Ahead(d, lba)
           new == [drive |-> d, lba |-> lba, age |-> NWindows, data |-> Sectors(d, lba, n)]
           filled == [windows EXCEPT ![op.victim] = new]
<1>1. op.at = "prefetch" /\ op.req.kind = "read" /\ UNCHANGED <<capacity, disk, changed>>
  BY DEF Prefetch, IInv, Types
<1>2. d \in Drives /\ lba \in Nat /\ n \in Nat
  BY <1>1, BusyOp, AheadType DEF IInv
<1>3. CASE Readable(d, lba, n) /\ windows' = Touch(filled, op.victim) /\ op' = Idle
  <2>1. /\ Sectors(d, lba, n) \in Seq(Contents)
        /\ OnMedium(disk[d], lba, Sectors(d, lba, n))
    BY <1>2, <1>3, ReadSectors DEF IInv
  <2>2. new \in Window /\ new.drive = d /\ new.lba = lba /\ new.data = Sectors(d, lba, n)
    BY <1>2, <2>1, CacheAssumption DEF Window
  <2> HIDE DEF new, d, lba, n
  <2>3. filled \in [Index -> Window]
    BY <2>2 DEF IInv, Types
  <2>4. ASSUME NEW i \in Filled(filled)
        PROVE  /\ filled[i].drive \in Drives
               /\ ~changed[filled[i].drive] => OnMedium(disk[filled[i].drive], filled[i].lba, filled[i].data)
    <3>1. i \in Index /\ (filled[i] = new \/ (filled[i] = windows[i] /\ i \in Filled(windows)))
      BY DEF Filled, IInv, Types
    <3>2. CASE filled[i] = new
      BY <1>2, <2>1, <2>2, <3>2
    <3>3. CASE filled[i] = windows[i] /\ i \in Filled(windows)
      BY <3>3 DEF IInv, Types, Coherent
    <3> QED
      BY <3>1, <3>2, <3>3
  <2> HIDE DEF filled
  <2>5. windows' \in [Index -> Window] /\ Keeps(filled, windows')
    BY <1>3, <2>3, TouchKeeps
  <2>6. ASSUME NEW i \in Filled(windows')
        PROVE  /\ windows'[i].drive \in Drives
               /\ ~changed'[windows'[i].drive] =>
                    OnMedium(disk'[windows'[i].drive], windows'[i].lba, windows'[i].data)
    BY <1>1, <2>4, <2>5 DEF Keeps
  <2>7. Coherent'
    BY <2>6 DEF Coherent, Filled
  <2>8. Types'
    BY <1>1, <1>3, <2>5, <2>6 DEF IInv, Types, Filled, Idle
  <2> QED
    BY <1>3, <2>7, <2>8 DEF IInv, WriteIsClear, Idle, EnoughAhead
<1>4. CASE windows' = Drop(windows, All) /\ op' = [op EXCEPT !.at = "exact"]
  <2>1. windows' \in [Index -> Window] /\ Keeps(windows, windows')
    BY <1>4, DropKeeps DEF IInv, Types
  <2>2. PICK v : op \in Busy(v)
    BY <1>1, BusyOp DEF IInv
  <2>3. op' \in Busy(v) /\ op'.at = "exact" /\ op'.req = op.req
    BY <1>4, <2>2 DEF Busy, Stage
  <2> QED
    BY <1>1, <2>1, <2>3, DropStep DEF IInv, Types, EnoughAhead
<1> QED
  BY <1>3, <1>4 DEF Prefetch, Answer, TryExact

\* After disk_cache_write no window overlaps the request (main.c:96).
LEMMA WriteBeginStep ==
  ASSUME IInv, WriteBegin
  PROVE  IInv'
<1> DEFINE S == Overlapping(windows, op.req.drive, op.req.lba, op.req.count)
<1>1. /\ op.at = "asked" /\ op.req.kind = "write"
      /\ windows' = Forget(windows, S)
      /\ op' = [op EXCEPT !.at = "writing"]
      /\ UNCHANGED <<capacity, disk, changed>>
  BY DEF WriteBegin, Asked
<1>2. PICK v : op \in Busy(v)
  BY <1>1, BusyOp DEF IInv
<1>3. op' \in Busy(v) /\ op'.at = "writing" /\ op'.req = op.req
  BY <1>1, <1>2 DEF Busy, Stage
<1>4. S \in SUBSET Index /\ windows \in [Index -> Window]
  BY DEF Overlapping, Filled, IInv, Types
<1>5. /\ windows' \in [Index -> Window] /\ Keeps(windows, windows')
      /\ Filled(windows') \cap S = {}
  <2> HIDE DEF S
  <2> QED
    BY <1>1, <1>4, ForgetKeeps
<1>6. Coherent' /\ \A i \in Filled(windows') : windows'[i].drive \in Drives
  BY <1>1, <1>5, KeepsCoherent
<1>7. Types'
  BY <1>1, <1>3, <1>5, <1>6 DEF IInv, Types, Filled
<1>8. Overlapping(windows', op.req.drive, op.req.lba, op.req.count) = {}
  <2> SUFFICES ASSUME NEW i \in Overlapping(windows', op.req.drive, op.req.lba, op.req.count) PROVE FALSE
    OBVIOUS
  <2>1. i \in Filled(windows')
    BY DEF Overlapping
  <2>2. /\ i \in Filled(windows) /\ windows'[i].drive = windows[i].drive
        /\ windows'[i].lba = windows[i].lba /\ windows'[i].data = windows[i].data
    BY <1>5, <2>1 DEF Keeps
  <2>3. i \in S
    BY <2>2 DEF Overlapping
  <2> QED
    BY <1>5, <2>1, <2>3
<1>9. WriteIsClear'
  BY <1>3, <1>8 DEF WriteIsClear, Overlapping, Filled
<1> QED
  BY <1>3, <1>6, <1>7, <1>9 DEF IInv, EnoughAhead

\* The medium after a write: as long as before, and changed only where it was written.
LEMMA WrittenMedium ==
  ASSUME Types, NEW d \in Drives, NEW lba \in Nat, NEW count \in Nat, NEW value \in Contents
  PROVE  /\ Written(d, lba, count, value) \in Seq(Contents \cup {Bad})
         /\ Len(Written(d, lba, count, value)) = Len(disk[d])
         /\ \A s \in 1 .. Len(disk[d]) :
              s \notin Extent(lba, count) => Written(d, lba, count, value)[s] = disk[d][s]
<1> DEFINE new == Written(d, lba, count, value)
           n == Len(disk[d])
<1>1. disk[d] \in Seq(Contents \cup {Bad}) /\ n \in Nat
  BY LenProperties DEF Types
<1>2. new = [s \in 1 .. n |-> IF s \in Extent(lba, count) /\ \A r \in lba + 1 .. s : disk[d][r] # Bad
                              THEN value ELSE disk[d][s]]
  BY DEF Written
<1>3. \A s \in 1 .. n : disk[d][s] \in Contents \cup {Bad}
  BY <1>1, ElementOfSeq
<1> HIDE DEF new, n
<1>4. new \in [1 .. n -> Contents \cup {Bad}]
  BY <1>2, <1>3
<1>5. new \in Seq(Contents \cup {Bad})
  BY <1>1, <1>4, SeqDef
<1>6. Len(new) = n
  BY <1>1, <1>4, <1>5, LenProperties
<1>7. \A s \in 1 .. n : s \notin Extent(lba, count) => new[s] = disk[d][s]
  BY <1>2
<1> QED
  BY <1>5, <1>6, <1>7 DEF new, n

\* A write changes no sector that a window holds (main.c:97).
LEMMA WriteEndStep ==
  ASSUME IInv, WriteEnd
  PROVE  IInv'
<1> DEFINE d == op.req.drive
           lba == op.req.lba
           count == op.req.count
           new == Written(d, lba, count, op.req.value)
<1>1. /\ op.at = "writing" /\ op.req.kind = "write" /\ op' = Idle
      /\ UNCHANGED <<capacity, changed>>
      /\ windows' = windows \/ windows' = Drop(windows, All)
  BY DEF WriteEnd, IInv, Types, Answer
<1>2. d \in Drives /\ lba \in Nat /\ count \in Nat /\ op.req.value \in Contents
  BY <1>1, BusyOp, CacheAssumption DEF IInv
<1>3. disk' = disk \/ disk' = [disk EXCEPT ![d] = new]
  BY DEF WriteEnd, IInv, Types
<1>4. /\ new \in Seq(Contents \cup {Bad}) /\ Len(new) = Len(disk[d])
      /\ \A s \in 1 .. Len(disk[d]) : s \notin lba + 1 .. lba + count => new[s] = disk[d][s]
  <2>1. /\ new \in Seq(Contents \cup {Bad}) /\ Len(new) = Len(disk[d])
        /\ \A s \in 1 .. Len(disk[d]) : s \notin Extent(lba, count) => new[s] = disk[d][s]
    BY <1>2, WrittenMedium, ZenonT(60) DEF IInv
  <2> QED
    BY <2>1 DEF Extent
<1>5. Overlapping(windows, d, lba, count) = {}
  BY <1>1 DEF IInv, WriteIsClear
<1>6. windows' \in [Index -> Window] /\ Keeps(windows, windows')
  BY <1>1, DropKeeps, KeepsItself DEF IInv, Types
<1> HIDE DEF new, d, lba, count
<1>7. disk' \in [Drives -> Seq(Contents \cup {Bad})]
  BY <1>3, <1>4 DEF IInv, Types
<1>8. ASSUME NEW i \in Filled(windows), ~changed[windows[i].drive]
      PROVE  OnMedium(disk'[windows[i].drive], windows[i].lba, windows[i].data)
  <2> DEFINE w == windows[i]
  <2>1. /\ w.drive \in Drives /\ w.lba \in Nat /\ Len(w.data) \in Nat
        /\ OnMedium(disk[w.drive], w.lba, w.data)
    <3>1. w \in Window
      BY DEF IInv, Types, Filled
    <3> QED
      BY <1>8, <3>1, LenProperties DEF IInv, Types, Coherent, Window
  <2>2. CASE disk'[w.drive] = disk[w.drive]
    BY <2>1, <2>2
  <2>3. CASE w.drive = d /\ disk'[w.drive] = new
    <3>1. ~ IF lba >= w.lba THEN lba - w.lba < Len(w.data) ELSE w.lba - lba < count
      BY <1>5, <2>3 DEF Overlapping
    <3> HIDE DEF w
    <3>2. ASSUME NEW k \in 1 .. Len(w.data)
          PROVE  w.lba + k <= Len(new) /\ w.data[k] = new[w.lba + k]
      <4>1. w.lba + k <= Len(disk[d]) /\ w.data[k] = disk[d][w.lba + k]
        BY <2>1, <2>3 DEF OnMedium
      <4>2. w.lba + k \in Nat \ {0} /\ w.lba + k \notin lba + 1 .. lba + count
        BY <1>2, <2>1, <3>1
      <4>3. Len(disk[d]) \in Nat
        BY <1>2, LenProperties DEF IInv, Types
      <4>4. w.lba + k \in 1 .. Len(disk[d])
        BY <4>1, <4>2, <4>3
      <4> QED
        BY <1>4, <4>1, <4>2, <4>4
    <3> QED
      BY <2>3, <3>2 DEF OnMedium, w
  <2> QED
    BY <1>2, <1>3, <2>1, <2>2, <2>3 DEF IInv, Types
<1>9. ASSUME NEW i \in Filled(windows')
      PROVE  /\ windows'[i].drive \in Drives
             /\ ~changed'[windows'[i].drive] =>
                  OnMedium(disk'[windows'[i].drive], windows'[i].lba, windows'[i].data)
  <2>1. /\ i \in Filled(windows) /\ windows'[i].drive = windows[i].drive
        /\ windows'[i].lba = windows[i].lba /\ windows'[i].data = windows[i].data
    BY <1>6 DEF Keeps
  <2> QED
    BY <1>1, <1>8, <2>1 DEF IInv, Types
<1>10. Types'
  BY <1>1, <1>6, <1>7, <1>9 DEF IInv, Types, Filled, Idle
<1>11. Coherent'
  BY <1>9 DEF Coherent, Filled
<1> QED
  BY <1>1, <1>10, <1>11 DEF IInv, WriteIsClear, Idle, EnoughAhead

LEMMA NextIInv == IInv /\ [Next]_vars => IInv'
<1> SUFFICES ASSUME IInv, [Next]_vars PROVE IInv'
  OBVIOUS
<1>1. CASE \E d \in Drives, medium \in Media : MediaChange(d, medium)
  BY <1>1, MediaStep
<1>2. CASE \E b \in Badges : ClientGone(b) \/ \E req \in Request : Receive(b, req)
  BY <1>2, LoopStep
<1>3. CASE Malformed
  BY <1>3, LoopStep
<1>4. CASE ReadHit \/ ReadMiss \/ ExactRead
  BY <1>4, ReadStep
<1>5. CASE Identify
  BY <1>5, IdentifyStep
<1>6. CASE Prefetch
  BY <1>6, PrefetchStep
<1>7. CASE WriteBegin
  BY <1>7, WriteBeginStep
<1>8. CASE WriteEnd
  BY <1>8, WriteEndStep
<1>9. CASE UNCHANGED vars
  BY <1>9 DEF vars, IInv, Types, WriteIsClear, Coherent, Filled, Overlapping, EnoughAhead, Ahead
<1> QED
  BY <1>1, <1>2, <1>3, <1>4, <1>5, <1>6, <1>7, <1>8, <1>9 DEF Next

\* No window of the cache is ever stale on a drive whose medium the service knows:
\* writes, failed reads and writes, overlapping windows and requests past the end of
\* the medium included (cache.c:24, main.c:81, 96).
THEOREM CacheIsCoherent == Spec => []Coherent
<1>1. IInv => Coherent
  BY DEF IInv
<1> QED
  BY InitIInv, NextIInv, <1>1, PTL DEF Spec

-----------------------------------------------------------------------------
(* Answers.                                                                  *)

\* A set of numbers that is not empty has a first one.
LEMMA FirstExists ==
  ASSUME NEW S \in SUBSET Nat, S # {}
  PROVE  \E j \in S : \A k \in S : j <= k
<1> DEFINE R == OpToRel(<, Nat)
<1>1. IsWellFoundedOn(R, Nat)
  BY NatLessThanWellFounded
<1>2. \A j, k \in Nat : k < j => <<k, j>> \in R
  BY DEF OpToRel
<1> HIDE DEF R
<1>3. PICK j \in S : \A k \in S : ~(<<k, j>> \in R)
  BY <1>1, WFMin
<1>4. \A k \in S : ~(k < j)
  BY <1>2, <1>3, Zenon
<1> QED
  BY <1>4

\* A part of a sequence.
LEMMA PartOf ==
  ASSUME NEW data \in Seq(Contents), NEW at \in Nat, NEW count \in Nat, at + count <= Len(data)
  PROVE  /\ SubSeq(data, at + 1, at + count) \in Seq(Contents)
         /\ Len(SubSeq(data, at + 1, at + count)) = count
         /\ \A k \in 1 .. count : SubSeq(data, at + 1, at + count)[k] = data[at + k]
<1> DEFINE m == at + 1
           n == at + count
           part == SubSeq(data, m, n)
<1>1. m \in Int /\ n \in Int
  OBVIOUS
<1>2. \A k \in m .. n : data[k] \in Contents
  <2>1. Len(data) \in Nat
    BY LenProperties
  <2> QED
    BY <2>1, ElementOfSeq
<1>3. /\ part \in Seq(Contents)
      /\ Len(part) = (IF m <= n THEN n - m + 1 ELSE 0) /\ \A k \in 1 .. n - m + 1 : part[k] = data[m + k - 1]
  <2> HIDE DEF m, n
  <2> QED
    BY <1>1, <1>2, SubSeqProperties, SMTT(30)
<1>4. n - m + 1 = count /\ \A k \in 1 .. count : m + k - 1 = at + k
  OBVIOUS
<1>5. Len(part) = count
  <2> HIDE DEF part
  <2> QED
    BY <1>3, <1>4
<1>6. \A k \in 1 .. count : part[k] = data[at + k]
  <2> HIDE DEF part
  <2> QED
    BY <1>3, <1>4
<1> QED
  BY <1>3, <1>5, <1>6

\* A hit is answered out of one window, and nothing but its age changes (cache.c:50-54).
LEMMA HitWindow ==
  ASSUME IInv, ReadHit
  PROVE  \E i \in Filled(windows), at \in Nat :
           /\ windows[i].drive = op.req.drive /\ at = op.req.lba - windows[i].lba
           /\ at + op.req.count <= Len(windows[i].data)
           /\ windows' = Touch(windows, i)
           /\ Answer(TRUE, SubSeq(windows[i].data, at + 1, at + op.req.count))
<1> DEFINE d == op.req.drive
           lba == op.req.lba
           count == op.req.count
           S == Holding(windows, d, lba, count)
           i == FirstOf(S)
           w == windows[i]
           at == lba - w.lba
<1>1. /\ op.at = "asked" /\ op.req.kind = "read" /\ S # {}
      /\ windows' = Touch(windows, i) /\ Answer(TRUE, SubSeq(w.data, at + 1, at + count))
  BY DEF ReadHit, Asked, Offset
<1>2. lba \in Nat /\ count \in Nat
  <2>1. lba \in Nat /\ count \in 1 .. MaxSectors
    BY <1>1, BusyOp DEF IInv
  <2> QED
    BY <2>1, CacheAssumption
<1>3. i \in S
  <2>1. \E j \in S : \A k \in S : j <= k
    <3>1. S \subseteq Nat
      BY CacheAssumption DEF Holding, Filled, Index
    <3> HIDE DEF S
    <3> QED
      BY <1>1, <3>1, FirstExists
  <2> HIDE DEF S
  <2> QED
    BY <2>1 DEF FirstOf
<1> HIDE DEF i
<1>4. /\ i \in Filled(windows) /\ w.drive = d /\ lba >= w.lba
      /\ count <= Len(w.data) /\ lba - w.lba <= Len(w.data) - count
  BY <1>3 DEF Holding
<1>5. w.lba \in Nat /\ Len(w.data) \in Nat
  <2>1. w \in Window
    BY <1>4 DEF IInv, Types, Filled
  <2> QED
    BY <2>1, LenProperties DEF Window
<1>6. at \in Nat /\ at + count <= Len(w.data)
  <2> HIDE DEF w, lba, count
  <2> QED
    BY <1>2, <1>4, <1>5
<1> QED
  BY <1>1, <1>4, <1>6

\* ... with the sectors of the medium (cache.c:53).
LEMMA HitAnswer ==
  ASSUME IInv, ReadHit, ~changed[op.req.drive]
  PROVE  Len(reply'.data) = op.req.count /\ OnMedium(disk[op.req.drive], op.req.lba, reply'.data)
<1> DEFINE d == op.req.drive
           lba == op.req.lba
           count == op.req.count
<1>1. PICK i \in Filled(windows), at \in Nat :
        /\ windows[i].drive = d /\ at = lba - windows[i].lba
        /\ at + count <= Len(windows[i].data)
        /\ Answer(TRUE, SubSeq(windows[i].data, at + 1, at + count))
  BY HitWindow
<1> DEFINE w == windows[i]
<1>2. lba \in Nat /\ count \in Nat
  <2>1. op.at = "asked" /\ op.req.kind = "read"
    BY DEF ReadHit, Asked
  <2>2. lba \in Nat /\ count \in 1 .. MaxSectors
    BY <2>1, BusyOp DEF IInv
  <2> QED
    BY <2>2, CacheAssumption
<1>3. w.lba \in Nat /\ w.data \in Seq(Contents) /\ Len(w.data) \in Nat
  <2>1. w \in Window
    BY DEF IInv, Types, Filled
  <2> QED
    BY <2>1, LenProperties DEF Window
<1>4. OnMedium(disk[d], w.lba, w.data)
  BY <1>1 DEF IInv, Coherent
<1>5. reply'.data = SubSeq(w.data, at + 1, at + count)
  BY <1>1 DEF Answer
<1>6. at + count <= Len(w.data) /\ lba = w.lba + at
  BY <1>1, <1>2, <1>3
<1> HIDE DEF w, d, lba, count
<1>7. /\ Len(reply'.data) = count
      /\ \A k \in 1 .. count : reply'.data[k] = w.data[at + k]
  BY <1>2, <1>3, <1>5, <1>6, PartOf
<1>8. ASSUME NEW k \in 1 .. count PROVE lba + k <= Len(disk[d]) /\ reply'.data[k] = disk[d][lba + k]
  <2>1. at + k \in 1 .. Len(w.data)
    BY <1>2, <1>3, <1>6
  <2>2. reply'.data[k] = w.data[at + k]
    BY <1>7
  <2>3. w.lba + (at + k) = lba + k
    BY <1>2, <1>3, <1>6
  <2>4. w.lba + (at + k) <= Len(disk[d]) /\ w.data[at + k] = disk[d][w.lba + (at + k)]
    BY <1>4, <2>1 DEF OnMedium
  <2> QED
    BY <2>2, <2>3, <2>4
<1> QED
  BY <1>7, <1>8 DEF OnMedium, d, lba, count

\* A miss is answered with what was just read (cache.c:65-78).
LEMMA MissAnswer ==
  ASSUME IInv, Prefetch \/ ExactRead, op' = Idle, reply'.ok
  PROVE  Len(reply'.data) = op.req.count /\ OnMedium(disk[op.req.drive], op.req.lba, reply'.data)
<1> DEFINE d == op.req.drive
           lba == op.req.lba
           count == op.req.count
<1>1. op.at \in {"prefetch", "exact"}
  BY DEF Prefetch, ExactRead
<1>2. d \in Drives /\ lba \in Nat /\ count \in Nat
  BY <1>1, BusyOp, CacheAssumption DEF IInv, Types
<1>3. CASE ExactRead
  <2>1. Readable(d, lba, count) /\ reply'.data = Sectors(d, lba, count)
    BY <1>3 DEF ExactRead, Answer
  <2> QED
    BY <1>2, <2>1, ReadSectors DEF IInv
<1>4. CASE Prefetch
  <2> DEFINE n == Ahead(d, lba)
  <2>1. /\ op.at = "prefetch"
        /\ Readable(d, lba, n) /\ reply'.data = Sectors(d, lba, count)
    BY <1>4 DEF Prefetch, Answer, TryExact, Idle
  <2>2. count <= n
    BY <2>1 DEF IInv, EnoughAhead
  <2>3. n \in Nat
    BY <1>2, AheadType DEF IInv
  <2>4. Readable(d, lba, count)
    <3> HIDE DEF n, d, lba, count
    <3>1. Extent(lba, count) \subseteq Extent(lba, n)
      BY <1>2, <2>2, <2>3 DEF Extent
    <3> QED
      BY <2>1, <3>1 DEF Readable
  <2> QED
    BY <1>2, <2>1, <2>4, ReadSectors DEF IInv
<1> QED
  BY <1>3, <1>4

\* A read that succeeds returns the sectors asked for as they are on the drive, for
\* any number of windows, drives and clients and any sequence of requests, errors and
\* media (disk_cache_read, cache.c:43).
THEOREM ReadsAreRight == Spec => ReadsTheDrive
<1>1. ASSUME IInv, [Next]_vars
      PROVE  [op # Idle /\ op' = Idle /\ op.req.kind = "read" /\ reply'.ok /\ ~changed[op.req.drive]
                => /\ Len(reply'.data) = op.req.count
                   /\ OnMedium(disk[op.req.drive], op.req.lba, reply'.data)]_vars
  <2> SUFFICES ASSUME Next, op # Idle, op' = Idle, op.req.kind = "read", reply'.ok, ~changed[op.req.drive]
               PROVE  Len(reply'.data) = op.req.count /\ OnMedium(disk[op.req.drive], op.req.lba, reply'.data)
    BY <1>1
  <2>1. CASE ReadHit
    BY <1>1, <2>1, HitAnswer
  <2>2. CASE Prefetch \/ ExactRead
    BY <1>1, <2>2, MissAnswer
  <2>3. CASE Identify \/ Malformed \/ ReadMiss \/ WriteBegin \/ WriteEnd
    <3>1. ~Identify /\ ~Malformed /\ ~WriteBegin
      BY DEF Identify, Malformed, WriteBegin, Asked
    <3>2. ~WriteEnd
      BY <1>1 DEF WriteEnd, IInv, Types
    <3>3. ASSUME ReadMiss PROVE FALSE
      <4>1. op.at = "asked"
        BY <3>3 DEF ReadMiss, Asked
      <4>2. PICK v : op \in Busy(v)
        BY <1>1, <4>1, BusyOp DEF IInv
      <4>3. op'.at \in {"exact", "prefetch"}
        BY <3>3, <4>2 DEF ReadMiss, Busy
      <4> QED
        BY <4>3 DEF Idle
    <3> QED
      BY <2>3, <3>1, <3>2, <3>3
  <2>4. CASE \E b \in Badges : ClientGone(b) \/ \E req \in Request : Receive(b, req)
    BY <2>4 DEF ClientGone, Receive
  <2>5. CASE \E d \in Drives, medium \in Media : MediaChange(d, medium)
    BY <2>5 DEF MediaChange
  <2> QED
    BY <2>1, <2>2, <2>3, <2>4, <2>5 DEF Next
<1> QED
  BY InitIInv, NextIInv, <1>1, PTL DEF Spec, ReadsTheDrive

-----------------------------------------------------------------------------
(* The ranks of the windows.                                                 *)

\* The windows that are younger than window i.
Younger(ws, i) == {j \in Filled(ws) : ws[j].age < ws[i].age}

\* The age of a window in use is the number of windows that are younger, and no two ages are equal.
Ranked(ws) ==
  /\ \A i \in Filled(ws) : ws[i].age = Cardinality(Younger(ws, i))
  /\ \A i, j \in Filled(ws) : ws[i].age = ws[j].age => i = j
  /\ \A i \in Index \ Filled(ws) : ws[i].age = 0

LEMMA FilledAreFinite ==
  ASSUME NEW ws, NEW S \in SUBSET Filled(ws)
  PROVE  /\ IsFiniteSet(S) /\ Cardinality(S) \in Nat
         /\ Cardinality(S) <= Cardinality(Filled(ws)) /\ Cardinality(Filled(ws)) \in 0 .. NWindows
         /\ Cardinality(S) = Cardinality(Filled(ws)) => S = Filled(ws)
<1>1. IsFiniteSet(Index) /\ Cardinality(Index) = NWindows
  BY FS_Interval, CacheAssumption DEF Index
<1>2. Filled(ws) \in SUBSET Index
  BY DEF Filled
<1>3. IsFiniteSet(Filled(ws)) /\ Cardinality(Filled(ws)) <= NWindows
  BY <1>1, <1>2, FS_Subset
<1>4. Cardinality(Filled(ws)) \in Nat
  BY <1>3, FS_CardinalityType
<1>5. /\ IsFiniteSet(S) /\ Cardinality(S) <= Cardinality(Filled(ws))
      /\ Cardinality(S) = Cardinality(Filled(ws)) => S = Filled(ws)
  BY <1>3, FS_Subset
<1>6. Cardinality(S) \in Nat
  BY <1>5, FS_CardinalityType
<1> QED
  BY <1>3, <1>4, <1>5, <1>6, CacheAssumption

\* A part of the windows that leaves one out has fewer windows.
LEMMA FewerWindows ==
  ASSUME NEW ws, NEW S \in SUBSET Filled(ws), NEW T \in SUBSET S, NEW j \in S, j \notin T
  PROVE  Cardinality(T) < Cardinality(S)
<1>1. IsFiniteSet(S) /\ Cardinality(S) \in Nat /\ Cardinality(T) \in Nat
  BY FilledAreFinite
<1>2. Cardinality(T) <= Cardinality(S) /\ (Cardinality(S) = Cardinality(T) => S = T)
  BY <1>1, FS_Subset
<1> QED
  BY <1>1, <1>2

\* With equal numbers of windows excluded, ranked windows have the ages 0, 1, ... (cache.c:9, 35).
LEMMA RanksAreAges ==
  ASSUME Ranked(windows)
  PROVE  AgesAreRanks /\ \A i \in Index : windows[i].age \in 0 .. NWindows
<1> DEFINE F == Filled(windows)
           n == Cardinality(F)
           A == {windows[i].age : i \in F}
           f == [i \in F |-> windows[i].age]
<1>1. IsFiniteSet(F) /\ n \in 0 .. NWindows /\ NWindows \in Nat
  BY FilledAreFinite, CacheAssumption
<1>2. ASSUME NEW i \in F PROVE windows[i].age \in Nat /\ windows[i].age < n
  <2>1. windows[i].age = Cardinality(Younger(windows, i))
    BY DEF Ranked
  <2>2. Younger(windows, i) \in SUBSET F
    BY DEF Younger
  <2>3. Cardinality(Younger(windows, i)) \in Nat
    BY <2>2, FilledAreFinite
  <2>4. i \notin Younger(windows, i)
    BY <2>1, <2>3 DEF Younger
  <2> HIDE DEF F
  <2>5. Cardinality(Younger(windows, i)) < n
    <3>1. F = Filled(windows)
      BY DEF F
    <3> QED
      BY <2>2, <2>4, <3>1, FewerWindows
  <2> QED
    BY <2>1, <2>3, <2>5
<1>3. \A i, j \in F : windows[i].age = windows[j].age => i = j
  BY DEF Ranked
<1>4. \A i \in Index \ F : windows[i].age = 0
  BY DEF Ranked
<1>5. F \subseteq Index
  BY DEF Filled
<1> HIDE DEF F
<1>6. f \in Bijection(F, A)
  <2>1. f \in [F -> A] /\ \A a \in A : \E i \in F : f[i] = a
    OBVIOUS
  <2>2. \A i, j \in F : f[i] = f[j] => i = j
    BY <1>3
  <2> HIDE DEF f, A
  <2> QED
    BY <2>1, <2>2 DEF Bijection, Injection, Surjection, IsInjective
<1>7. ExistsBijection(F, A)
  BY <1>6 DEF ExistsBijection
<1>8. IsFiniteSet(A) /\ Cardinality(A) = n
  BY <1>1, <1>7, FS_Bijection
<1>9. A \subseteq 0 .. n - 1
  <2> HIDE DEF n
  <2>1. n \in Nat
    BY <1>1
  <2> QED
    BY <1>2, <2>1
<1> HIDE DEF A, n
<1>10. IsFiniteSet(0 .. n - 1) /\ Cardinality(0 .. n - 1) = n
  BY <1>1, FS_Interval
<1>11. A = 0 .. n - 1
  BY <1>8, <1>9, <1>10, FS_Subset
<1>12. 0 .. n - 1 = {k \in 0 .. NWindows : k < n}
  BY <1>1
<1>13. AgesAreRanks
  BY <1>11, <1>12 DEF AgesAreRanks, A, F, n
<1>14. ASSUME NEW i \in Index PROVE windows[i].age \in 0 .. NWindows
  BY <1>1, <1>2, <1>4
<1> QED
  BY <1>13, <1>14

\* forget: every window left loses as many ranks as younger ones have gone (cache.c:9).
LEMMA ForgetRanks ==
  ASSUME NEW ws \in [Index -> Window], Ranked(ws), NEW S \in SUBSET Index
  PROVE  Ranked(Forget(ws, S))
<1> DEFINE F == Filled(ws)
           R == F \ S
           new == Forget(ws, S)
           Lost(i) == {j \in S \cap F : ws[j].age < ws[i].age}
           Left(i) == Younger(ws, i) \ S
<1>1. F \subseteq Index /\ R \subseteq F /\ R \subseteq Index
  BY DEF Filled
<1>2. ASSUME NEW i \in Index \ S
      PROVE  new[i].age = ws[i].age - Cardinality(Lost(i)) /\ new[i].data = ws[i].data
  <2>1. ws[i] \in Window
    OBVIOUS
  <2>2. new[i] = [ws[i] EXCEPT !.age = ws[i].age - Cardinality(Lost(i))]
    BY DEF Forget
  <2> HIDE DEF Lost, new
  <2> QED
    BY <2>1, <2>2 DEF Window
<1>3. \A i \in S : new[i] = Empty
  BY DEF Forget
<1>4. Filled(new) = R
  <2>1. \A i \in Index : new[i].data # <<>> <=> i \notin S /\ ws[i].data # <<>>
    BY <1>2, <1>3, EmptyType
  <2> HIDE DEF new
  <2> QED
    BY <2>1 DEF Filled
<1>5. \A i \in F : Younger(ws, i) \subseteq F /\ ws[i].age \in Int
  BY <1>1 DEF Younger, Window
<1>6. ASSUME NEW i \in R PROVE new[i].age = Cardinality(Left(i)) /\ Cardinality(Left(i)) \in Nat
  <2>1. IsFiniteSet(Younger(ws, i)) /\ Cardinality(Younger(ws, i)) \in Nat
    BY <1>5, FilledAreFinite
  <2>2. Cardinality(Left(i)) = Cardinality(Younger(ws, i)) - Cardinality(Younger(ws, i) \cap S)
    BY <2>1, FS_Difference
  <2>3. Younger(ws, i) \cap S = Lost(i)
    BY DEF Younger
  <2>4. ws[i].age = Cardinality(Younger(ws, i))
    BY DEF Ranked
  <2>5. Cardinality(Left(i)) \in Nat
    BY <1>5, FilledAreFinite
  <2>6. new[i].age = ws[i].age - Cardinality(Lost(i))
    BY <1>1, <1>2
  <2> HIDE DEF Left, Lost, new
  <2> QED
    BY <2>2, <2>3, <2>4, <2>5, <2>6
<1>7. \A i \in R : new[i].age \in Int
  <2> HIDE DEF new, Left, R
  <2> QED
    BY <1>6
<1>8. ASSUME NEW i \in R, NEW j \in R, ws[i].age < ws[j].age PROVE new[i].age < new[j].age
  <2>1. Left(i) \in SUBSET Left(j) /\ i \in Left(j) /\ i \notin Left(i) /\ Left(j) \in SUBSET F
    <3>1. ws[i].age \in Int /\ ws[j].age \in Int
      BY <1>5
    <3>2. \A k \in F : ws[k].age < ws[i].age => ws[k].age < ws[j].age
      BY <1>5, <1>8, <3>1
    <3>3. ~(ws[i].age < ws[i].age)
      BY <3>1
    <3> QED
      BY <1>8, <3>2, <3>3 DEF Younger
  <2>2. Cardinality(Left(i)) < Cardinality(Left(j))
    <3> HIDE DEF Left
    <3> QED
      BY <2>1, FewerWindows
  <2> QED
    BY <1>6, <2>2
<1>9. ASSUME NEW i \in R, NEW j \in R, i # j PROVE new[i].age < new[j].age <=> ws[i].age < ws[j].age
  <2>1. ws[i].age # ws[j].age /\ ws[i].age \in Int /\ ws[j].age \in Int
    BY <1>5, <1>9 DEF Ranked
  <2>2. new[i].age \in Int /\ new[j].age \in Int
    BY <1>7
  <2> HIDE DEF new
  <2> QED
    BY <1>8, <2>1, <2>2
<1>10. ASSUME NEW i \in R, NEW j \in R, new[i].age = new[j].age PROVE i = j
  <2>1. new[i].age \in Int /\ ws[i].age \in Int /\ ws[j].age \in Int
    BY <1>5, <1>7
  <2>2. ~(ws[i].age < ws[j].age) /\ ~(ws[j].age < ws[i].age)
    <3> HIDE DEF new
    <3> QED
      BY <1>8, <1>10, <2>1
  <2>3. ws[i].age = ws[j].age
    BY <2>1, <2>2
  <2> QED
    BY <2>3 DEF Ranked
<1>11. ASSUME NEW i \in R PROVE Younger(new, i) = Left(i)
  <2>1. new[i].age \in Int /\ ws[i].age \in Int
    BY <1>5, <1>7
  <2>2. \A j \in R : new[j].age < new[i].age <=> ws[j].age < ws[i].age
    <3> HIDE DEF new
    <3> QED
      BY <1>9, <2>1
  <2> HIDE DEF new
  <2> QED
    BY <1>4, <2>2 DEF Younger
<1>12. ASSUME NEW i \in Index \ R PROVE new[i].age = 0
  <2>1. CASE i \in S
    BY <1>3, <2>1 DEF Empty
  <2>2. CASE i \notin S
    <3>1. ws[i].age = 0
      BY <2>2 DEF Ranked
    <3>2. \A j \in F : ws[j].age \in Nat
      <4>1. \A j \in F : ws[j].age = Cardinality(Younger(ws, j))
        BY DEF Ranked
      <4> QED
        BY <1>5, <4>1, FilledAreFinite
    <3>3. Lost(i) = {}
      BY <3>1, <3>2
    <3>4. Cardinality({}) = 0
      BY FS_EmptySet
    <3>5. new[i].age = ws[i].age - Cardinality(Lost(i))
      BY <1>2, <2>2
    <3> HIDE DEF Lost, new
    <3> QED
      BY <3>1, <3>3, <3>4, <3>5
  <2> QED
    BY <2>1, <2>2
<1> HIDE DEF new, R, Left
<1> QED
  BY <1>4, <1>6, <1>10, <1>11, <1>12 DEF Ranked, new

\* touch: the window becomes the youngest, and those that were younger move up one rank; its own age may
\* have been above all others (cache.c:35).
LEMMA TouchRanks ==
  ASSUME NEW ws \in [Index -> Window], NEW i \in Filled(ws),
         \A j \in Filled(ws) \ {i} : ws[j].age = Cardinality(Younger(ws, j)),
         \A j, k \in Filled(ws) : ws[j].age = ws[k].age => j = k,
         \A j \in Index \ Filled(ws) : ws[j].age = 0
  PROVE  Ranked(Touch(ws, i))
<1> DEFINE F == Filled(ws)
           R == F \ {i}
           new == Touch(ws, i)
<1>1. F \subseteq Index /\ R \subseteq F
  BY DEF Filled
<1>2. ASSUME NEW j \in Index, NEW age \in Int
      PROVE  [ws[j] EXCEPT !.age = age].age = age /\ [ws[j] EXCEPT !.age = age].data = ws[j].data
  <2>1. ws[j] \in Window
    OBVIOUS
  <2> QED
    BY <2>1 DEF Window
<1>3. \A j \in F : ws[j].age \in Int
  BY <1>1 DEF Window
<1>4. new[i].age = 0 /\ new[i].data = ws[i].data
  <2>1. new[i] = [ws[i] EXCEPT !.age = 0]
    BY <1>1 DEF Touch
  <2> HIDE DEF new
  <2> QED
    BY <1>1, <1>2, <2>1
<1>5. ASSUME NEW j \in R
      PROVE  /\ new[j].age = IF ws[j].age < ws[i].age THEN ws[j].age + 1 ELSE ws[j].age
             /\ new[j].data = ws[j].data
  <2>1. new[j] = IF ws[j].age < ws[i].age THEN [ws[j] EXCEPT !.age = ws[j].age + 1] ELSE ws[j]
    BY <1>1 DEF Touch
  <2>2. ws[j].age + 1 \in Int /\ j \in Index
    BY <1>1, <1>3
  <2> HIDE DEF new
  <2> QED
    BY <1>2, <2>1, <2>2
<1>6. \A j \in Index \ F : new[j] = ws[j]
  BY DEF Touch
<1>7. Filled(new) = F
  <2>1. \A j \in Index : new[j].data = ws[j].data
    BY <1>4, <1>5, <1>6
  <2> HIDE DEF new
  <2> QED
    BY <2>1 DEF Filled
<1>8. ASSUME NEW j \in R PROVE ws[j].age = Cardinality(Younger(ws, j)) /\ ws[j].age \in Nat
  <2>1. Younger(ws, j) \in SUBSET F
    BY DEF Younger
  <2>2. Cardinality(Younger(ws, j)) \in Nat
    BY <2>1, FilledAreFinite
  <2> QED
    BY <2>2
<1>9. \A j \in R : ws[j].age # ws[i].age /\ ws[j].age \in Nat /\ ws[i].age \in Int
  BY <1>3, <1>8
<1>10. ASSUME NEW j \in R PROVE new[j].age \in Nat /\ new[j].age > 0
  <2>1. CASE ws[j].age < ws[i].age
    <3> HIDE DEF new
    <3> QED
      BY <1>5, <1>9, <2>1
  <2>2. CASE ~(ws[j].age < ws[i].age)
    <3>1. i \in Younger(ws, j) /\ Younger(ws, j) \in SUBSET F
      BY <1>9, <2>2 DEF Younger
    <3>2. Cardinality({}) < Cardinality(Younger(ws, j))
      BY <3>1, FewerWindows
    <3>3. ws[j].age > 0
      BY <1>8, <3>2, FS_EmptySet
    <3> HIDE DEF new
    <3> QED
      BY <1>5, <1>9, <2>2, <3>3
  <2> QED
    BY <2>1, <2>2
<1> HIDE DEF new
<1>11. ASSUME NEW j \in R, NEW k \in R
       PROVE  new[k].age < new[j].age <=> ws[k].age < ws[j].age
  <2>1. CASE j = k
    BY <1>9, <1>10, <2>1
  <2>2. CASE j # k
    <3>1. ws[j].age # ws[k].age
      BY <2>2
    <3> QED
      BY <1>5, <1>9, <3>1
  <2> QED
    BY <2>1, <2>2
<1>12. Younger(new, i) = {}
  <2>1. \A k \in F : ~(new[k].age < new[i].age)
    BY <1>4, <1>10
  <2> QED
    BY <1>7, <2>1 DEF Younger
<1>13. ASSUME NEW j \in R PROVE Younger(new, j) = Younger(ws, j) \cup {i}
  <2>1. i \in Younger(new, j)
    BY <1>4, <1>7, <1>10 DEF Younger
  <2>2. \A k \in R : k \in Younger(new, j) <=> k \in Younger(ws, j)
    BY <1>7, <1>11 DEF Younger
  <2>3. Younger(new, j) \subseteq F /\ Younger(ws, j) \subseteq F
    BY <1>7 DEF Younger
  <2> QED
    BY <2>1, <2>2, <2>3
<1>14. ASSUME NEW j \in R PROVE new[j].age = Cardinality(Younger(new, j))
  <2>1. Younger(ws, j) \in SUBSET F
    BY DEF Younger
  <2>2. IsFiniteSet(Younger(ws, j)) /\ Cardinality(Younger(ws, j)) \in Nat
    BY <2>1, FilledAreFinite
  <2>3. Cardinality(Younger(new, j)) = IF i \in Younger(ws, j) THEN ws[j].age ELSE ws[j].age + 1
    BY <1>8, <1>13, <2>2, FS_AddElement
  <2>4. i \in Younger(ws, j) <=> ws[i].age < ws[j].age
    BY DEF Younger
  <2> QED
    BY <1>5, <1>9, <2>3, <2>4
<1>15. ASSUME NEW j \in F, NEW k \in F, new[j].age = new[k].age PROVE j = k
  <2>1. CASE j = i \/ k = i
    BY <1>4, <1>10, <1>15, <2>1
  <2>2. CASE j \in R /\ k \in R
    <3>1. ~(ws[j].age < ws[k].age) /\ ~(ws[k].age < ws[j].age)
      <4>1. new[j].age \in Nat /\ new[k].age \in Nat
        BY <1>10, <2>2
      <4>2. ~(new[j].age < new[k].age) /\ ~(new[k].age < new[j].age)
        BY <1>15, <4>1
      <4> QED
        BY <1>11, <2>2, <4>2
    <3>2. ws[j].age = ws[k].age
      BY <1>9, <2>2, <3>1
    <3> QED
      BY <3>2
  <2> QED
    BY <2>1, <2>2
<1>16. new[i].age = Cardinality(Younger(new, i))
  BY <1>4, <1>12, FS_EmptySet
<1>17. \A j \in F : new[j].age = Cardinality(Younger(new, j))
  BY <1>14, <1>16
<1>18. \A j \in Index \ F : new[j].age = 0
  BY <1>6
<1> QED
  BY <1>7, <1>15, <1>17, <1>18 DEF Ranked, new

\* The table of windows: ranked, and no window above its size.
Table(ws) ==
  /\ ws \in [Index -> Window] /\ Ranked(ws)
  /\ \A i \in Filled(ws) : Len(ws[i].data) <= CacheSectors

LEMMA ForgetTable ==
  ASSUME NEW ws, Table(ws), NEW S \in SUBSET Index
  PROVE  Table(Forget(ws, S)) /\ Filled(Forget(ws, S)) \subseteq Filled(ws) \ S
<1> DEFINE new == Forget(ws, S)
<1>1. new \in [Index -> Window] /\ Keeps(ws, new) /\ Filled(new) \cap S = {}
  BY ForgetKeeps DEF Table
<1>2. Ranked(new)
  BY ForgetRanks DEF Table
<1> HIDE DEF new
<1>3. Table(new) /\ Filled(new) \subseteq Filled(ws) \ S
  BY <1>1, <1>2 DEF Table, Keeps
<1> QED
  BY <1>3 DEF new

LEMMA DropTable ==
  ASSUME NEW ws, Table(ws), NEW d
  PROVE  Table(Drop(ws, d))
<1>1. {i \in Index : d = All \/ ws[i].drive = d} \in SUBSET Index
  OBVIOUS
<1> QED
  BY <1>1, ForgetTable DEF Drop

LEMMA TouchTable ==
  ASSUME NEW ws, Table(ws), NEW i \in Filled(ws)
  PROVE  Table(Touch(ws, i))
<1> DEFINE new == Touch(ws, i)
<1>1. new \in [Index -> Window] /\ Keeps(ws, new)
  BY TouchKeeps DEF Table
<1>2. Ranked(new)
  BY TouchRanks DEF Table, Ranked
<1> HIDE DEF new
<1>3. Table(new)
  BY <1>1, <1>2 DEF Table, Keeps
<1> QED
  BY <1>3 DEF new

\* The ages of a table are numbers below the number of windows in use.
LEMMA AgesAreSmall ==
  ASSUME NEW ws, Table(ws), NEW i \in Index
  PROVE  ws[i].age \in 0 .. NWindows /\ (i \in Filled(ws) => ws[i].age < NWindows)
<1>1. NWindows \in Nat \ {0}
  BY CacheAssumption
<1>2. CASE i \notin Filled(ws)
  BY <1>1, <1>2 DEF Table, Ranked
<1>3. CASE i \in Filled(ws)
  <2>1. ws[i].age = Cardinality(Younger(ws, i))
    BY <1>3 DEF Table, Ranked
  <2>2. Younger(ws, i) \in SUBSET Filled(ws) /\ Filled(ws) \in SUBSET Filled(ws)
    BY DEF Younger
  <2>3. Cardinality(Younger(ws, i)) \in Nat /\ Cardinality(Filled(ws)) \in 0 .. NWindows
    BY <2>2, FilledAreFinite
  <2>4. i \notin Younger(ws, i)
    BY <2>1, <2>3 DEF Younger
  <2>5. Cardinality(Younger(ws, i)) < Cardinality(Filled(ws))
    BY <1>3, <2>2, <2>4, FewerWindows
  <2> QED
    BY <1>1, <1>3, <2>1, <2>3, <2>5
<1> QED
  BY <1>2, <1>3

\* The oldest window, or the last empty one, exists (cache.c:56-62).
LEMMA VictimExists ==
  ASSUME NEW ws, Table(ws)
  PROVE  Victim(ws) \in Index
<1>1. NWindows \in Nat \ {0} /\ Index = 1 .. NWindows
  BY CacheAssumption DEF Index
<1>2. CASE Filled(ws) = Index
  <2> DEFINE S == {NWindows - ws[i].age : i \in Index}
  <2>1. \A i \in Index : ws[i].age \in 0 .. NWindows
    BY AgesAreSmall
  <2>2. S \in SUBSET Nat /\ S # {}
    BY <1>1, <2>1
  <2>3. \E n \in S : \A k \in S : n <= k
    <3> HIDE DEF S
    <3> QED
      BY <2>2, FirstExists
  <2>4. PICK i \in Index : \A k \in S : NWindows - ws[i].age <= k
    BY <2>3
  <2>5. \A j \in Index : NWindows - ws[i].age <= NWindows - ws[j].age
    BY <2>4
  <2>6. \A j \in Index : ws[j].age <= ws[i].age
    BY <1>1, <2>1, <2>5
  <2> QED
    BY <1>2, <2>6 DEF Victim
<1>3. CASE Filled(ws) # Index
  <2> DEFINE E == Index \ Filled(ws)
             S == {NWindows - i : i \in E}
  <2>1. E \subseteq 1 .. NWindows /\ E # {}
    BY <1>1, <1>3 DEF Filled
  <2>2. S \in SUBSET Nat /\ S # {}
    <3> HIDE DEF E
    <3> QED
      BY <1>1, <2>1
  <2>3. \E n \in S : \A k \in S : n <= k
    <3> HIDE DEF S
    <3> QED
      BY <2>2, FirstExists
  <2> HIDE DEF E
  <2>4. PICK i \in E : \A k \in S : NWindows - i <= k
    BY <2>3
  <2>5. \A j \in E : NWindows - i <= NWindows - j
    BY <2>4
  <2>6. \A j \in E : j <= i
    BY <1>1, <2>1, <2>5
  <2>7. \E k \in E : \A j \in E : j <= k
    BY <2>6
  <2>8. Victim(ws) = CHOOSE k \in E : \A j \in E : j <= k
    BY <1>3 DEF Victim, E
  <2>9. Victim(ws) \in E
    BY <2>7, <2>8
  <2> QED
    BY <1>1, <2>1, <2>9
<1> QED
  BY <1>2, <1>3

-----------------------------------------------------------------------------
(* The table, the client and the answers.                                    *)

\* The window a miss reads into is free until it is filled (cache.c:63).
VictimIsFree ==
  op # Idle => op.victim \in Index /\ (op.at = "prefetch" => op.victim \notin Filled(windows))

\* Whoever is served is the client, or the client is gone and nobody is served again (main.c:62-73).
OneClient ==
  /\ client \in Badges \cup {Nobody, Gone}
  /\ served = {} \/ \E b \in Badges : served = {b} /\ client \in {b, Gone}
  /\ op # Idle => client = op.badge

Replied == reply.ok \in BOOLEAN /\ reply.data \in Seq(Contents)

TableInv == IInv /\ Table(windows) /\ VictimIsFree /\ OneClient /\ Replied

LEMMA TableNext == ASSUME Table(windows') PROVE Table(windows)'
BY DEF Table, Ranked, Younger, Filled

LEMMA NotIdle ==
  ASSUME Types, op # Idle
  PROVE  op.at # "idle" /\ op.badge \in Badges
<1>1. PICK v : op \in Busy(v)
  BY DEF Types
<1> QED
  BY <1>1 DEF Busy, Stage

\* The request is answered.
LEMMA Answered ==
  ASSUME TableInv, IInv', op # Idle, NEW ok \in BOOLEAN, NEW data \in Seq(Contents), Answer(ok, data),
         Table(windows'), client' = client
  PROVE  TableInv'
<1>1. op' = Idle /\ reply' = [ok |-> ok, data |-> data] /\ served' \in {served, served \cup {op.badge}}
  BY DEF Answer
<1>2. VictimIsFree' /\ Replied'
  BY <1>1 DEF VictimIsFree, Replied
<1>3. op.badge \in Badges /\ client = op.badge
  BY NotIdle DEF TableInv, IInv, OneClient
<1>4. client # Gone
  BY <1>3, CacheAssumption
<1>5. served \in {{}, {client}}
  BY <1>4 DEF TableInv, OneClient
<1>6. served' \in {{}, {client}}
  BY <1>1, <1>3, <1>5
<1>7. OneClient'
  BY <1>1, <1>3, <1>6 DEF OneClient
<1> QED
  BY <1>2, <1>7, TableNext DEF TableInv

\* The request goes on.
LEMMA GoesOn ==
  ASSUME TableInv, IInv', op # Idle, op'.badge = op.badge, op'.victim \in Index,
         op'.at = "prefetch" => op'.victim \notin Filled(windows'),
         Table(windows'), UNCHANGED <<client, reply, served>>
  PROVE  TableInv'
<1>1. VictimIsFree'
  BY DEF VictimIsFree, Filled
<1>2. OneClient'
  BY DEF TableInv, OneClient
<1>3. Replied'
  BY DEF TableInv, Replied
<1> QED
  BY <1>1, <1>2, <1>3, TableNext DEF TableInv

LEMMA InitTable == Init => TableInv
<1> SUFFICES ASSUME Init PROVE TableInv
  OBVIOUS
<1>1. IInv
  BY InitIInv
<1>2. windows \in [Index -> Window] /\ Filled(windows) = {} /\ \A i \in Index : windows[i].age = 0
  BY EmptyType DEF Init, Filled, Empty
<1>3. Table(windows)
  BY <1>2 DEF Table, Ranked
<1>4. VictimIsFree /\ OneClient
  BY DEF Init, VictimIsFree, OneClient
<1>5. reply.ok \in BOOLEAN /\ reply.data \in Seq(Contents)
  <2>1. reply = [ok |-> FALSE, data |-> <<>>]
    BY DEF Init, NoReply
  <2>2. <<>> \in Seq(Contents)
    OBVIOUS
  <2> QED
    BY <2>1, <2>2
<1>6. Replied
  BY <1>5 DEF Replied
<1> QED
  BY <1>1, <1>3, <1>4, <1>6 DEF TableInv

\* What changes no window and answers nobody (main.c:62-73).
LEMMA QuietTable ==
  ASSUME TableInv, IInv',
         \/ \E d \in Drives, medium \in Media : MediaChange(d, medium)
         \/ \E b \in Badges : ClientGone(b) \/ \E req \in Request : Receive(b, req)
         \/ UNCHANGED vars
  PROVE  TableInv'
<1>1. Table(windows')
  BY DEF MediaChange, ClientGone, Receive, vars, TableInv
<1>2. CASE UNCHANGED <<windows, client, op, reply, served>>
  BY <1>1, <1>2, TableNext DEF TableInv, VictimIsFree, OneClient, Replied, Filled
<1>3. ASSUME NEW b \in Badges, ClientGone(b) PROVE TableInv'
  <2>1. VictimIsFree' /\ OneClient'
    BY <1>3 DEF ClientGone, AfterTheClient, VictimIsFree, OneClient, TableInv
  <2>2. Replied'
    BY <1>3 DEF ClientGone, Replied, TableInv
  <2> QED
    BY <1>1, <2>1, <2>2, TableNext DEF TableInv
<1>4. ASSUME NEW b \in Badges, NEW req \in Request, Receive(b, req) PROVE TableInv'
  <2>1. /\ op = Idle /\ client' = IF client = Nobody THEN b ELSE client
        /\ reply' = NoReply /\ UNCHANGED <<windows, served>>
        /\ IF client' = b THEN op' = [at |-> "asked", badge |-> b, req |-> req, victim |-> NWindows] ELSE op' = op
    BY <1>4 DEF Receive
  <2>2. VictimIsFree'
    <3>1. NWindows \in Index
      BY CacheAssumption DEF Index
    <3>2. op' = Idle \/ (op'.victim = NWindows /\ op'.at = "asked")
      BY <2>1
    <3> QED
      BY <3>1, <3>2 DEF VictimIsFree
  <2>3. OneClient'
    <3>1. op' = Idle \/ (op'.badge = b /\ client' = b)
      BY <2>1
    <3>2. Nobody # Gone /\ Nobody \notin Badges /\ Gone \notin Badges
      BY CacheAssumption
    <3>3. /\ client \in Badges \cup {Nobody, Gone}
          /\ served = {} \/ \E c \in Badges : served = {c} /\ client \in {c, Gone}
      BY DEF TableInv, OneClient
    <3>4. served' = {} \/ \E c \in Badges : served' = {c} /\ client' \in {c, Gone}
      BY <2>1, <3>2, <3>3
    <3> QED
      BY <2>1, <3>1, <3>3, <3>4 DEF OneClient
  <2>4. reply'.ok \in BOOLEAN /\ reply'.data \in Seq(Contents)
    <3>1. reply' = [ok |-> FALSE, data |-> <<>>]
      BY <2>1 DEF NoReply
    <3>2. <<>> \in Seq(Contents)
      OBVIOUS
    <3> QED
      BY <3>1, <3>2
  <2>5. Replied'
    BY <2>4 DEF Replied
  <2> QED
    BY <1>1, <2>2, <2>3, <2>5, TableNext DEF TableInv
<1>5. CASE \E d \in Drives, medium \in Media : MediaChange(d, medium)
  BY <1>2, <1>5 DEF MediaChange
<1>6. CASE UNCHANGED vars
  BY <1>2, <1>6 DEF vars
<1> QED
  BY <1>3, <1>4, <1>5, <1>6

\* A hit makes its window the youngest (cache.c:52).
LEMMA HitTable ==
  ASSUME TableInv, IInv', ReadHit
  PROVE  TableInv'
<1>1. IInv /\ Types /\ Table(windows)
  BY DEF TableInv, IInv
<1>2. PICK i \in Filled(windows), at \in Nat :
        /\ at + op.req.count <= Len(windows[i].data) /\ windows' = Touch(windows, i)
        /\ Answer(TRUE, SubSeq(windows[i].data, at + 1, at + op.req.count))
  BY <1>1, HitWindow
<1>3. op # Idle /\ op.at = "asked" /\ op.req.kind = "read" /\ client' = client
  BY DEF ReadHit, Asked, Idle
<1>4. op.req.count \in Nat
  <2>1. op.req.count \in 1 .. MaxSectors
    BY <1>1, <1>3, BusyOp
  <2> QED
    BY <2>1, CacheAssumption
<1>5. windows[i].data \in Seq(Contents)
  <2>1. windows[i] \in Window
    BY <1>1 DEF Types, Filled
  <2> QED
    BY <2>1 DEF Window
<1>6. SubSeq(windows[i].data, at + 1, at + op.req.count) \in Seq(Contents)
  BY <1>2, <1>4, <1>5, PartOf
<1>7. Table(windows')
  BY <1>1, <1>2, TouchTable
<1> QED
  BY <1>2, <1>3, <1>6, <1>7, Answered

\* A miss gives up its victim (cache.c:63).
LEMMA MissTable ==
  ASSUME TableInv, IInv', ReadMiss
  PROVE  TableInv'
<1> DEFINE v == Victim(windows)
           at == IF Ahead(op.req.drive, op.req.lba) < op.req.count THEN "exact" ELSE "prefetch"
<1>1. /\ op # Idle /\ UNCHANGED <<client, reply, served>>
      /\ windows' = Forget(windows, {v})
      /\ op' = [op EXCEPT !.at = at, !.victim = v]
  <2>1. op.at = "asked"
    BY DEF ReadMiss, Asked
  <2>2. op # Idle
    BY <2>1 DEF Idle
  <2> QED
    BY <2>2 DEF ReadMiss
<1>2. v \in Index
  BY VictimExists DEF TableInv
<1>3. op'.badge = op.badge /\ op'.victim = v
  <2>1. \E w : op \in Busy(w)
    BY <1>1 DEF TableInv, IInv, Types
  <2> HIDE DEF v, at
  <2> QED
    BY <1>1, <2>1 DEF Busy
<1>4. Table(windows') /\ v \notin Filled(windows')
  <2> HIDE DEF v
  <2> QED
    BY <1>1, <1>2, ForgetTable DEF TableInv
<1> HIDE DEF v
<1> QED
  BY <1>1, <1>2, <1>3, <1>4, GoesOn

\* The window that was read ahead into comes in as the oldest and is touched (cache.c:73-78).
LEMMA PrefetchTable ==
  ASSUME TableInv, IInv', Prefetch
  PROVE  TableInv'
<1> DEFINE d == op.req.drive
           lba == op.req.lba
           n == Ahead(d, lba)
           v == op.victim
           new == [drive |-> d, lba |-> lba, age |-> NWindows, data |-> Sectors(d, lba, n)]
           filled == [windows EXCEPT ![v] = new]
<1>1. IInv /\ Types /\ Table(windows) /\ VictimIsFree
  BY DEF TableInv, IInv
<1>2. /\ op.at = "prefetch" /\ op # Idle /\ op.req.kind = "read" /\ UNCHANGED <<disk, client>>
      /\ v \in Index \ Filled(windows)
  BY <1>1 DEF Prefetch, Idle, Types, VictimIsFree
<1>3. /\ d \in Drives /\ lba \in Nat /\ n \in Nat /\ op.req.count \in Nat \ {0}
      /\ op.req.count <= n /\ n <= CacheSectors
  <2>1. d \in Drives /\ lba \in Nat /\ op.req.count \in 1 .. MaxSectors
    BY <1>1, <1>2, BusyOp
  <2>2. n \in Nat
    BY <1>1, <2>1, AheadType
  <2>3. op.req.count <= n
    BY <1>1, <1>2 DEF IInv, EnoughAhead
  <2>4. n <= CacheSectors
    <3>1. capacity[d] \in Nat
      BY <1>1, <2>1 DEF Types
    <3> QED
      BY <2>1, <3>1, CacheAssumption DEF Ahead
  <2> HIDE DEF n
  <2> QED
    BY <2>1, <2>2, <2>3, <2>4, CacheAssumption
<1>4. CASE Readable(d, lba, n) /\ windows' = Touch(filled, v) /\ Answer(TRUE, Sectors(d, lba, op.req.count))
  <2>1. Sectors(d, lba, n) \in Seq(Contents) /\ Len(Sectors(d, lba, n)) = n
    BY <1>1, <1>3, <1>4, ReadSectors
  <2>2. Readable(d, lba, op.req.count)
    <3> HIDE DEF n, d, lba
    <3>1. Extent(lba, op.req.count) \subseteq Extent(lba, n)
      BY <1>3 DEF Extent
    <3> QED
      BY <1>4, <3>1 DEF Readable
  <2>3. Sectors(d, lba, op.req.count) \in Seq(Contents)
    BY <1>1, <1>3, <2>2, ReadSectors
  <2> HIDE DEF n, d, lba
  <2>4. new \in Window /\ new.age = NWindows /\ new.data = Sectors(d, lba, n) /\ new.data # <<>>
    <3>1. Sectors(d, lba, n) # <<>>
      BY <1>3, <2>1
    <3> QED
      BY <1>3, <2>1, <3>1, CacheAssumption DEF Window
  <2> HIDE DEF new
  <2>5. filled \in [Index -> Window] /\ filled[v] = new /\ \A i \in Index \ {v} : filled[i] = windows[i]
    BY <1>1, <1>2, <2>4 DEF Table
  <2> HIDE DEF filled, v
  <2>6. Filled(filled) = Filled(windows) \cup {v}
    BY <1>2, <2>4, <2>5 DEF Filled
  <2>7. \A i \in Filled(windows) : i # v /\ i \in Index /\ filled[i] = windows[i] /\ filled[i].age < NWindows /\ windows[i].age \in Nat
    <3>1. ASSUME NEW i \in Filled(windows) PROVE i # v /\ i \in Index /\ filled[i] = windows[i]
      BY <1>2, <2>5 DEF Filled
    <3>2. ASSUME NEW i \in Filled(windows) PROVE windows[i].age < NWindows /\ windows[i].age \in 0 .. NWindows
      BY <1>1, <3>1, AgesAreSmall
    <3> QED
      BY <3>1, <3>2
  <2>8. ASSUME NEW j \in Filled(filled) \ {v} PROVE filled[j].age = Cardinality(Younger(filled, j))
    <3>1. j \in Filled(windows)
      BY <2>6
    <3>2. windows[j].age = Cardinality(Younger(windows, j))
      BY <1>1, <3>1 DEF Table, Ranked
    <3>3. ~(filled[v].age < filled[j].age)
      BY <2>4, <2>5, <2>7, <3>1, CacheAssumption
    <3>4. Younger(filled, j) = Younger(windows, j)
      BY <2>6, <2>7, <3>1, <3>3 DEF Younger
    <3> QED
      BY <2>7, <3>1, <3>2, <3>4
  <2>9. ASSUME NEW j \in Filled(filled), NEW k \in Filled(filled), filled[j].age = filled[k].age PROVE j = k
    <3>1. \A i \in Filled(windows) : filled[i].age # filled[v].age
      BY <2>4, <2>5, <2>7, CacheAssumption
    <3>2. CASE j \in Filled(windows) /\ k \in Filled(windows)
      BY <1>1, <2>7, <2>9, <3>2 DEF Table, Ranked
    <3> QED
      BY <2>6, <2>9, <3>1, <3>2
  <2>10. \A j \in Index \ Filled(filled) : filled[j].age = 0
    BY <1>1, <2>5, <2>6 DEF Table, Ranked
  <2>11. Ranked(Touch(filled, v))
    BY <2>5, <2>6, <2>8, <2>9, <2>10, TouchRanks
  <2>12. Touch(filled, v) \in [Index -> Window] /\ Keeps(filled, Touch(filled, v))
    BY <2>5, TouchKeeps
  <2>13. \A i \in Filled(filled) : Len(filled[i].data) <= CacheSectors
    BY <1>1, <1>3, <2>1, <2>4, <2>5, <2>6, <2>7 DEF Table
  <2>14. Table(windows')
    <3> DEFINE t == Touch(filled, v)
    <3>1. windows' = t
      BY <1>4
    <3> HIDE DEF t
    <3> QED
      BY <2>11, <2>12, <2>13, <3>1 DEF Table, Keeps, t
  <2> QED
    BY <1>2, <1>4, <2>3, <2>14, Answered DEF d, lba
<1>5. CASE windows' = Drop(windows, All) /\ op' = [op EXCEPT !.at = "exact"] /\ UNCHANGED <<reply, served>>
  <2>1. Table(windows')
    BY <1>1, <1>5, DropTable
  <2>2. op'.badge = op.badge /\ op'.victim = v /\ op'.at = "exact"
    <3>1. \E w : op \in Busy(w)
      BY <1>1, <1>2 DEF Types
    <3> QED
      BY <1>5, <3>1 DEF Busy
  <2> QED
    BY <1>2, <1>5, <2>1, <2>2, GoesOn
<1> QED
  BY <1>4, <1>5 DEF Prefetch, TryExact

\* The other answers drop windows, if anything.
LEMMA OtherTable ==
  ASSUME TableInv, IInv', Identify \/ Malformed \/ ExactRead \/ WriteBegin \/ WriteEnd
  PROVE  TableInv'
<1>1. IInv /\ Types /\ Table(windows)
  BY DEF TableInv, IInv
<1>2. op # Idle /\ client' = client
  <2>1. op.at \in {"asked", "exact", "writing"}
    BY DEF Identify, Malformed, ExactRead, WriteBegin, WriteEnd, Asked
  <2>2. client' = client
    BY DEF Identify, Malformed, ExactRead, WriteBegin, WriteEnd
  <2>3. op # Idle
    BY <2>1 DEF Idle
  <2> QED
    BY <2>2, <2>3
<1>3. <<>> \in Seq(Contents)
  OBVIOUS
<1>4. CASE Identify
  <2>1. PICK ok \in BOOLEAN : Answer(ok, <<>>)
    BY <1>4 DEF Identify
  <2>2. Table(windows')
    BY <1>1, <1>4, DropTable DEF Identify
  <2> QED
    BY <1>2, <1>3, <2>1, <2>2, Answered
<1>5. CASE Malformed
  <2>1. Table(windows')
    BY <1>1, <1>5, DropTable DEF Malformed
  <2> QED
    BY <1>2, <1>3, <1>5, <2>1, Answered DEF Malformed
<1>6. CASE ExactRead
  <2> DEFINE d == op.req.drive
             lba == op.req.lba
             ok == Readable(d, lba, op.req.count)
             data == IF ok THEN Sectors(d, lba, op.req.count) ELSE <<>>
  <2>1. Table(windows') /\ Answer(ok, data) /\ op.at = "exact"
    BY <1>1, <1>6, DropTable DEF ExactRead
  <2>2. d \in Drives /\ lba \in Nat /\ op.req.count \in Nat
    <3>1. op.req.kind = "read"
      BY <1>1, <2>1 DEF Types
    <3>2. op.req.count \in 1 .. MaxSectors /\ d \in Drives /\ lba \in Nat
      BY <1>1, <2>1, <3>1, BusyOp
    <3> QED
      BY <3>2, CacheAssumption
  <2>3. data \in Seq(Contents)
    BY <1>1, <1>3, <2>2, ReadSectors
  <2>4. ok \in BOOLEAN
    BY DEF Readable
  <2> HIDE DEF data, ok
  <2> QED
    BY <1>2, <2>1, <2>3, <2>4, Answered
<1>7. CASE WriteBegin
  <2> DEFINE S == Overlapping(windows, op.req.drive, op.req.lba, op.req.count)
  <2>1. /\ windows' = Forget(windows, S) /\ op' = [op EXCEPT !.at = "writing"] /\ UNCHANGED <<reply, served>>
        /\ op.at = "asked"
    BY <1>7 DEF WriteBegin, Asked
  <2>2. S \in SUBSET Index
    BY DEF Overlapping, Filled
  <2> HIDE DEF S
  <2>3. Table(windows')
    BY <1>1, <2>1, <2>2, ForgetTable
  <2>4. op'.badge = op.badge /\ op'.victim = op.victim /\ op'.at = "writing"
    <3>1. \E w : op \in Busy(w)
      BY <1>1, <1>2 DEF Types
    <3> QED
      BY <2>1, <3>1 DEF Busy
  <2>5. op.victim \in Index
    BY <1>2 DEF TableInv, VictimIsFree
  <2> QED
    BY <1>2, <2>1, <2>3, <2>4, <2>5, GoesOn
<1>8. CASE WriteEnd
  <2> DEFINE ok == Readable(op.req.drive, op.req.lba, op.req.count)
  <2>1. Table(windows') /\ Answer(ok, <<>>)
    BY <1>1, <1>8, DropTable DEF WriteEnd
  <2>2. ok \in BOOLEAN
    BY DEF Readable
  <2> HIDE DEF ok
  <2> QED
    BY <1>2, <1>3, <2>1, <2>2, Answered
<1> QED
  BY <1>4, <1>5, <1>6, <1>7, <1>8

LEMMA NextTable == TableInv /\ [Next]_vars => TableInv'
<1> SUFFICES ASSUME TableInv, [Next]_vars PROVE TableInv'
  OBVIOUS
<1>1. IInv'
  BY NextIInv DEF TableInv
<1> QED
  BY <1>1, QuietTable, HitTable, MissTable, PrefetchTable, OtherTable DEF Next

\* The windows are ranked without ties, no more than a window's worth is in each, and the service
\* keeps to its one client, for any number of windows, clients and drives (cache.c:9, 35; main.c:62-73).
THEOREM CacheIsRight == Spec => []CacheInv
<1>1. ASSUME TableInv PROVE CacheInv
  <2>1. Types /\ Table(windows)
    BY <1>1 DEF TableInv, IInv
  <2>2. AgesAreRanks /\ \A i \in Index : windows[i].age \in 0 .. NWindows
    BY <2>1, RanksAreAges DEF Table
  <2>3. \A i \in Index : Len(windows[i].data) <= CacheSectors
    <3>1. ASSUME NEW i \in Index, i \notin Filled(windows) PROVE Len(windows[i].data) <= CacheSectors
      <4>1. windows[i].data = <<>>
        BY <3>1 DEF Filled
      <4> QED
        BY <4>1, CacheAssumption
    <3> QED
      BY <2>1, <3>1 DEF Table
  <2>4. windows \in [Index -> [drive : Drives \cup {All}, lba : Nat, age : 0 .. NWindows, data : Seq(Contents)]]
    <3>1. ASSUME NEW i \in Index
          PROVE  windows[i] \in [drive : Drives \cup {All}, lba : Nat, age : 0 .. NWindows, data : Seq(Contents)]
      <4>1. windows[i] \in Window /\ windows[i].age \in 0 .. NWindows
        BY <2>1, <2>2 DEF Table
      <4> QED
        BY <4>1 DEF Window
    <3> QED
      BY <2>1, <3>1 DEF Types
  <2>5. \/ op = Idle
        \/ /\ op.at \in {"asked", "prefetch", "exact", "writing"}
           /\ op.badge \in Badges /\ op.req \in Request /\ op.victim \in Index
    <3>1. CASE op # Idle
      <4>1. PICK v : op \in Busy(v)
        BY <2>1, <3>1 DEF Types
      <4>2. op.victim \in Index
        BY <1>1, <3>1 DEF TableInv, VictimIsFree
      <4> QED
        BY <4>1, <4>2 DEF Busy, Stage
    <3> QED
      BY <3>1
  <2>6. OneClientServed /\ served \subseteq Badges
    <3>1. CASE served = {}
      BY <3>1, FS_EmptySet DEF OneClientServed
    <3>2. ASSUME NEW b \in Badges, served = {b} PROVE OneClientServed /\ served \subseteq Badges
      <4>1. Cardinality({b}) = 1
        BY FS_Singleton
      <4> QED
        BY <3>2, <4>1 DEF OneClientServed
    <3> QED
      BY <1>1, <3>1, <3>2 DEF TableInv, OneClient
  <2>7. /\ capacity \in [Drives -> Nat] /\ disk \in [Drives -> Seq(Contents \cup {Bad})]
        /\ changed \in [Drives -> BOOLEAN]
    BY <2>1 DEF Types
  <2>8. client \in Badges \cup {Nobody, Gone} /\ reply.ok \in BOOLEAN /\ reply.data \in Seq(Contents)
    BY <1>1 DEF TableInv, OneClient, Replied
  <2>9. TypeOK
    BY <2>3, <2>4, <2>5, <2>6, <2>7, <2>8 DEF TypeOK
  <2> QED
    BY <2>2, <2>6, <2>9 DEF CacheInv
<1> QED
  BY InitTable, NextTable, <1>1, PTL DEF Spec

\* A read whose sectors are all good succeeds, even when reading ahead met a bad one (cache.c:67-71).
THEOREM GoodReadsSucceed == Spec => GoodSectorsAreRead
<1>1. ASSUME IInv, [Next]_vars
      PROVE  [op # Idle /\ op' = Idle /\ op.req.kind = "read"
                /\ Readable(op.req.drive, op.req.lba, op.req.count) => reply'.ok]_vars
  <2> SUFFICES ASSUME Next, op # Idle, op' = Idle, op.req.kind = "read",
                      Readable(op.req.drive, op.req.lba, op.req.count)
               PROVE  reply'.ok
    BY <1>1
  <2>1. CASE ReadHit
    BY <2>1 DEF ReadHit, Answer
  <2>2. CASE ExactRead
    BY <2>2 DEF ExactRead, Answer
  <2>3. CASE Prefetch
    <3>1. op.at = "prefetch"
      BY <2>3 DEF Prefetch
    <3>2. PICK v : op \in Busy(v)
      BY <1>1 DEF IInv, Types
    <3>3. ~TryExact
      <4>1. ASSUME TryExact PROVE op'.at = "exact"
        BY <3>2, <4>1 DEF TryExact, Busy
      <4> QED
        BY <4>1 DEF Idle
    <3> QED
      BY <2>3, <3>3 DEF Prefetch, Answer
  <2>4. ~Identify /\ ~Malformed /\ ~WriteBegin
    BY DEF Identify, Malformed, WriteBegin, Asked
  <2>5. ~WriteEnd
    BY <1>1 DEF WriteEnd, IInv, Types
  <2>6. ASSUME ReadMiss PROVE FALSE
    <3>1. PICK v : op \in Busy(v)
      BY <1>1 DEF IInv, Types
    <3>2. op'.at \in {"exact", "prefetch"}
      BY <2>6, <3>1 DEF ReadMiss, Busy
    <3> QED
      BY <3>2 DEF Idle
  <2>7. ~(\E b \in Badges : ClientGone(b) \/ \E req \in Request : Receive(b, req))
    BY DEF ClientGone, Receive
  <2>8. ~(\E d \in Drives, medium \in Media : MediaChange(d, medium))
    BY DEF MediaChange
  <2> QED
    BY <2>1, <2>2, <2>3, <2>4, <2>5, <2>6, <2>7, <2>8 DEF Next
<1> QED
  BY InitIInv, NextIInv, <1>1, PTL DEF Spec, GoodSectorsAreRead
=============================================================================

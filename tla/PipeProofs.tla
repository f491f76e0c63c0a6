---------------------------- MODULE PipeProofs ----------------------------
(***************************************************************************)
(* Proofs about Pipe, for any number of pipes, table entries and calls and     *)
(* any size of the ring: bytes come out in the order they went in, every       *)
(* waiting call keeps its entry, and after a request none is left that could    *)
(* be answered.                                                               *)
(*                                                                         *)
(* The last one is why two rounds of settle are enough: a pipe that has been    *)
(* settled never has waiting readers and waiting writers at the same time        *)
(* (readers wait at an empty ring, where every write fits).  One new request     *)
(* or one closed end therefore meets waiting requests of one kind only; the      *)
(* round that answers it leaves one kind, and a round over one kind only moves   *)
(* the ring in one direction and so leaves none behind that it passed over.      *)
(***************************************************************************)
EXTENDS Pipe, Integers, FiniteSetTheorems, SequenceTheorems, WellFoundedInduction, TLAPS

PipeRecord == [id : 0 .. MaxBadge, read_badge : 0 .. MaxBadge, write_badge : 0 .. MaxBadge,
               head : 0 .. PipeSize - 1, count : 0 .. PipeSize, buf : [0 .. PipeSize - 1 -> Bytes]]
Entry      == [badge : 0 .. MaxBadge, call : Calls \cup {0}, op : {"none", "read", "write"}, max : 0 .. PipeSize]
CallRecord == [state : {"unused", "waiting", "over"}, badge : 0 .. MaxBadge]
ScanRecord == [round : 0 .. 2, pipe : Slots, slot : 1 .. NPending + 1, gone : Slots \cup {0}]

\* Entries are of calls that were made, one each, on badges that were given out.
EntriesInv ==
  /\ \A j \in Entries : pending[j].badge # 0 =>
       /\ pending[j].call \in Calls /\ pending[j].badge \in 1 .. next_badge
       /\ call[pending[j].call].state # "unused"
       /\ call[pending[j].call].state = "waiting" => call[pending[j].call].badge = pending[j].badge
  /\ \A j, k \in Entries : pending[j].badge # 0 /\ pending[k].badge # 0 /\ pending[j].call = pending[k].call => j = k

\* Where settle is: at the start of a round, or in the one round of client_gone.
ScanInv ==
  /\ scan.round = 0 => scan.pipe = 1 /\ scan.slot = 1
  /\ scan.gone # 0 => pipes[scan.gone].id # 0 /\ scan.round \in {0, 1} /\ (scan.round = 1 => scan.pipe = scan.gone)

TablesInv == PipeTypeOK /\ EntriesInv /\ ScanInv

-----------------------------------------------------------------------------
(* Types.                                                                    *)

LEMMA Remainder == ASSUME NEW a \in Nat, NEW n \in Nat \ {0} PROVE a % n \in 0 .. n - 1
  OBVIOUS

LEMMA Wrap == ASSUME NEW n \in Nat \ {0}, NEW a \in 0 .. 2 * n - 1 PROVE a % n = IF a < n THEN a ELSE a - n
<1>1. CASE a < n
  BY <1>1
<1>2. CASE a >= n
  BY <1>2
<1> QED
  BY <1>1, <1>2

LEMMA Types ==
  ASSUME PipeTypeOK
  PROVE  /\ pipes \in [Slots -> PipeRecord] /\ pending \in [Entries -> Entry] /\ call \in [Calls -> CallRecord]
         /\ scan \in ScanRecord /\ next_badge \in 0 .. MaxBadge /\ next_id \in 0 .. MaxBadge
         /\ NPipes \in Nat \ {0} /\ NPending \in Nat /\ PipeSize \in Nat \ {0} /\ NCalls \in Nat /\ MaxBadge \in Nat
         /\ NoScan \in ScanRecord /\ Free \in Entry /\ Free.badge = 0 /\ Over \in CallRecord /\ NoPipe \in PipeRecord
<1>1. NPipes \in Nat \ {0} /\ NPending \in Nat /\ PipeSize \in Nat \ {0} /\ NCalls \in Nat /\ MaxBadge \in Nat
  BY PipeAssumption
<1>2. NoScan \in ScanRecord /\ Free \in Entry /\ Free.badge = 0 /\ Over \in CallRecord
  BY <1>1 DEF NoScan, ScanRecord, Slots, Free, Entry, Over, CallRecord
<1>3. NoPipe \in PipeRecord
  BY <1>1 DEF NoPipe, PipeRecord, Bytes
<1> QED
  BY <1>1, <1>2, <1>3 DEF PipeTypeOK, PipeRecord, Entry, CallRecord, ScanRecord

\* What the four answers of settle have in common.
SettleStep(i, j) == SettleRead(i, j) \/ SettleEof(i, j) \/ SettlePeerGone(i, j) \/ SettleWrite(i, j)

Answers(i, j) ==
  /\ scan.round # 0 /\ i = scan.pipe /\ pipes[i].id # 0 /\ j \in scan.slot .. NPending
  /\ Answerable(i, j) /\ \A k \in scan.slot .. j - 1 : ~Answerable(i, k)
  /\ pending[j].badge # 0
  /\ pending' = [pending EXCEPT ![j] = Free]
  /\ call' = [call EXCEPT ![pending[j].call] = Over]
  /\ scan' = [scan EXCEPT !.slot = j + 1]
  /\ UNCHANGED <<next_badge, next_id, gone>>
  /\ pipes' \in [Slots -> PipeRecord]
  /\ \A k \in Slots : k # i => pipes'[k] = pipes[k]
  /\ pipes'[i].id = pipes[i].id /\ pipes'[i].read_badge = pipes[i].read_badge
  /\ pipes'[i].write_badge = pipes[i].write_badge

LEMMA SettleAnswers ==
  ASSUME TablesInv, NEW i \in Slots, NEW j \in Entries, SettleStep(i, j)
  PROVE  Answers(i, j)
<1>0. /\ pipes \in [Slots -> PipeRecord] /\ pending \in [Entries -> Entry] /\ scan \in ScanRecord
      /\ NPending \in Nat /\ PipeSize \in Nat \ {0}
  BY Types DEF TablesInv
<1>1. Settling(i, j)
  BY DEF SettleStep, SettleRead, SettleEof, SettlePeerGone, SettleWrite
<1>2. /\ pending' = [pending EXCEPT ![j] = Free] /\ Reply(pending[j].call) /\ Advance(j)
      /\ UNCHANGED <<next_badge, next_id, gone>>
  BY DEF SettleStep, SettleRead, SettleEof, SettlePeerGone, SettleWrite
<1>3. /\ scan.round # 0 /\ i = scan.pipe /\ pipes[i].id # 0 /\ j \in scan.slot .. NPending
      /\ Answerable(i, j) /\ \A k \in scan.slot .. j - 1 : ~Answerable(i, k)
      /\ pending[j].badge # 0
  <2>1. scan.slot \in Int
    BY <1>0 DEF ScanRecord
  <2> QED
    BY <1>0, <1>1, <2>1 DEF Settling, Answerable, Entries
<1>4. /\ pipes' \in [Slots -> PipeRecord]
      /\ \A k \in Slots : k # i => pipes'[k] = pipes[k]
      /\ pipes'[i].id = pipes[i].id /\ pipes'[i].read_badge = pipes[i].read_badge
      /\ pipes'[i].write_badge = pipes[i].write_badge
  <2> DEFINE p == pipes[i]
  <2>0. p \in PipeRecord /\ pending[j] \in Entry /\ pipes \in [Slots -> PipeRecord]
    BY <1>0
  <2>1. CASE SettleRead(i, j)
    <3> DEFINE n == IF p.count < pending[j].max THEN p.count ELSE pending[j].max
    <3>1. pipes' = [pipes EXCEPT ![i].head = HeadAfter(p, n), ![i].count = p.count - n]
      BY <2>1 DEF SettleRead
    <3>2. n \in 0 .. p.count /\ p.count \in 0 .. PipeSize /\ p.head \in 0 .. PipeSize - 1
      BY <1>0, <2>0 DEF PipeRecord, Entry
    <3> HIDE DEF n, p
    <3>3. HeadAfter(p, n) \in 0 .. PipeSize - 1
      <4>1. p.head + n \in Nat
        BY <1>0, <3>2
      <4> QED
        BY <1>0, <4>1, Remainder DEF HeadAfter
    <3>4. p.count - n \in 0 .. PipeSize
      BY <1>0, <3>2
    <3> QED
      BY <2>0, <3>1, <3>3, <3>4 DEF PipeRecord
  <2>2. CASE SettleWrite(i, j)
    <3> DEFINE n == pending[j].max
               data == Data(pending[j].call, n)
               buf == [s \in 0 .. PipeSize - 1 |->
                         IF \E k \in 1 .. n : s = InRing(p, p.count + k)
                         THEN data[CHOOSE k \in 1 .. n : s = InRing(p, p.count + k)] ELSE p.buf[s]]
    <3>1. pipes' = [pipes EXCEPT ![i].count = p.count + n, ![i].buf = buf]
      BY <2>2 DEF SettleWrite
    <3>2. n \in 0 .. PipeSize /\ p.count + n \in 0 .. PipeSize
      BY <1>0, <2>0, <2>2 DEF SettleWrite, Fits, PipeRecord, Entry
    <3>3. buf \in [0 .. PipeSize - 1 -> Bytes]
      <4>1. \A k \in 1 .. n : data[k] \in Bytes
        <5>1. pending[j].call \in Calls
          BY <1>3 DEF TablesInv, EntriesInv
        <5>2. \A k \in 1 .. n : k \in 1 .. PipeSize
          BY <1>0, <3>2
        <5> HIDE DEF n
        <5> QED
          BY <5>1, <5>2 DEF Data, Bytes
      <4>2. p.buf \in [0 .. PipeSize - 1 -> Bytes]
        BY <2>0 DEF PipeRecord
      <4> HIDE DEF data, n, p
      <4> QED
        BY <4>1, <4>2
    <3> HIDE DEF n, buf
    <3> QED
      BY <2>0, <3>1, <3>2, <3>3 DEF PipeRecord
  <2>3. CASE SettleEof(i, j) \/ SettlePeerGone(i, j)
    BY <2>0, <2>3 DEF SettleEof, SettlePeerGone
  <2> QED
    BY <2>1, <2>2, <2>3 DEF SettleStep
<1> QED
  BY <1>2, <1>3, <1>4 DEF Answers, Reply, Advance

\* What a request does: a new call is answered at once, or gets an entry that was free.
Queued(c, b) ==
  \E f \in Entries, op \in {"read", "write"}, max \in 0 .. PipeSize :
    /\ pending[f].badge = 0
    /\ IF op = "read" THEN ReadEnds(b) # {} ELSE WriteEnds(b) # {}
    /\ pending' = [pending EXCEPT ![f] = [badge |-> b, call |-> c, op |-> op, max |-> max]]
    /\ call' = [call EXCEPT ![c] = [state |-> "waiting", badge |-> b]]
    /\ scan' = [round |-> 2, pipe |-> 1, slot |-> 1, gone |-> 0]

Asks(c, b) ==
  /\ scan = NoScan /\ b \in 1 .. next_badge /\ call[c].state = "unused"
  /\ UNCHANGED <<pipes, next_badge, next_id, gone, owed>>
  /\ Queued(c, b) \/ (call' = [call EXCEPT ![c] = Over] /\ UNCHANGED <<pending, scan>>)

LEMMA FirstFreeFacts ==
  ASSUME Room, PipeTypeOK
  PROVE  FirstFree \in Entries /\ pending[FirstFree].badge = 0
<1> DEFINE S == {j \in Entries : pending[j].badge = 0}
           R == OpToRel(<, Nat)
<1>1. S \in SUBSET Nat /\ S # {}
  BY Types DEF Room, Entries
<1>2. IsWellFoundedOn(R, Nat) /\ \A j, k \in Nat : k < j => <<k, j>> \in R
  BY NatLessThanWellFounded DEF OpToRel
<1> HIDE DEF R
<1>3. PICK j \in S : \A k \in S : ~(<<k, j>> \in R)
  <2> HIDE DEF S
  <2> QED
    BY <1>1, <1>2, WFMin
<1>4. \A k \in 1 .. j - 1 : pending[k].badge # 0
  <2> SUFFICES ASSUME NEW k \in 1 .. j - 1, pending[k].badge = 0 PROVE FALSE
    OBVIOUS
  <2>1. k \in S /\ k \in Nat /\ j \in Nat /\ k < j
    BY Types DEF Entries
  <2> QED
    BY <1>2, <1>3, <2>1
<1> QED
  BY <1>3, <1>4 DEF FirstFree

LEMMA RequestAsks ==
  ASSUME PipeTypeOK, NEW c \in Calls, NEW b \in 1 .. MaxBadge, NEW n \in 0 .. PipeSize, StRead(c, b, n) \/ StWrite(c, b, n)
  PROVE  Asks(c, b)
<1>1. /\ Ready(c, b) /\ UNCHANGED <<pipes, next_badge, next_id, gone, owed>>
      /\ \/ Refused(c)
         \/ Reply(c) /\ UNCHANGED <<pending, scan>>
         \/ ReadEnds(b) # {} /\ Room /\ Waits(c, b, "read", n)
         \/ WriteEnds(b) # {} /\ Room /\ Waits(c, b, "write", n)
  BY DEF StRead, StWrite
<1>2. scan = NoScan /\ b \in 1 .. next_badge /\ call[c].state = "unused"
  BY <1>1, Types DEF Ready, Calls
<1>3. Refused(c) => Reply(c) /\ UNCHANGED <<pending, scan>>
  BY DEF Refused
<1>4. ASSUME Room, NEW op \in {"read", "write"}, Waits(c, b, op, n),
             IF op = "read" THEN ReadEnds(b) # {} ELSE WriteEnds(b) # {}
      PROVE  Queued(c, b)
  <2>1. FirstFree \in Entries /\ pending[FirstFree].badge = 0
    BY <1>4, FirstFreeFacts
  <2>2. /\ pending' = [pending EXCEPT ![FirstFree] = [badge |-> b, call |-> c, op |-> op, max |-> n]]
        /\ call' = [call EXCEPT ![c] = [state |-> "waiting", badge |-> b]]
        /\ scan' = [round |-> 2, pipe |-> 1, slot |-> 1, gone |-> 0]
    BY <1>4 DEF Waits, NoScan, Rounds
  <2> QED
    BY <1>4, <2>1, <2>2 DEF Queued
<1> QED
  BY <1>1, <1>2, <1>3, <1>4 DEF Asks, Reply

\* What client_gone does.
Closes(b, i) ==
  /\ i \in Slots /\ pipes[i].id # 0
  /\ \/ /\ pipes[i].read_badge = b
        /\ pipes' = [pipes EXCEPT ![i].read_badge = 0]
     \/ /\ pipes[i].write_badge = b
        /\ pipes' = [pipes EXCEPT ![i].write_badge = 0]
  /\ pending' = [j \in Entries |-> IF pending[j].badge = b THEN Free ELSE pending[j]]
  /\ scan' = [round |-> 1, pipe |-> i, slot |-> 1, gone |-> i]

LEMMA GoneCloses ==
  ASSUME NEW b \in 1 .. MaxBadge, PipeClientGone(b)
  PROVE  /\ scan = NoScan /\ gone' = gone \cup {b} /\ UNCHANGED <<next_badge, next_id, call, owed>>
         /\ \/ UNCHANGED <<pipes, pending, scan>> /\ ReadEnds(b) \cup WriteEnds(b) = {}
            \/ \E i \in Slots : Closes(b, i)
<1> DEFINE ends == ReadEnds(b) \cup WriteEnds(b)
           i == CHOOSE s \in ends : TRUE
<1>1. /\ scan = NoScan /\ gone' = gone \cup {b} /\ UNCHANGED <<next_badge, next_id, call, owed>>
      /\ ends = {} => UNCHANGED <<pipes, pending, scan>>
      /\ ends # {} => /\ pipes' = IF i \in ReadEnds(b) THEN [pipes EXCEPT ![i].read_badge = 0]
                                                         ELSE [pipes EXCEPT ![i].write_badge = 0]
                      /\ pending' = DropPending(b)
                      /\ scan' = [round |-> 1, pipe |-> i, slot |-> 1, gone |-> i]
  BY DEF PipeClientGone
<1>2. ends # {} => i \in ends
  OBVIOUS
<1> HIDE DEF i
<1>3. ends # {} => Closes(b, i) /\ i \in Slots
  BY <1>1, <1>2 DEF Closes, ReadEnds, WriteEnds, DropPending
<1> QED
  BY <1>1, <1>3

\* PIPE_OPEN: a free slot starts an empty pipe with one end, or stays free.
Opens(i) ==
  /\ scan = NoScan /\ i \in Slots /\ pipes[i].id = 0
  /\ next_badge < MaxBadge /\ next_badge' = next_badge + 1 /\ next_id < MaxBadge /\ next_id' = next_id + 1
  /\ \E n \in {0, next_id + 1} : pipes' = [pipes EXCEPT ![i] = [NoPipe EXCEPT !.id = n, !.read_badge = next_badge + 1]]
  /\ owed' = [owed EXCEPT ![i] = <<>>]
  /\ UNCHANGED <<pending, scan, call, gone>>

LEMMA OpenOpens == PipeTypeOK /\ PipeOpen => \E i \in Slots : Opens(i)
<1> SUFFICES ASSUME PipeTypeOK, PipeOpen PROVE \E i \in Slots : Opens(i)
  OBVIOUS
<1> DEFINE S == {s \in Slots : pipes[s].id = 0}
           R == OpToRel(<, Nat)
           i == CHOOSE s \in Slots : pipes[s].id = 0 /\ \A k \in 1 .. s - 1 : pipes[k].id # 0
<1>1. S \in SUBSET Nat /\ S # {}
  BY Types DEF PipeOpen, Slots
<1>2. IsWellFoundedOn(R, Nat) /\ \A j, k \in Nat : k < j => <<k, j>> \in R
  BY NatLessThanWellFounded DEF OpToRel
<1> HIDE DEF R
<1>3. PICK j \in S : \A k \in S : ~(<<k, j>> \in R)
  <2> HIDE DEF S
  <2> QED
    BY <1>1, <1>2, WFMin
<1>4. \A k \in 1 .. j - 1 : pipes[k].id # 0
  <2> SUFFICES ASSUME NEW k \in 1 .. j - 1, pipes[k].id = 0 PROVE FALSE
    OBVIOUS
  <2>1. k \in S /\ k \in Nat /\ j \in Nat /\ k < j
    BY Types DEF Slots
  <2> QED
    BY <1>2, <1>3, <2>1
<1>5. i \in Slots /\ pipes[i].id = 0
  BY <1>3, <1>4
<1>6. /\ scan = NoScan /\ next_badge < MaxBadge /\ next_badge' = next_badge + 1 /\ next_id < MaxBadge /\ next_id' = next_id + 1
      /\ \E ok \in BOOLEAN :
           pipes' = [pipes EXCEPT ![i] = [NoPipe EXCEPT !.id = IF ok THEN next_id' ELSE 0, !.read_badge = next_badge']]
      /\ owed' = [owed EXCEPT ![i] = <<>>]
      /\ UNCHANGED <<pending, scan, call, gone>>
  BY DEF PipeOpen
<1> HIDE DEF i
<1> QED
  BY <1>5, <1>6 DEF Opens
-----------------------------------------------------------------------------
(* The tables.                                                               *)

LEMMA InitTables == PipeInit => TablesInv
<1> SUFFICES ASSUME PipeInit PROVE TablesInv
  OBVIOUS
<1>1. /\ NPipes \in Nat \ {0} /\ NPending \in Nat /\ PipeSize \in Nat \ {0} /\ MaxBadge \in Nat
      /\ NoScan \in ScanRecord /\ Free \in Entry /\ Free.badge = 0 /\ NoPipe \in PipeRecord
  <2>1. NPipes \in Nat \ {0} /\ NPending \in Nat /\ PipeSize \in Nat \ {0} /\ MaxBadge \in Nat
    BY PipeAssumption
  <2>2. NoScan \in ScanRecord /\ Free \in Entry /\ Free.badge = 0
    BY <2>1 DEF NoScan, ScanRecord, Slots, Free, Entry
  <2>3. NoPipe \in PipeRecord
    BY <2>1 DEF NoPipe, PipeRecord, Bytes
  <2> QED
    BY <2>1, <2>2, <2>3
<1>2. call \in [Calls -> CallRecord]
  BY <1>1 DEF PipeInit, CallRecord
<1>3. PipeTypeOK
  BY <1>1, <1>2 DEF PipeInit, PipeTypeOK, PipeRecord, Entry, CallRecord, ScanRecord
<1>4. EntriesInv
  BY <1>1 DEF PipeInit, EntriesInv
<1>5. ScanInv
  BY DEF PipeInit, ScanInv, NoScan
<1> QED
  BY <1>3, <1>4, <1>5 DEF TablesInv

LEMMA SettleTables ==
  ASSUME TablesInv, NEW i \in Slots, NEW j \in Entries, Answers(i, j)
  PROVE  TablesInv'
<1>1. /\ pipes \in [Slots -> PipeRecord] /\ pending \in [Entries -> Entry] /\ call \in [Calls -> CallRecord]
      /\ scan \in ScanRecord /\ NPending \in Nat /\ Free \in Entry /\ Free.badge = 0 /\ Over \in CallRecord
      /\ PipeTypeOK /\ EntriesInv /\ ScanInv
  BY Types DEF TablesInv
<1>2. /\ pending' = [pending EXCEPT ![j] = Free] /\ call' = [call EXCEPT ![pending[j].call] = Over]
      /\ scan' = [scan EXCEPT !.slot = j + 1] /\ UNCHANGED <<next_badge, next_id, gone>>
      /\ pipes' \in [Slots -> PipeRecord] /\ \A k \in Slots : pipes'[k].id = pipes[k].id
      /\ scan.round # 0
  BY DEF Answers
<1>3. scan' \in ScanRecord /\ scan'.round = scan.round /\ scan'.pipe = scan.pipe /\ scan'.gone = scan.gone
  <2>1. j + 1 \in 1 .. NPending + 1
    BY <1>1 DEF Entries
  <2> QED
    BY <1>1, <1>2, <2>1 DEF ScanRecord
<1>4. PipeTypeOK'
  <2>1. pending' \in [Entries -> Entry] /\ call' \in [Calls -> CallRecord]
    BY <1>1, <1>2
  <2> QED
    BY <1>1, <1>2, <1>3, <2>1 DEF PipeTypeOK, PipeRecord, Entry, CallRecord, ScanRecord
<1>5. ScanInv'
  BY <1>1, <1>2, <1>3 DEF ScanInv, ScanRecord
<1>6. EntriesInv'
  <2>1. \A k \in Entries : pending'[k].badge # 0 => k # j /\ pending'[k] = pending[k]
    BY <1>1, <1>2
  <2>2. Over.state = "over"
    BY DEF Over
  <2>3. \A c \in Calls : call'[c] = call[c] \/ (call'[c].state # "unused" /\ call'[c].state # "waiting")
    BY <1>1, <1>2, <2>2
  <2> QED
    BY <1>1, <1>2, <2>1, <2>3 DEF EntriesInv
<1> QED
  BY <1>4, <1>5, <1>6 DEF TablesInv

LEMMA AskTables ==
  ASSUME TablesInv, NEW c \in Calls, NEW b \in 1 .. MaxBadge, Asks(c, b)
  PROVE  TablesInv'
<1>1. /\ pipes \in [Slots -> PipeRecord] /\ pending \in [Entries -> Entry] /\ call \in [Calls -> CallRecord]
      /\ scan \in ScanRecord /\ NPending \in Nat /\ NPipes \in Nat \ {0} /\ Over \in CallRecord
      /\ PipeTypeOK /\ EntriesInv /\ ScanInv
  BY Types DEF TablesInv
<1>2. /\ scan = NoScan /\ b \in 1 .. next_badge /\ call[c].state = "unused"
      /\ UNCHANGED <<pipes, next_badge, next_id, gone, owed>>
  BY DEF Asks
<1>3. \A k \in Entries : pending[k].badge # 0 => pending[k].call # c
  BY <1>1, <1>2 DEF EntriesInv
<1>4. CASE Queued(c, b)
  <2>1. PICK f \in Entries, op \in {"read", "write"}, max \in 0 .. PipeSize :
          /\ pending' = [pending EXCEPT ![f] = [badge |-> b, call |-> c, op |-> op, max |-> max]]
          /\ call' = [call EXCEPT ![c] = [state |-> "waiting", badge |-> b]]
          /\ scan' = [round |-> 2, pipe |-> 1, slot |-> 1, gone |-> 0]
    BY <1>4 DEF Queued
  <2> DEFINE e == [badge |-> b, call |-> c, op |-> op, max |-> max]
             w == [state |-> "waiting", badge |-> b]
  <2>2. e \in Entry /\ e.badge = b /\ e.call = c /\ w \in CallRecord /\ w.state = "waiting" /\ w.badge = b
    BY <1>1, <1>2 DEF Entry, CallRecord, PipeTypeOK
  <2> HIDE DEF e, w
  <2>3. pending' = [pending EXCEPT ![f] = e] /\ call' = [call EXCEPT ![c] = w]
    BY <2>1 DEF e, w
  <2>4. scan' \in ScanRecord /\ scan'.round = 2 /\ scan'.gone = 0
    BY <1>1, <2>1 DEF ScanRecord, Slots
  <2>5. PipeTypeOK'
    <3>1. pending' \in [Entries -> Entry] /\ call' \in [Calls -> CallRecord]
      BY <1>1, <2>2, <2>3
    <3> QED
      BY <1>1, <1>2, <2>4, <3>1 DEF PipeTypeOK, PipeRecord, Entry, CallRecord, ScanRecord
  <2>6. ScanInv'
    BY <2>4 DEF ScanInv
  <2>7. EntriesInv'
    <3>1. pending'[f] = e /\ \A k \in Entries : k # f => pending'[k] = pending[k]
      BY <1>1, <2>3
    <3>2. call'[c] = w /\ \A d \in Calls : d # c => call'[d] = call[d]
      BY <1>1, <2>3
    <3>3. ASSUME NEW k \in Entries, pending'[k].badge # 0
          PROVE  /\ pending'[k].call \in Calls /\ pending'[k].badge \in 1 .. next_badge'
                 /\ call'[pending'[k].call].state # "unused"
                 /\ call'[pending'[k].call].state = "waiting" => call'[pending'[k].call].badge = pending'[k].badge
      <4>1. CASE k = f
        BY <1>2, <2>2, <3>1, <3>2, <4>1
      <4>2. CASE k # f
        <5>1. pending'[k] = pending[k] /\ pending[k].call \in Calls /\ pending[k].call # c
          BY <1>1, <1>3, <3>1, <3>3, <4>2 DEF EntriesInv
        <5> QED
          BY <1>1, <1>2, <3>2, <3>3, <5>1 DEF EntriesInv
      <4> QED
        BY <4>1, <4>2
    <3>4. \A j, k \in Entries : pending'[j].badge # 0 /\ pending'[k].badge # 0 /\ pending'[j].call = pending'[k].call => j = k
      BY <1>1, <1>3, <2>2, <3>1 DEF EntriesInv
    <3> QED
      BY <3>3, <3>4 DEF EntriesInv
  <2> QED
    BY <2>5, <2>6, <2>7 DEF TablesInv
<1>5. CASE call' = [call EXCEPT ![c] = Over] /\ UNCHANGED <<pending, scan>>
  <2>1. call' \in [Calls -> CallRecord] /\ \A d \in Calls : d # c => call'[d] = call[d]
    BY <1>1, <1>5
  <2>2. PipeTypeOK'
    BY <1>1, <1>2, <1>5, <2>1 DEF PipeTypeOK, CallRecord
  <2>3. EntriesInv'
    BY <1>1, <1>2, <1>3, <1>5, <2>1 DEF EntriesInv
  <2>4. ScanInv'
    BY <1>1, <1>2, <1>5 DEF ScanInv
  <2> QED
    BY <2>2, <2>3, <2>4 DEF TablesInv
<1> QED
  BY <1>4, <1>5 DEF Asks

LEMMA OtherTables ==
  ASSUME TablesInv,
         \/ \E i \in Slots : Opens(i) \/ PipeAttach(i) \/ SettleEnd(i)
         \/ FreePipe
         \/ \E c \in Calls : Kill(c)
  PROVE  TablesInv'
<1>1. /\ pipes \in [Slots -> PipeRecord] /\ pending \in [Entries -> Entry] /\ call \in [Calls -> CallRecord]
      /\ scan \in ScanRecord /\ NPending \in Nat /\ NPipes \in Nat \ {0} /\ Over \in CallRecord /\ NoScan \in ScanRecord
      /\ next_badge \in 0 .. MaxBadge /\ next_id \in 0 .. MaxBadge /\ MaxBadge \in Nat /\ NoPipe \in PipeRecord
      /\ PipeTypeOK /\ EntriesInv /\ ScanInv
  BY Types DEF TablesInv
<1>2. ASSUME NEW i \in Slots, Opens(i) PROVE TablesInv'
  <2>1. PICK n \in {0, next_id + 1} : pipes' = [pipes EXCEPT ![i] = [NoPipe EXCEPT !.id = n, !.read_badge = next_badge + 1]]
    BY <1>2 DEF Opens
  <2>2. /\ scan = NoScan /\ next_badge' = next_badge + 1 /\ next_badge' \in 0 .. MaxBadge
        /\ next_id' = next_id + 1 /\ next_id' \in 0 .. MaxBadge
        /\ UNCHANGED <<pending, scan, call, gone>>
    BY <1>1, <1>2 DEF Opens
  <2>3. [NoPipe EXCEPT !.id = n, !.read_badge = next_badge + 1] \in PipeRecord
    <3>1. n \in 0 .. MaxBadge /\ next_badge + 1 \in 0 .. MaxBadge
      BY <1>1, <2>2
    <3> QED
      BY <1>1, <3>1 DEF PipeRecord
  <2>4. pipes' \in [Slots -> PipeRecord]
    BY <1>1, <2>1, <2>3
  <2>5. PipeTypeOK'
    BY <1>1, <2>2, <2>4 DEF PipeTypeOK, PipeRecord
  <2>6. EntriesInv'
    <3>1. \A b \in 1 .. next_badge : b \in 1 .. next_badge'
      BY <1>1, <2>2
    <3> QED
      BY <1>1, <2>2, <3>1 DEF EntriesInv
  <2>7. ScanInv'
    BY <2>2 DEF ScanInv, NoScan
  <2> QED
    BY <2>5, <2>6, <2>7 DEF TablesInv
<1>3. ASSUME NEW i \in Slots, PipeAttach(i) PROVE TablesInv'
  <2>1. /\ scan = NoScan /\ next_badge' = next_badge + 1 /\ next_badge' \in 0 .. MaxBadge
        /\ pipes' = [pipes EXCEPT ![i].write_badge = next_badge'] \/ pipes' = pipes
        /\ UNCHANGED <<pending, next_id, scan, call, gone, owed>>
    BY <1>1, <1>3 DEF PipeAttach
  <2>2. pipes' \in [Slots -> PipeRecord]
    <3> DEFINE p == [pipes[i] EXCEPT !.write_badge = next_badge']
    <3>1. p \in PipeRecord
      BY <1>1, <2>1 DEF PipeRecord
    <3>2. pipes' = [pipes EXCEPT ![i] = p] \/ pipes' = pipes
      BY <1>1, <2>1
    <3> HIDE DEF p
    <3> QED
      BY <1>1, <3>1, <3>2
  <2>3. PipeTypeOK'
    BY <1>1, <2>1, <2>2 DEF PipeTypeOK, PipeRecord
  <2>4. EntriesInv'
    <3>1. \A b \in 1 .. next_badge : b \in 1 .. next_badge'
      BY <1>1, <2>1
    <3> QED
      BY <1>1, <2>1, <3>1 DEF EntriesInv
  <2>5. ScanInv'
    BY <2>1 DEF ScanInv, NoScan
  <2> QED
    BY <2>3, <2>4, <2>5 DEF TablesInv
<1>4. ASSUME NEW i \in Slots, SettleEnd(i) PROVE TablesInv'
  <2>1. /\ scan.round # 0 /\ i = scan.pipe
        /\ scan' = IF scan.gone = 0 /\ i < NPipes THEN [scan EXCEPT !.slot = 1, !.pipe = i + 1]
                   ELSE [scan EXCEPT !.slot = 1, !.pipe = 1, !.round = scan.round - 1]
        /\ UNCHANGED <<pipes, pending, next_badge, next_id, call, gone, owed>>
    BY <1>4 DEF SettleEnd
  <2>2. /\ scan' \in ScanRecord /\ scan'.slot = 1 /\ scan'.gone = scan.gone
        /\ \/ scan.gone = 0 /\ scan'.round = scan.round
           \/ scan'.round = scan.round - 1 /\ scan'.pipe = 1
    <3>1. CASE scan.gone = 0 /\ i < NPipes
      <4>1. scan' = [scan EXCEPT !.slot = 1, !.pipe = i + 1] /\ i + 1 \in Slots /\ 1 \in 1 .. NPending + 1
        BY <1>1, <2>1, <3>1 DEF Slots
      <4> QED
        BY <1>1, <3>1, <4>1 DEF ScanRecord
    <3>2. CASE ~(scan.gone = 0 /\ i < NPipes)
      <4>1. /\ scan' = [scan EXCEPT !.slot = 1, !.pipe = 1, !.round = scan.round - 1]
            /\ 1 \in Slots /\ 1 \in 1 .. NPending + 1 /\ scan.round - 1 \in 0 .. 2
        BY <1>1, <2>1, <3>2 DEF Slots, ScanRecord
      <4> QED
        BY <1>1, <4>1 DEF ScanRecord
    <3> QED
      BY <3>1, <3>2
  <2>3. PipeTypeOK'
    BY <1>1, <2>1, <2>2 DEF PipeTypeOK, ScanRecord
  <2>4. EntriesInv'
    BY <1>1, <2>1 DEF EntriesInv
  <2>5. ScanInv'
    BY <1>1, <2>1, <2>2 DEF ScanInv, ScanRecord
  <2> QED
    BY <2>3, <2>4, <2>5 DEF TablesInv
<1>5. CASE FreePipe
  <2>1. /\ scan.gone \in Slots /\ scan' = NoScan
        /\ pipes' = [pipes EXCEPT ![scan.gone].id = 0] \/ pipes' = pipes
        /\ UNCHANGED <<pending, next_badge, next_id, call, gone, owed>>
    BY <1>1, <1>5 DEF FreePipe, ScanRecord
  <2>2. pipes' \in [Slots -> PipeRecord]
    <3> DEFINE i == scan.gone
               p == [pipes[i] EXCEPT !.id = 0]
    <3>1. p \in PipeRecord
      <4>1. pipes[i] \in PipeRecord /\ 0 \in 0 .. MaxBadge
        BY <1>1, <2>1
      <4> QED
        BY <4>1 DEF PipeRecord
    <3>2. pipes' = [pipes EXCEPT ![i] = p] \/ pipes' = pipes
      BY <1>1, <2>1
    <3> HIDE DEF p
    <3> QED
      BY <1>1, <2>1, <3>1, <3>2
  <2>3. PipeTypeOK'
    BY <1>1, <2>1, <2>2 DEF PipeTypeOK, PipeRecord, ScanRecord
  <2>4. EntriesInv'
    BY <1>1, <2>1 DEF EntriesInv
  <2>5. ScanInv'
    BY <2>1 DEF ScanInv, NoScan
  <2> QED
    BY <2>3, <2>4, <2>5 DEF TablesInv
<1>6. ASSUME NEW c \in Calls, Kill(c) PROVE TablesInv'
  <2>1. /\ call[c].state = "waiting" /\ call' = [call EXCEPT ![c] = Over]
        /\ UNCHANGED <<pipes, pending, next_badge, next_id, scan, gone, owed>>
    BY <1>6 DEF Kill, Reply
  <2>2. call' \in [Calls -> CallRecord] /\ \A d \in Calls : call'[d] = call[d] \/ call'[d] = Over
    BY <1>1, <2>1
  <2>3. PipeTypeOK'
    BY <1>1, <2>1, <2>2 DEF PipeTypeOK, CallRecord
  <2>4. EntriesInv'
    <3>1. Over.state = "over"
      BY DEF Over
    <3> QED
      BY <1>1, <2>1, <2>2, <3>1 DEF EntriesInv
  <2>5. ScanInv'
    BY <1>1, <2>1 DEF ScanInv
  <2> QED
    BY <2>3, <2>4, <2>5 DEF TablesInv
<1> QED
  BY <1>2, <1>3, <1>4, <1>5, <1>6

LEMMA CloseTables ==
  ASSUME TablesInv, NEW b \in 1 .. MaxBadge, NEW i \in Slots, Closes(b, i), scan = NoScan,
         gone' = gone \cup {b}, UNCHANGED <<next_badge, next_id, call, owed>>
  PROVE  TablesInv'
<1>1. /\ pipes \in [Slots -> PipeRecord] /\ pending \in [Entries -> Entry] /\ call \in [Calls -> CallRecord]
      /\ NPending \in Nat /\ Free \in Entry /\ Free.badge = 0 /\ MaxBadge \in Nat
      /\ PipeTypeOK /\ EntriesInv
  BY Types DEF TablesInv
<1>2. /\ pipes' = [pipes EXCEPT ![i].read_badge = 0] \/ pipes' = [pipes EXCEPT ![i].write_badge = 0]
      /\ pending' = [j \in Entries |-> IF pending[j].badge = b THEN Free ELSE pending[j]]
      /\ scan' = [round |-> 1, pipe |-> i, slot |-> 1, gone |-> i] /\ pipes[i].id # 0
  BY DEF Closes
<1>3. pipes' \in [Slots -> PipeRecord] /\ pipes'[i].id = pipes[i].id
  <2> DEFINE p == [pipes[i] EXCEPT !.read_badge = 0]
             q == [pipes[i] EXCEPT !.write_badge = 0]
  <2>1. p \in PipeRecord /\ q \in PipeRecord /\ p.id = pipes[i].id /\ q.id = pipes[i].id
    <3>1. pipes[i] \in PipeRecord /\ 0 \in 0 .. MaxBadge
      BY <1>1
    <3> QED
      BY <3>1 DEF PipeRecord
  <2>2. pipes' = [pipes EXCEPT ![i] = p] \/ pipes' = [pipes EXCEPT ![i] = q]
    BY <1>1, <1>2
  <2> HIDE DEF p, q
  <2> QED
    BY <1>1, <2>1, <2>2
<1>4. pending' \in [Entries -> Entry] /\ \A j \in Entries : pending'[j].badge # 0 => pending'[j] = pending[j]
  BY <1>1, <1>2
<1>5. scan' \in ScanRecord /\ scan'.round = 1 /\ scan'.pipe = i /\ scan'.gone = i
  BY <1>1, <1>2 DEF ScanRecord
<1>6. PipeTypeOK'
  BY <1>1, <1>3, <1>4, <1>5 DEF PipeTypeOK, PipeRecord, Entry, ScanRecord
<1>7. EntriesInv'
  BY <1>1, <1>4 DEF EntriesInv
<1>8. ScanInv'
  BY <1>2, <1>3, <1>5 DEF ScanInv
<1> QED
  BY <1>6, <1>7, <1>8 DEF TablesInv

\* Every step is one of five kinds.
LEMMA Kinds ==
  ASSUME TablesInv, PipeNext
  PROVE  \/ \E i \in Slots, j \in Entries : SettleStep(i, j) /\ Answers(i, j)
         \/ \E c \in Calls, b \in 1 .. MaxBadge : Asks(c, b)
         \/ \E i \in Slots : Opens(i) \/ PipeAttach(i) \/ SettleEnd(i)
         \/ FreePipe
         \/ \E c \in Calls : Kill(c)
         \/ \E b \in 1 .. MaxBadge :
              /\ scan = NoScan /\ gone' = gone \cup {b} /\ UNCHANGED <<next_badge, next_id, call, owed>>
              /\ UNCHANGED <<pipes, pending, scan>> \/ \E i \in Slots : Closes(b, i)
<1>1. PipeTypeOK
  BY DEF TablesInv
<1>2. CASE PipeOpen
  BY <1>1, <1>2, OpenOpens
<1>3. ASSUME NEW i \in Slots, NEW j \in Entries, SettleStep(i, j)
      PROVE  SettleStep(i, j) /\ Answers(i, j)
  BY <1>3, SettleAnswers
<1>4. ASSUME NEW c \in Calls, NEW b \in 1 .. MaxBadge, NEW n \in 0 .. PipeSize, StRead(c, b, n) \/ StWrite(c, b, n)
      PROVE  Asks(c, b)
  BY <1>1, <1>4, RequestAsks
<1>5. ASSUME NEW b \in 1 .. MaxBadge, PipeClientGone(b)
      PROVE  /\ scan = NoScan /\ gone' = gone \cup {b} /\ UNCHANGED <<next_badge, next_id, call, owed>>
             /\ UNCHANGED <<pipes, pending, scan>> \/ \E i \in Slots : Closes(b, i)
  BY <1>5, GoneCloses
<1> QED
  BY <1>2, <1>3, <1>4, <1>5, Zenon DEF PipeNext, SettleStep

LEMMA NextTables == TablesInv /\ [PipeNext]_pipe_vars => TablesInv'
<1> SUFFICES ASSUME TablesInv, [PipeNext]_pipe_vars PROVE TablesInv'
  OBVIOUS
<1>1. CASE UNCHANGED pipe_vars
  BY <1>1 DEF pipe_vars, TablesInv, PipeTypeOK, EntriesInv, ScanInv
<1>2. ASSUME NEW b \in 1 .. MaxBadge, gone' = gone \cup {b}, UNCHANGED <<pipes, pending, scan, next_badge, next_id, call, owed>>
      PROVE  TablesInv'
  <2>1. PipeTypeOK'
    BY <1>2 DEF TablesInv, PipeTypeOK
  <2> QED
    BY <1>2, <2>1 DEF TablesInv, EntriesInv, ScanInv
<1>3. CASE PipeNext
  BY <1>2, <1>3, Kinds, SettleTables, AskTables, OtherTables, CloseTables
<1> QED
  BY <1>1, <1>3

LEMMA AlwaysTables == PipeSpec => []TablesInv
  BY InitTables, NextTables, PTL DEF PipeSpec
-----------------------------------------------------------------------------
(* Waiting calls.                                                            *)

\* Whoever waits has an entry.
HasEntry == \A c \in Calls : call[c].state = "waiting" /\ call[c].badge \notin gone =>
                             \E j \in Entries : pending[j].badge # 0 /\ pending[j].call = c

LEMMA NextHasEntry == TablesInv /\ HasEntry /\ [PipeNext]_pipe_vars => HasEntry'
<1> SUFFICES ASSUME TablesInv, HasEntry, [PipeNext]_pipe_vars PROVE HasEntry'
  OBVIOUS
<1>1. /\ pending \in [Entries -> Entry] /\ call \in [Calls -> CallRecord]
      /\ Free.badge = 0 /\ Over.state = "over" /\ EntriesInv
  BY Types DEF TablesInv, Over
<1>2. CASE UNCHANGED <<pending, call>> /\ gone \subseteq gone'
  BY <1>2 DEF HasEntry
<1>3. ASSUME NEW i \in Slots, NEW j \in Entries, Answers(i, j) PROVE HasEntry'
  <2>1. /\ pending' = [pending EXCEPT ![j] = Free] /\ call' = [call EXCEPT ![pending[j].call] = Over]
        /\ gone' = gone /\ pending[j].badge # 0
    BY <1>3 DEF Answers
  <2>2. ASSUME NEW c \in Calls, call'[c].state = "waiting", call'[c].badge \notin gone'
        PROVE  \E k \in Entries : pending'[k].badge # 0 /\ pending'[k].call = c
    <3>1. c # pending[j].call /\ call'[c] = call[c]
      BY <1>1, <2>1, <2>2
    <3>2. PICK k \in Entries : pending[k].badge # 0 /\ pending[k].call = c
      BY <2>1, <2>2, <3>1 DEF HasEntry
    <3>3. pending'[k] = pending[k]
      BY <1>1, <2>1, <3>1, <3>2
    <3> QED
      BY <3>2, <3>3
  <2> QED
    BY <2>2 DEF HasEntry
<1>4. ASSUME NEW c \in Calls, NEW b \in 1 .. MaxBadge, Asks(c, b) PROVE HasEntry'
  <2>1. CASE Queued(c, b)
    <3>1. PICK f \in Entries, op \in {"read", "write"}, max \in 0 .. PipeSize :
            /\ pending[f].badge = 0
            /\ pending' = [pending EXCEPT ![f] = [badge |-> b, call |-> c, op |-> op, max |-> max]]
            /\ call' = [call EXCEPT ![c] = [state |-> "waiting", badge |-> b]]
      BY <2>1 DEF Queued
    <3>2. /\ pending'[f].badge # 0 /\ pending'[f].call = c
          /\ \A k \in Entries : k # f => pending'[k] = pending[k]
          /\ \A d \in Calls : d # c => call'[d] = call[d]
      BY <1>1, <3>1
    <3>3. gone' = gone
      BY <1>4 DEF Asks
    <3>4. ASSUME NEW d \in Calls, call'[d].state = "waiting", call'[d].badge \notin gone'
          PROVE  \E k \in Entries : pending'[k].badge # 0 /\ pending'[k].call = d
      <4>1. CASE d = c
        BY <3>2, <4>1
      <4>2. CASE d # c
        <5>1. PICK k \in Entries : pending[k].badge # 0 /\ pending[k].call = d
          BY <3>2, <3>3, <3>4, <4>2 DEF HasEntry
        <5> QED
          BY <3>1, <3>2, <5>1
      <4> QED
        BY <4>1, <4>2
    <3> QED
      BY <3>4 DEF HasEntry
  <2>2. CASE call' = [call EXCEPT ![c] = Over] /\ UNCHANGED <<pending, scan>>
    <3>1. gone' = gone /\ pending' = pending
      BY <1>4, <2>2 DEF Asks
    <3>2. \A d \in Calls : call'[d].state = "waiting" => call'[d] = call[d]
      BY <1>1, <2>2
    <3> QED
      BY <3>1, <3>2 DEF HasEntry
  <2> QED
    BY <1>4, <2>1, <2>2 DEF Asks
<1>5. CASE \/ \E i \in Slots : Opens(i) \/ PipeAttach(i) \/ SettleEnd(i)
           \/ FreePipe
  <2>1. UNCHANGED <<pending, call, gone>>
    BY <1>5 DEF Opens, PipeAttach, SettleEnd, FreePipe
  <2> QED
    BY <1>2, <2>1
<1>6. ASSUME NEW c \in Calls, Kill(c) PROVE HasEntry'
  <2>1. call' = [call EXCEPT ![c] = Over] /\ UNCHANGED <<pending, gone>>
    BY <1>6 DEF Kill, Reply
  <2>2. \A d \in Calls : call'[d].state = "waiting" => call'[d] = call[d]
    BY <1>1, <2>1
  <2> QED
    BY <2>1, <2>2 DEF HasEntry
<1>7. ASSUME NEW b \in 1 .. MaxBadge, NEW i \in Slots, Closes(b, i), gone' = gone \cup {b}, call' = call PROVE HasEntry'
  <2>1. pending' = [j \in Entries |-> IF pending[j].badge = b THEN Free ELSE pending[j]]
    BY <1>7 DEF Closes
  <2>2. ASSUME NEW c \in Calls, call[c].state = "waiting", call[c].badge \notin gone'
        PROVE  \E k \in Entries : pending'[k].badge # 0 /\ pending'[k].call = c
    <3>1. PICK k \in Entries : pending[k].badge # 0 /\ pending[k].call = c
      BY <1>7, <2>2 DEF HasEntry
    <3>2. pending[k].badge # b
      BY <1>1, <1>7, <2>2, <3>1 DEF EntriesInv
    <3> QED
      BY <2>1, <3>1, <3>2
  <2> QED
    BY <1>7, <2>2 DEF HasEntry
<1>8. CASE PipeNext
  BY <1>2, <1>3, <1>4, <1>5, <1>6, <1>7, <1>8, Kinds
<1> QED
  BY <1>2, <1>8 DEF pipe_vars

LEMMA NextPendingIsOpen == TablesInv /\ PendingIsOpen /\ [PipeNext]_pipe_vars => PendingIsOpen'
<1> SUFFICES ASSUME TablesInv, PendingIsOpen, [PipeNext]_pipe_vars PROVE PendingIsOpen'
  OBVIOUS
<1>1. /\ pending \in [Entries -> Entry] /\ pipes \in [Slots -> PipeRecord] /\ Free.badge = 0
      /\ scan \in ScanRecord
  BY Types DEF TablesInv
\* It is enough that no entry changes but to be freed, and that no end of one closes.
<1>2. ASSUME \A j \in Entries : pending'[j].badge # 0 => pending'[j] = pending[j],
             \A j \in Entries, s \in Slots : pending'[j].badge # 0 =>
               /\ s \in ReadEnds(pending[j].badge) => s \in ReadEnds(pending[j].badge)'
               /\ s \in WriteEnds(pending[j].badge) => s \in WriteEnds(pending[j].badge)'
      PROVE  PendingIsOpen'
  <2> SUFFICES ASSUME NEW j \in Entries, pending'[j].badge # 0
               PROVE  IF pending'[j].op = "read" THEN ReadEnds(pending[j].badge)' # {} ELSE WriteEnds(pending[j].badge)' # {}
    BY <1>2 DEF PendingIsOpen, ReadEnds, WriteEnds
  <2>1. IF pending[j].op = "read" THEN ReadEnds(pending[j].badge) # {} ELSE WriteEnds(pending[j].badge) # {}
    BY <1>2 DEF PendingIsOpen
  <2>2. ReadEnds(pending[j].badge) \subseteq Slots /\ WriteEnds(pending[j].badge) \subseteq Slots
    BY DEF ReadEnds, WriteEnds
  <2> QED
    BY <1>2, <2>1, <2>2
<1>3. CASE UNCHANGED <<pending, pipes>>
  BY <1>3 DEF PendingIsOpen, ReadEnds, WriteEnds
<1>4. ASSUME NEW i \in Slots, NEW j \in Entries, Answers(i, j) PROVE PendingIsOpen'
  <2>1. \A k \in Entries : pending'[k].badge # 0 => pending'[k] = pending[k]
    BY <1>1, <1>4 DEF Answers
  <2>2. \A s \in Slots : /\ pipes'[s].id = pipes[s].id /\ pipes'[s].read_badge = pipes[s].read_badge
                         /\ pipes'[s].write_badge = pipes[s].write_badge
    BY <1>4 DEF Answers
  <2> QED
    BY <1>2, <2>1, <2>2 DEF ReadEnds, WriteEnds
<1>5. ASSUME NEW c \in Calls, NEW b \in 1 .. MaxBadge, Asks(c, b) PROVE PendingIsOpen'
  <2>1. pipes' = pipes
    BY <1>5 DEF Asks
  <2>2. CASE Queued(c, b)
    <3>1. PICK f \in Entries, op \in {"read", "write"}, max \in 0 .. PipeSize :
            /\ pending' = [pending EXCEPT ![f] = [badge |-> b, call |-> c, op |-> op, max |-> max]]
            /\ IF op = "read" THEN ReadEnds(b) # {} ELSE WriteEnds(b) # {}
      BY <2>2 DEF Queued
    <3>2. /\ pending'[f].badge = b /\ pending'[f].op = op
          /\ \A k \in Entries : k # f => pending'[k] = pending[k]
      BY <1>1, <3>1
    <3> QED
      BY <2>1, <3>1, <3>2 DEF PendingIsOpen, ReadEnds, WriteEnds
  <2> QED
    BY <1>3, <1>5, <2>1, <2>2 DEF Asks
<1>6. ASSUME NEW i \in Slots, Opens(i) PROVE PendingIsOpen'
  <2>1. pending' = pending /\ pipes[i].id = 0 /\ \A s \in Slots : s # i => pipes'[s] = pipes[s]
    BY <1>1, <1>6 DEF Opens
  <2> QED
    BY <1>2, <2>1 DEF ReadEnds, WriteEnds
<1>7. ASSUME NEW i \in Slots, PipeAttach(i) PROVE PendingIsOpen'
  <2>1. /\ pending' = pending /\ pipes[i].write_badge = 0
        /\ pipes' = [pipes EXCEPT ![i].write_badge = next_badge'] \/ pipes' = pipes
    BY <1>7 DEF PipeAttach
  <2>2. \A s \in Slots : /\ pipes'[s].id = pipes[s].id /\ pipes'[s].read_badge = pipes[s].read_badge
                         /\ s # i => pipes'[s].write_badge = pipes[s].write_badge
    BY <1>1, <2>1 DEF PipeRecord
  <2> QED
    BY <1>2, <2>1, <2>2 DEF ReadEnds, WriteEnds
<1>8. CASE (\E i \in Slots : SettleEnd(i)) \/ \E c \in Calls : Kill(c)
  <2>1. UNCHANGED <<pending, pipes>>
    BY <1>8 DEF SettleEnd, Kill
  <2> QED
    BY <1>3, <2>1
<1>9. CASE FreePipe
  <2> DEFINE g == scan.gone
  <2>1. /\ pending' = pending /\ g \in Slots
        /\ \/ pipes' = pipes
           \/ pipes[g].read_badge = 0 /\ pipes[g].write_badge = 0 /\ pipes' = [pipes EXCEPT ![g].id = 0]
    BY <1>1, <1>9 DEF FreePipe, ScanRecord
  <2> HIDE DEF g
  <2>2. CASE pipes[g].read_badge = 0 /\ pipes[g].write_badge = 0 /\ pipes' = [pipes EXCEPT ![g].id = 0]
    <3>1. \A s \in Slots : s # g => pipes'[s] = pipes[s]
      BY <1>1, <2>2
    <3> QED
      BY <1>2, <2>1, <2>2, <3>1 DEF ReadEnds, WriteEnds
  <2> QED
    BY <1>3, <2>1, <2>2
<1>10. ASSUME NEW b \in 1 .. MaxBadge, NEW i \in Slots, Closes(b, i) PROVE PendingIsOpen'
  <2>1. \A j \in Entries : pending'[j].badge # 0 => pending'[j] = pending[j] /\ pending[j].badge # b
    BY <1>1, <1>10 DEF Closes
  <2>2. \A s \in Slots : s # i => pipes'[s] = pipes[s]
    BY <1>1, <1>10 DEF Closes
  <2>3. /\ pipes'[i].id = pipes[i].id
        /\ pipes'[i].read_badge = pipes[i].read_badge \/ pipes[i].read_badge = b
        /\ pipes'[i].write_badge = pipes[i].write_badge \/ pipes[i].write_badge = b
    BY <1>1, <1>10 DEF Closes, PipeRecord
  <2> QED
    BY <1>2, <2>1, <2>2, <2>3 DEF ReadEnds, WriteEnds
<1>11. CASE PipeNext
  BY <1>3, <1>4, <1>5, <1>6, <1>7, <1>8, <1>9, <1>10, <1>11, Kinds
<1> QED
  BY <1>3, <1>11 DEF pipe_vars

LEMMA OneEntry ==
  ASSUME TablesInv, NEW c \in Calls
  PROVE  Cardinality({j \in Entries : pending[j].badge # 0 /\ pending[j].call = c}) <= 1
<1> DEFINE S == {j \in Entries : pending[j].badge # 0 /\ pending[j].call = c}
<1>1. \A j, k \in S : j = k
  BY DEF TablesInv, EntriesInv
<1> SUFFICES Cardinality(S) <= 1
  OBVIOUS
<1> HIDE DEF S
<1>2. CASE S = {}
  BY <1>2, FS_EmptySet
<1>3. CASE S # {}
  <2>1. PICK j : j \in S
    BY <1>3
  <2>2. S = {j}
    BY <1>1, <2>1
  <2>3. Cardinality({j}) = 1
    BY FS_Singleton
  <2> QED
    BY <2>2, <2>3
<1> QED
  BY <1>2, <1>3
-----------------------------------------------------------------------------
(* Two rounds are enough.                                                    *)

Reader(i, j) == pending[j].badge # 0 /\ AnswerReader(i, j)
Writer(i, j) == pending[j].badge # 0 /\ AnswerWriter(i, j)

\* The requests that wait at pipe i are all reads or all writes.
OneKind(i) == (\A j \in Entries : ~Reader(i, j)) \/ (\A j \in Entries : ~Writer(i, j))

\* The rounds of settle that pipe i still gets, and the entries the current one has passed.
Left(i) ==
  IF scan.gone # 0 THEN (IF i = scan.gone THEN scan.round ELSE 0)
  ELSE IF scan.round = 0 THEN 0 ELSE IF i >= scan.pipe THEN scan.round ELSE scan.round - 1
Passed(i) == {k \in Entries : scan.round # 0 /\ i = scan.pipe /\ k < scan.slot}

\* With two rounds to go, all that wait are of one kind but for one that is still ahead
\* and alone can be answered; with one, all are of one kind and none that was passed can
\* be answered; with none, none can.
TwoLeft(i) == OneKind(i) \/ \E j \in Entries \ Passed(i) : \A k \in Entries \ {j} : ~Answerable(i, k)
OneLeft(i) == OneKind(i) /\ \A k \in Passed(i) : ~Answerable(i, k)
NoneLeft(i) == \A k \in Entries : ~Answerable(i, k)

Settles(i) ==
  /\ Left(i) = 2 => TwoLeft(i)
  /\ Left(i) = 1 => OneLeft(i)
  /\ Left(i) = 0 => NoneLeft(i)

SettlesInv == \A i \in Slots : pipes[i].id # 0 => Settles(i)

\* What cannot be answered: readers wait at an empty ring, writers at one without room.
LEMMA Waiting ==
  ASSUME PipeTypeOK, NEW i \in Slots, NEW k \in Entries
  PROVE  /\ pipes[i].count \in 0 .. PipeSize /\ pending[k].max \in 0 .. PipeSize /\ PipeSize \in Nat \ {0}
         /\ Answerable(i, k) => Reader(i, k) \/ Writer(i, k)
         /\ ~(Reader(i, k) /\ Writer(i, k))
         /\ Reader(i, k) /\ ~Answerable(i, k) => pipes[i].count = 0 /\ pipes[i].write_badge # 0
         /\ Writer(i, k) /\ ~Answerable(i, k) =>
              pipes[i].count # 0 /\ pipes[i].read_badge # 0 /\ pipes[i].count + pending[k].max > PipeSize
         /\ Answerable(i, k) /\ Reader(i, k) => pipes[i].count # 0 \/ pipes[i].write_badge = 0
         /\ Answerable(i, k) /\ Writer(i, k) => pipes[i].read_badge = 0 \/ Fits(pipes[i], pending[k].max)
<1>1. pipes[i] \in PipeRecord /\ pending[k] \in Entry /\ PipeSize \in Nat \ {0}
  BY Types
<1>2. pipes[i].count \in 0 .. PipeSize /\ pending[k].max \in 0 .. PipeSize
  BY <1>1 DEF PipeRecord, Entry
<1> QED
  BY <1>1, <1>2 DEF Answerable, Reader, Writer, AnswerReader, AnswerWriter, Fits

\* Two that cannot be answered are of one kind.
LEMMA SameKind ==
  ASSUME PipeTypeOK, NEW i \in Slots, NEW j \in Entries, \A k \in Entries \ {j} : ~Answerable(i, k)
  PROVE  \/ \A k \in Entries \ {j} : ~Reader(i, k)
         \/ \A k \in Entries \ {j} : ~Writer(i, k)
  BY Waiting

LEMMA QuietIsOneKind ==
  ASSUME PipeTypeOK, NEW i \in Slots, \A k \in Entries : ~Answerable(i, k)
  PROVE  OneKind(i)
  BY Waiting DEF OneKind

LEMMA SettleSettles ==
  ASSUME TablesInv, SettlesInv, NEW i \in Slots, NEW j \in Entries, SettleStep(i, j), Answers(i, j)
  PROVE  SettlesInv'
<1>1. /\ pending \in [Entries -> Entry] /\ pipes \in [Slots -> PipeRecord] /\ scan \in ScanRecord
      /\ Free.badge = 0 /\ NPending \in Nat /\ PipeTypeOK /\ ScanInv
  BY Types DEF TablesInv
<1>2. /\ scan.round # 0 /\ i = scan.pipe /\ pipes[i].id # 0 /\ j \in scan.slot .. NPending
      /\ Answerable(i, j) /\ \A k \in scan.slot .. j - 1 : ~Answerable(i, k)
      /\ pending' = [pending EXCEPT ![j] = Free] /\ scan' = [scan EXCEPT !.slot = j + 1]
      /\ \A k \in Slots : k # i => pipes'[k] = pipes[k]
      /\ pipes'[i].id = pipes[i].id /\ pipes'[i].read_badge = pipes[i].read_badge
      /\ pipes'[i].write_badge = pipes[i].write_badge
  BY DEF Answers
<1>3. /\ scan'.round = scan.round /\ scan'.pipe = scan.pipe /\ scan'.gone = scan.gone /\ scan'.slot = j + 1
      /\ scan.slot \in Nat /\ scan.round \in {1, 2}
  BY <1>1, <1>2 DEF ScanRecord
<1>4. \A s \in Slots : Left(s)' = Left(s)
  BY <1>3 DEF Left
<1>5. Left(i) \in {1, 2}
  BY <1>1, <1>2, <1>3 DEF Left, ScanInv, Slots
<1>6. \A k \in Entries : k # j => pending'[k] = pending[k]
  BY <1>1, <1>2
<1>7. pending'[j].badge = 0
  BY <1>1, <1>2
<1>8. ASSUME NEW s \in Slots, NEW k \in Entries
      PROVE  /\ Reader(s, k)' => k # j /\ Reader(s, k)
             /\ Writer(s, k)' => k # j /\ Writer(s, k)
  BY <1>2, <1>6, <1>7 DEF Reader, Writer, AnswerReader, AnswerWriter
\* Answering an entry leaves readers and writers only where there were some.
<1>9. ASSUME NEW s \in Slots
      PROVE  /\ (\A k \in Entries \ {j} : ~Reader(s, k)) => OneKind(s)'
             /\ (\A k \in Entries \ {j} : ~Writer(s, k)) => OneKind(s)'
  <2>1. ASSUME \A k \in Entries \ {j} : ~Reader(s, k) PROVE OneKind(s)'
    <3>1. ASSUME NEW k \in Entries PROVE ~Reader(s, k)'
      BY <1>8, <2>1
    <3> QED
      BY <3>1 DEF OneKind
  <2>2. ASSUME \A k \in Entries \ {j} : ~Writer(s, k) PROVE OneKind(s)'
    <3>1. ASSUME NEW k \in Entries PROVE ~Writer(s, k)'
      BY <1>8, <2>2
    <3> QED
      BY <3>1 DEF OneKind
  <2> QED
    BY <2>1, <2>2
<1>10. \A s \in Slots : OneKind(s) => OneKind(s)'
  BY <1>9 DEF OneKind
<1>11. ASSUME NEW s \in Slots, s # i, pipes'[s].id # 0 PROVE Settles(s)'
  <2>1. \A k \in Entries : Answerable(s, k)' => Answerable(s, k)
    BY <1>2, <1>6, <1>7, <1>11 DEF Answerable, AnswerReader, AnswerWriter, Fits
  <2>2. Passed(s) = {} /\ Passed(s)' = {}
    BY <1>2, <1>3, <1>11 DEF Passed
  <2>3. Settles(s)
    BY <1>2, <1>11 DEF SettlesInv
  <2>4. TwoLeft(s) => TwoLeft(s)'
    BY <1>10, <2>1, <2>2 DEF TwoLeft
  <2>5. OneLeft(s) => OneLeft(s)'
    BY <1>10, <2>1, <2>2 DEF OneLeft
  <2>6. NoneLeft(s) => NoneLeft(s)'
    BY <2>1 DEF NoneLeft
  <2> QED
    BY <1>4, <2>3, <2>4, <2>5, <2>6 DEF Settles
<1>12. ASSUME Left(i) = 2 PROVE Settles(i)'
  <2>1. OneKind(i) \/ \E k \in Entries : \A m \in Entries \ {k} : ~Answerable(i, m)
    BY <1>2, <1>12 DEF SettlesInv, Settles, TwoLeft
  <2>2. OneKind(i)'
    <3>1. CASE OneKind(i)
      BY <1>10, <3>1
    <3>2. CASE \E k \in Entries : \A m \in Entries \ {k} : ~Answerable(i, m)
      <4>1. \A m \in Entries \ {j} : ~Answerable(i, m)
        BY <1>2, <3>2
      <4>2. \/ \A k \in Entries \ {j} : ~Reader(i, k)
            \/ \A k \in Entries \ {j} : ~Writer(i, k)
        BY <1>1, <4>1, SameKind
      <4> QED
        BY <1>9, <4>2
    <3> QED
      BY <2>1, <3>1, <3>2
  <2>3. TwoLeft(i)'
    BY <2>2 DEF TwoLeft
  <2>4. Left(i)' = 2
    BY <1>4, <1>12
  <2> QED
    BY <2>3, <2>4 DEF Settles
<1>13. ASSUME Left(i) = 1 PROVE Settles(i)'
  <2>1. OneKind(i) /\ \A k \in Passed(i) : ~Answerable(i, k)
    BY <1>2, <1>13 DEF SettlesInv, Settles, OneLeft
  <2>2. ASSUME NEW k \in Entries, k < j + 1 PROVE ~Answerable(i, k)'
    <3>1. CASE k = j
      BY <1>7, <3>1 DEF Answerable
    <3>2. CASE k # j
      <4>1. k \in Nat /\ k < j
        BY <1>1, <2>2, <3>2 DEF Entries
      <4>2. ~Answerable(i, k)
        <5>1. CASE k < scan.slot
          BY <1>2, <2>1, <5>1 DEF Passed
        <5>2. CASE k >= scan.slot
          BY <1>1, <1>2, <1>3, <4>1, <5>2 DEF Entries
        <5> QED
          BY <1>3, <4>1, <5>1, <5>2
      <4>3. pending'[k] = pending[k]
        BY <1>6, <3>2
      <4>4. CASE SettleRead(i, j)
        <5>1. Reader(i, j) /\ pipes[i].count # 0
          BY <1>2, <4>4 DEF SettleRead, Reader, Answerable
        <5>2. ~Writer(i, k)
          BY <2>1, <5>1 DEF OneKind
        <5>3. ~Reader(i, k)
          BY <1>1, <4>2, <5>1, Waiting
        <5> QED
          BY <1>2, <4>3, <5>2, <5>3 DEF Answerable, Reader, Writer, AnswerReader, AnswerWriter
      <4>5. CASE SettleWrite(i, j)
        <5>1. Writer(i, j) /\ pipes'[i].count = pipes[i].count + pending[j].max
          <6>1. Writer(i, j)
            BY <1>2, <4>5 DEF SettleWrite, Writer, Answerable
          <6>2. \E b : pipes' = [pipes EXCEPT ![i].count = @ + pending[j].max, ![i].buf = b]
            BY <4>5 DEF SettleWrite
          <6>3. pipes \in [Slots -> PipeRecord] /\ i \in Slots
            BY <1>1, <1>2
          <6> QED
            BY <6>1, <6>2, <6>3 DEF PipeRecord
        <5>2. ~Reader(i, k)
          BY <2>1, <5>1 DEF OneKind
        <5>3. Writer(i, k) => pipes[i].read_badge # 0 /\ pipes[i].count + pending[k].max > PipeSize
          BY <1>1, <4>2, Waiting
        <5>4. pipes[i].count \in Nat /\ pending[j].max \in Nat /\ pending[k].max \in Nat /\ PipeSize \in Nat
          BY <1>1, Waiting
        <5>5. Writer(i, k) => ~Fits(pipes'[i], pending'[k].max)
          BY <4>3, <5>1, <5>3, <5>4 DEF Fits
        <5> QED
          BY <1>2, <4>3, <5>2, <5>3, <5>5 DEF Answerable, Reader, Writer, AnswerReader, AnswerWriter
      <4>6. CASE SettleEof(i, j) \/ SettlePeerGone(i, j)
        <5>1. pipes' = pipes
          BY <4>6 DEF SettleEof, SettlePeerGone
        <5> QED
          BY <4>2, <4>3, <5>1 DEF Answerable, AnswerReader, AnswerWriter
      <4> QED
        BY <4>4, <4>5, <4>6 DEF SettleStep
    <3> QED
      BY <3>1, <3>2
  <2>3. \A k \in Passed(i)' : k \in Entries /\ k < j + 1
    BY <1>3 DEF Passed
  <2>4. OneKind(i)'
    BY <1>10, <2>1
  <2>5. OneLeft(i)'
    BY <2>2, <2>3, <2>4 DEF OneLeft
  <2>6. Left(i)' = 1
    BY <1>4, <1>13
  <2> QED
    BY <2>5, <2>6 DEF Settles
<1> QED
  BY <1>5, <1>11, <1>12, <1>13 DEF SettlesInv

\* Between requests nothing can be answered.
LEMMA IdleIsQuiet ==
  ASSUME SettlesInv, scan = NoScan, NEW i \in Slots, pipes[i].id # 0
  PROVE  Left(i) = 0 /\ \A k \in Entries : ~Answerable(i, k)
<1>1. Left(i) = 0
  BY DEF Left, NoScan
<1> QED
  BY <1>1 DEF SettlesInv, Settles, NoneLeft

LEMMA AskSettles ==
  ASSUME TablesInv, SettlesInv, NEW c \in Calls, NEW b \in 1 .. MaxBadge, Asks(c, b)
  PROVE  SettlesInv'
<1>1. pending \in [Entries -> Entry] /\ NPending \in Nat /\ NPipes \in Nat
  BY Types DEF TablesInv
<1>2. scan = NoScan /\ pipes' = pipes
  BY DEF Asks
<1>3. CASE UNCHANGED <<pending, scan>>
  BY <1>2, <1>3 DEF SettlesInv, Settles, TwoLeft, OneLeft, NoneLeft, Left, Passed, OneKind, Reader, Writer, Answerable, AnswerReader, AnswerWriter
<1>4. CASE Queued(c, b)
  <2>1. PICK f \in Entries, op \in {"read", "write"}, max \in 0 .. PipeSize :
          /\ pending' = [pending EXCEPT ![f] = [badge |-> b, call |-> c, op |-> op, max |-> max]]
          /\ scan' = [round |-> 2, pipe |-> 1, slot |-> 1, gone |-> 0]
    BY <1>4 DEF Queued
  <2>2. scan'.round = 2 /\ scan'.pipe = 1 /\ scan'.slot = 1 /\ scan'.gone = 0
    BY <2>1
  <2>3. \A k \in Entries : k # f => pending'[k] = pending[k]
    BY <1>1, <2>1
  <2>4. ASSUME NEW i \in Slots, pipes'[i].id # 0 PROVE Settles(i)'
    <3>1. Left(i)' = 2
      BY <1>1, <2>2 DEF Left, Slots
    <3>2. Passed(i)' = {}
      BY <1>1, <2>2 DEF Passed, Entries
    <3>3. \A k \in Entries \ {f} : ~Answerable(i, k)'
      BY <1>2, <2>3, <2>4, IdleIsQuiet DEF Answerable, AnswerReader, AnswerWriter
    <3>4. TwoLeft(i)'
      BY <3>2, <3>3 DEF TwoLeft
    <3> QED
      BY <3>1, <3>4 DEF Settles
  <2> QED
    BY <2>4 DEF SettlesInv
<1> QED
  BY <1>3, <1>4 DEF Asks

\* A pipe that is not touched, and of whose entries at most some are freed, stays as it was.
LEMMA OtherSettles ==
  ASSUME TablesInv, NEW i \in Slots, NoneLeft(i), pipes'[i] = pipes[i],
         \A k \in Entries : pending'[k] = pending[k] \/ pending'[k].badge = 0
  PROVE  NoneLeft(i)'
<1> SUFFICES ASSUME NEW k \in Entries, Answerable(i, k)' PROVE FALSE
  BY DEF NoneLeft
<1>1. pending'[k] = pending[k]
  BY DEF Answerable
<1>2. ~Answerable(i, k)
  BY DEF NoneLeft
<1> QED
  BY <1>1, <1>2 DEF Answerable, AnswerReader, AnswerWriter

LEMMA OpenSettles ==
  ASSUME TablesInv, SettlesInv, NEW i \in Slots, Opens(i) \/ PipeAttach(i)
  PROVE  SettlesInv'
<1>1. /\ pending \in [Entries -> Entry] /\ pipes \in [Slots -> PipeRecord] /\ NoPipe \in PipeRecord
      /\ next_badge \in Nat /\ scan = NoScan /\ scan' = scan /\ pending' = pending
  BY Types DEF TablesInv, Opens, PipeAttach
<1>2. \A k \in Entries : pending[k].badge # 0 => pending[k].badge # next_badge + 1
  BY <1>1 DEF TablesInv, EntriesInv
<1>3. \A s \in Slots : s # i => pipes'[s] = pipes[s]
  BY <1>1 DEF Opens, PipeAttach
<1>4. ASSUME NEW s \in Slots, pipes'[s].id # 0 PROVE NoneLeft(s)'
  <2>1. CASE pipes'[s] = pipes[s]
    <3>1. NoneLeft(s)
      BY <1>1, <1>4, <2>1, IdleIsQuiet DEF NoneLeft
    <3> QED
      BY <1>1, <2>1, <3>1, OtherSettles
  <2>2. CASE s = i /\ Opens(i)
    <3>0. PICK n \in {0, next_id + 1} :
            pipes' = [pipes EXCEPT ![i] = [NoPipe EXCEPT !.id = n, !.read_badge = next_badge + 1]]
      BY <2>2 DEF Opens
    <3>1. pipes'[i].read_badge = next_badge + 1 /\ pipes'[i].write_badge = 0
      BY <1>1, <3>0 DEF NoPipe
    <3> QED
      BY <1>1, <1>2, <2>2, <3>1 DEF NoneLeft, Answerable, AnswerReader, AnswerWriter
  <2>3. CASE s = i /\ PipeAttach(i) /\ pipes' # pipes
    <3>1. /\ pipes[i].id # 0 /\ pipes[i].write_badge = 0
          /\ pipes' = [pipes EXCEPT ![i].write_badge = next_badge + 1]
      BY <2>3 DEF PipeAttach
    <3>2. pipes'[i].read_badge = pipes[i].read_badge /\ pipes'[i].write_badge = next_badge + 1
      BY <1>1, <3>1 DEF PipeRecord
    <3>3. \A k \in Entries : ~Answerable(i, k)
      BY <1>1, <3>1, IdleIsQuiet
    <3>4. \A k \in Entries : pending[k].badge # 0 => ~AnswerReader(i, k)
      BY <3>1, <3>3 DEF Answerable
    <3> QED
      BY <1>1, <1>2, <2>3, <3>2, <3>4 DEF NoneLeft, Answerable, AnswerReader, AnswerWriter
  <2> QED
    BY <1>3, <2>1, <2>2, <2>3
<1>5. ASSUME NEW s \in Slots PROVE Left(s)' = 0
  BY <1>1 DEF Left, NoScan
<1> QED
  BY <1>4, <1>5 DEF SettlesInv, Settles

LEMMA CloseSettles ==
  ASSUME TablesInv, SettlesInv, NEW b \in 1 .. MaxBadge, NEW i \in Slots, scan = NoScan, Closes(b, i)
  PROVE  SettlesInv'
<1>1. /\ pending \in [Entries -> Entry] /\ pipes \in [Slots -> PipeRecord] /\ Free.badge = 0 /\ NPending \in Nat
      /\ NPipes \in Nat /\ PipeTypeOK
  BY Types DEF TablesInv
<1>2. /\ \A k \in Entries : pending'[k] = pending[k] \/ pending'[k].badge = 0
      /\ \A s \in Slots : s # i => pipes'[s] = pipes[s]
  BY <1>1 DEF Closes
<1>3. /\ pipes[i].id # 0 /\ scan' = [round |-> 1, pipe |-> i, slot |-> 1, gone |-> i]
      /\ pipes'[i].read_badge \in {pipes[i].read_badge, 0} /\ pipes'[i].write_badge \in {pipes[i].write_badge, 0}
      /\ pipes'[i].id = pipes[i].id
  BY <1>1 DEF Closes, PipeRecord
<1>4. /\ scan'.round = 1 /\ scan'.pipe = i /\ scan'.slot = 1 /\ scan'.gone = i
  BY <1>3
<1>5. ASSUME NEW s \in Slots, s # i, pipes'[s].id # 0 PROVE Settles(s)'
  <2>1. NoneLeft(s)
    BY <1>2, <1>5, IdleIsQuiet DEF NoneLeft
  <2>2. NoneLeft(s)'
    BY <1>2, <1>5, <2>1, OtherSettles
  <2>3. Left(s)' = 0
    BY <1>4, <1>5 DEF Left, Slots
  <2> QED
    BY <2>2, <2>3 DEF Settles
<1>6. Settles(i)'
  <2>1. OneKind(i)
    BY <1>1, <1>3, IdleIsQuiet, QuietIsOneKind
  <2>2. ASSUME NEW k \in Entries PROVE /\ Reader(i, k)' => Reader(i, k)
                                       /\ Writer(i, k)' => Writer(i, k)
    BY <1>2, <1>3 DEF Reader, Writer, AnswerReader, AnswerWriter
  <2>3. OneKind(i)'
    <3>1. CASE \A k \in Entries : ~Reader(i, k)
      <4>1. ASSUME NEW k \in Entries PROVE ~Reader(i, k)'
        BY <2>2, <3>1
      <4> QED
        BY <4>1 DEF OneKind
    <3>2. CASE \A k \in Entries : ~Writer(i, k)
      <4>1. ASSUME NEW k \in Entries PROVE ~Writer(i, k)'
        BY <2>2, <3>2
      <4> QED
        BY <4>1 DEF OneKind
    <3> QED
      BY <2>1, <3>1, <3>2 DEF OneKind
  <2>4. Passed(i)' = {}
    BY <1>1, <1>4 DEF Passed, Entries
  <2>5. OneLeft(i)'
    BY <2>3, <2>4 DEF OneLeft
  <2>6. Left(i)' = 1
    BY <1>1, <1>4 DEF Left, Slots
  <2> QED
    BY <2>5, <2>6 DEF Settles
<1> QED
  BY <1>5, <1>6 DEF SettlesInv

\* The end of a round at a pipe leaves nothing there that was passed over.
LEMMA EndSettles ==
  ASSUME TablesInv, SettlesInv, NEW i \in Slots, SettleEnd(i)
  PROVE  SettlesInv'
<1>1. /\ scan \in ScanRecord /\ NPending \in Nat /\ NPipes \in Nat \ {0} /\ PipeTypeOK /\ ScanInv
  BY Types DEF TablesInv
<1>2. /\ scan.round # 0 /\ i = scan.pipe /\ pipes' = pipes /\ pending' = pending
      /\ scan' = IF scan.gone = 0 /\ i < NPipes THEN [scan EXCEPT !.slot = 1, !.pipe = i + 1]
                 ELSE [scan EXCEPT !.slot = 1, !.pipe = 1, !.round = scan.round - 1]
  BY DEF SettleEnd
<1>3. scan.round \in {1, 2} /\ scan.slot \in Nat /\ i \in 1 .. NPipes
  BY <1>1, <1>2 DEF ScanRecord, Slots
<1>4. /\ scan'.slot = 1 /\ scan'.gone = scan.gone
      /\ scan.gone = 0 /\ i < NPipes => scan'.pipe = i + 1 /\ scan'.round = scan.round
      /\ ~(scan.gone = 0 /\ i < NPipes) => scan'.pipe = 1 /\ scan'.round = scan.round - 1
  BY <1>1, <1>2 DEF ScanRecord
<1>5. scan.gone # 0 => scan.gone = i /\ scan.round = 1
  BY <1>1, <1>2, <1>3 DEF ScanInv
<1>6. Left(i) = scan.round /\ Left(i)' = scan.round - 1
  BY <1>1, <1>2, <1>3, <1>4, <1>5 DEF Left, Slots
<1>7. \A s \in Slots : s # i => Left(s)' = Left(s)
  BY <1>1, <1>2, <1>3, <1>4, <1>5 DEF Left, Slots
<1>8. \A s \in Slots : Passed(s)' = {}
  BY <1>1, <1>4 DEF Passed, Entries
<1>9. \A s \in Slots, k \in Entries : Answerable(s, k)' = Answerable(s, k)
  BY <1>2 DEF Answerable, AnswerReader, AnswerWriter
<1>10. \A s \in Slots : OneKind(s)' = OneKind(s)
  BY <1>2 DEF OneKind, Reader, Writer, AnswerReader, AnswerWriter
<1>11. ASSUME NEW s \in Slots, s # i, pipes'[s].id # 0 PROVE Settles(s)'
  <2>1. Settles(s) /\ Passed(s) = {}
    BY <1>2, <1>11 DEF SettlesInv, Passed
  <2>2. TwoLeft(s) => TwoLeft(s)'
    BY <1>8, <1>9, <1>10, <2>1 DEF TwoLeft
  <2>3. OneLeft(s) => OneLeft(s)'
    BY <1>8, <1>10, <2>1 DEF OneLeft
  <2>4. NoneLeft(s) => NoneLeft(s)'
    BY <1>9 DEF NoneLeft
  <2> QED
    BY <1>7, <1>11, <2>1, <2>2, <2>3, <2>4 DEF Settles
<1>12. ASSUME pipes'[i].id # 0 PROVE Settles(i)'
  <2>1. \A k \in Entries : ~(k < scan.slot) => ~Answerable(i, k)
    BY <1>1, <1>2, <1>3, <1>12 DEF SettleEnd, Entries
  <2>2. Settles(i)
    BY <1>2, <1>12 DEF SettlesInv
  <2>3. \A k \in Entries : k \notin Passed(i) => ~Answerable(i, k)
    BY <1>2, <2>1 DEF Passed
  <2>4. CASE scan.round = 2
    <3>1. TwoLeft(i)
      BY <1>6, <2>2, <2>4 DEF Settles
    <3>2. OneKind(i)
      <4>1. CASE \E j \in Entries \ Passed(i) : \A k \in Entries \ {j} : ~Answerable(i, k)
        <5>1. \A k \in Entries : ~Answerable(i, k)
          BY <2>3, <4>1
        <5> QED
          BY <1>1, <5>1, QuietIsOneKind
      <4> QED
        BY <3>1, <4>1 DEF TwoLeft
    <3>3. OneLeft(i)'
      BY <1>8, <1>10, <3>2 DEF OneLeft
    <3>4. Left(i)' = 1
      BY <1>6, <2>4
    <3> QED
      BY <3>3, <3>4 DEF Settles
  <2>5. CASE scan.round = 1
    <3>1. OneLeft(i)
      BY <1>6, <2>2, <2>5 DEF Settles
    <3>2. \A k \in Entries : ~Answerable(i, k)
      BY <2>3, <3>1 DEF OneLeft
    <3>3. NoneLeft(i)'
      BY <1>9, <3>2 DEF NoneLeft
    <3>4. Left(i)' = 0
      BY <1>6, <2>5
    <3> QED
      BY <3>3, <3>4 DEF Settles
  <2> QED
    BY <1>3, <2>4, <2>5
<1> QED
  BY <1>11, <1>12 DEF SettlesInv

LEMMA FreeSettles ==
  ASSUME TablesInv, SettlesInv, FreePipe
  PROVE  SettlesInv'
<1>1. /\ scan \in ScanRecord /\ pipes \in [Slots -> PipeRecord]
  BY Types DEF TablesInv
<1>2. /\ scan.round = 0 /\ scan.gone # 0 /\ scan' = NoScan /\ pending' = pending
      /\ pipes' = pipes \/ pipes' = [pipes EXCEPT ![scan.gone].id = 0]
  BY DEF FreePipe
<1>3. scan.gone \in Slots
  BY <1>1, <1>2 DEF ScanRecord
<1>4. ASSUME NEW s \in Slots, pipes'[s].id # 0 PROVE Settles(s)'
  <2>1. pipes'[s] = pipes[s]
    BY <1>1, <1>2, <1>3, <1>4 DEF PipeRecord
  <2>2. Left(s) = 0
    BY <1>2 DEF Left
  <2>3. NoneLeft(s)
    BY <1>4, <2>1, <2>2 DEF SettlesInv, Settles
  <2>4. NoneLeft(s)'
    BY <1>2, <2>1, <2>3, OtherSettles
  <2>5. Left(s)' = 0
    BY <1>2 DEF Left, NoScan
  <2> QED
    BY <2>4, <2>5 DEF Settles
<1> QED
  BY <1>4 DEF SettlesInv

LEMMA NextSettles == TablesInv /\ SettlesInv /\ [PipeNext]_pipe_vars => SettlesInv'
<1> SUFFICES ASSUME TablesInv, SettlesInv, [PipeNext]_pipe_vars PROVE SettlesInv'
  OBVIOUS
<1>1. CASE UNCHANGED <<pipes, pending, scan>>
  BY <1>1 DEF SettlesInv, Settles, TwoLeft, OneLeft, NoneLeft, Left, Passed, OneKind, Reader, Writer, Answerable,
              AnswerReader, AnswerWriter
<1>2. ASSUME NEW c \in Calls, Kill(c) PROVE SettlesInv'
  BY <1>1, <1>2 DEF Kill
<1>3. CASE PipeNext
  BY <1>1, <1>2, <1>3, Kinds, SettleSettles, AskSettles, OpenSettles, EndSettles, FreeSettles, CloseSettles
<1> QED
  BY <1>1, <1>3 DEF pipe_vars

LEMMA InitWaiters == PipeInit => HasEntry /\ PendingIsOpen /\ SettlesInv
<1> SUFFICES ASSUME PipeInit PROVE HasEntry /\ PendingIsOpen /\ SettlesInv
  OBVIOUS
<1>1. /\ \A i \in Slots : pipes[i].id = 0
      /\ \A j \in Entries : pending[j].badge = 0
      /\ \A c \in Calls : call[c].state = "unused"
  BY DEF PipeInit, NoPipe, Free
<1> QED
  BY <1>1 DEF HasEntry, PendingIsOpen, SettlesInv

\* While the service waits for a request no waiting call could be answered; every call that waits on
\* an open end has one entry of the table, and every entry is of an open end of its direction
\* (settle_all's two rounds, queue and client_gone, main.c:98, 106, 247).
THEOREM WaitersAreServed == PipeSpec => []WaitersInv
<1> DEFINE IInv == TablesInv /\ HasEntry /\ PendingIsOpen /\ SettlesInv
<1>1. PipeInit => IInv
  BY InitTables, InitWaiters
<1>2. IInv /\ [PipeNext]_pipe_vars => IInv'
  BY NextTables, NextHasEntry, NextPendingIsOpen, NextSettles
<1>3. IInv => WaitersInv
  <2> SUFFICES ASSUME IInv PROVE WaitersInv
    OBVIOUS
  <2>1. PipeTypeOK
    BY DEF TablesInv
  <2>2. WaitersAreKept
    BY OneEntry DEF WaitersAreKept, HasEntry
  <2>3. Quiet
    <3> SUFFICES ASSUME scan = NoScan, NEW i \in Slots, NEW j \in Entries, pipes[i].id # 0, pending[j].badge # 0
                 PROVE  /\ AnswerReader(i, j) => pipes[i].count = 0 /\ pipes[i].write_badge # 0
                        /\ AnswerWriter(i, j) => pipes[i].read_badge # 0 /\ ~Fits(pipes[i], pending[j].max)
      BY DEF Quiet
    <3>1. ~Answerable(i, j)
      BY IdleIsQuiet
    <3> QED
      BY <3>1 DEF Answerable
  <2> QED
    BY <2>1, <2>2, <2>3 DEF WaitersInv
<1> QED
  BY <1>1, <1>2, <1>3, PTL DEF PipeSpec
-----------------------------------------------------------------------------
(* The ring.                                                                 *)

LEMMA ContentIsASeq ==
  ASSUME NEW p \in PipeRecord
  PROVE  /\ Content(p) \in Seq(Bytes) /\ Len(Content(p)) = p.count
         /\ \A k \in 1 .. p.count : Content(p)[k] = p.buf[InRing(p, k)]
<1>1. PipeSize \in Nat \ {0} /\ p.head \in Nat /\ p.count \in Nat /\ p.buf \in [0 .. PipeSize - 1 -> Bytes]
  BY PipeAssumption DEF PipeRecord
<1>2. \A k \in 1 .. p.count : InRing(p, k) \in 0 .. PipeSize - 1
  <2> TAKE k \in 1 .. p.count
  <2>1. p.head + k - 1 \in Nat
    BY <1>1
  <2> QED
    BY <1>1, <2>1, Remainder DEF InRing
<1>3. Content(p) \in [1 .. p.count -> Bytes]
  BY <1>1, <1>2 DEF Content
<1> QED
  BY <1>1, <1>3, SeqDef, LenProperties DEF Content

LEMMA PlaceOf ==
  ASSUME NEW p \in PipeRecord, NEW k \in 1 .. PipeSize
  PROVE  /\ p.head \in 0 .. PipeSize - 1 /\ InRing(p, k) \in Int
         /\ p.head + k - 1 < PipeSize => InRing(p, k) = p.head + k - 1
         /\ p.head + k - 1 >= PipeSize => InRing(p, k) = p.head + k - 1 - PipeSize
<1>1. PipeSize \in Nat \ {0} /\ p.head \in 0 .. PipeSize - 1
  BY PipeAssumption DEF PipeRecord
<1> DEFINE a == p.head + k - 1
<1>2. a \in 0 .. 2 * PipeSize - 1
  BY <1>1
<1>3. InRing(p, k) = a % PipeSize
  BY DEF InRing
<1>4. a \in Int /\ PipeSize \in Int
  BY <1>1
<1> HIDE DEF a
<1>5. a % PipeSize = IF a < PipeSize THEN a ELSE a - PipeSize
  BY <1>1, <1>2, Wrap
<1>6. /\ InRing(p, k) \in Int
      /\ a < PipeSize => InRing(p, k) = a
      /\ a >= PipeSize => InRing(p, k) = a - PipeSize
  BY <1>3, <1>4, <1>5
<1> QED
  BY <1>1, <1>6 DEF a

\* Different places hold different bytes.
LEMMA Places ==
  ASSUME NEW p \in PipeRecord, NEW k \in 1 .. PipeSize, NEW l \in 1 .. PipeSize, InRing(p, k) = InRing(p, l)
  PROVE  k = l
<1>1. PipeSize \in Nat \ {0}
  BY PipeAssumption
<1> QED
  BY <1>1, PlaceOf

\* The head after n bytes: what was at n + k is at k.
LEMMA HeadMoves ==
  ASSUME NEW p \in PipeRecord, NEW q \in PipeRecord, NEW n \in 0 .. PipeSize, NEW k \in Nat \ {0}, n + k <= PipeSize,
         q.head = HeadAfter(p, n)
  PROVE  InRing(q, k) = InRing(p, n + k)
<1>1. PipeSize \in Nat \ {0} /\ p.head \in 0 .. PipeSize - 1
  BY PipeAssumption DEF PipeRecord
<1>2. p.head + n \in 0 .. 2 * PipeSize - 1
  BY <1>1
<1>3. q.head = IF p.head + n < PipeSize THEN p.head + n ELSE p.head + n - PipeSize
  BY <1>1, <1>2, Wrap DEF HeadAfter
<1>4. n + k \in 1 .. PipeSize /\ k \in 1 .. PipeSize
  BY <1>1
<1>5. /\ q.head + k - 1 < PipeSize => InRing(q, k) = q.head + k - 1
      /\ q.head + k - 1 >= PipeSize => InRing(q, k) = q.head + k - 1 - PipeSize
      /\ q.head \in 0 .. PipeSize - 1
  BY <1>4, PlaceOf
<1>6. /\ p.head + (n + k) - 1 < PipeSize => InRing(p, n + k) = p.head + (n + k) - 1
      /\ p.head + (n + k) - 1 >= PipeSize => InRing(p, n + k) = p.head + (n + k) - 1 - PipeSize
  BY <1>4, PlaceOf
<1> QED
  BY <1>1, <1>3, <1>4, <1>5, <1>6

OrderInv == owed \in [Slots -> Seq(Bytes)] /\ BytesInOrder

LEMMA ReadOrder ==
  ASSUME TablesInv, OrderInv, NEW i \in Slots, NEW j \in Entries, SettleRead(i, j), Answers(i, j)
  PROVE  OrderInv'
<1> DEFINE p == pipes[i]
           q == pipes'[i]
           n == IF p.count < pending[j].max THEN p.count ELSE pending[j].max
<1>1. /\ pipes \in [Slots -> PipeRecord] /\ pending \in [Entries -> Entry] /\ PipeSize \in Nat \ {0}
      /\ pipes' \in [Slots -> PipeRecord] /\ pipes[i].id # 0
      /\ \A k \in Slots : k # i => pipes'[k] = pipes[k]
  BY Types DEF TablesInv, Answers
<1>2. /\ pipes' = [pipes EXCEPT ![i].head = HeadAfter(p, n), ![i].count = p.count - n]
      /\ owed' = [owed EXCEPT ![i] = SubSeq(owed[i], n + 1, Len(owed[i]))]
  BY DEF SettleRead
<1>3. p \in PipeRecord /\ q \in PipeRecord
  BY <1>1
<1>4. n \in 0 .. p.count /\ p.count \in 0 .. PipeSize
  <2>1. p.count \in 0 .. PipeSize /\ pending[j].max \in 0 .. PipeSize
    BY <1>1 DEF PipeRecord, Entry
  <2> QED
    BY <1>1, <2>1
<1> HIDE DEF n
<1>5. q.head = HeadAfter(p, n) /\ q.count = p.count - n /\ q.buf = p.buf
  BY <1>1, <1>2 DEF PipeRecord
<1>6. owed[i] = Content(p) /\ owed \in [Slots -> Seq(Bytes)]
  BY <1>1 DEF OrderInv, BytesInOrder
<1> HIDE DEF p, q
<1> DEFINE old == Content(p)
           rest == SubSeq(old, n + 1, Len(old))
<1>7. old \in Seq(Bytes) /\ Len(old) = p.count /\ \A k \in 1 .. p.count : old[k] = p.buf[InRing(p, k)]
  BY <1>3, ContentIsASeq
<1>8. /\ rest \in Seq(Bytes) /\ Len(rest) = p.count - n
      /\ \A k \in 1 .. p.count - n : rest[k] = old[n + k]
  <2>1. n + 1 \in Int /\ Len(old) \in Int /\ \A k \in n + 1 .. Len(old) : old[k] \in Bytes
    <3>1. \A k \in n + 1 .. Len(old) : k \in 1 .. Len(old)
      BY <1>4, <1>7
    <3> HIDE DEF old
    <3> QED
      BY <1>4, <1>7, <3>1, ElementOfSeq
  <2> HIDE DEF old
  <2>2. /\ rest \in Seq(Bytes) /\ Len(rest) = IF n + 1 <= Len(old) THEN Len(old) - (n + 1) + 1 ELSE 0
        /\ \A k \in 1 .. Len(old) - (n + 1) + 1 : rest[k] = old[(n + 1) + k - 1]
    BY <2>1, SubSeqProperties
  <2> HIDE DEF rest
  <2>3. p.count \in Int /\ n \in Int /\ Len(old) = p.count /\ n <= p.count
    BY <1>4, <1>7
  <2> QED
    BY <2>2, <2>3
<1>9. Content(q) = rest
  <2>1. Content(q) \in Seq(Bytes) /\ Len(Content(q)) = p.count - n
        /\ \A k \in 1 .. p.count - n : Content(q)[k] = p.buf[InRing(q, k)]
    BY <1>3, <1>5, ContentIsASeq
  <2>2. ASSUME NEW k \in 1 .. p.count - n PROVE InRing(q, k) = InRing(p, n + k) /\ n + k \in 1 .. p.count
    <3>1. n \in 0 .. PipeSize /\ k \in Nat \ {0} /\ n + k <= PipeSize /\ n + k \in 1 .. p.count
      BY <1>1, <1>4
    <3> QED
      BY <1>3, <1>5, <3>1, HeadMoves
  <2>3. \A k \in 1 .. p.count - n : Content(q)[k] = rest[k]
    <3> HIDE DEF rest, old
    <3> QED
      BY <1>7, <1>8, <2>1, <2>2
  <2> HIDE DEF rest
  <2> QED
    BY <1>8, <2>1, <2>3, SeqEqual
<1>10. owed' = [owed EXCEPT ![i] = rest] /\ q = pipes'[i]
  BY <1>2, <1>6 DEF q
<1> HIDE DEF rest
<1> QED
  BY <1>1, <1>6, <1>8, <1>9, <1>10 DEF OrderInv, BytesInOrder

LEMMA WriteOrder ==
  ASSUME TablesInv, OrderInv, NEW i \in Slots, NEW j \in Entries, SettleWrite(i, j), Answers(i, j)
  PROVE  OrderInv'
<1> DEFINE p == pipes[i]
           q == pipes'[i]
           n == pending[j].max
           data == Data(pending[j].call, n)
           buf == [s \in 0 .. PipeSize - 1 |->
                     IF \E k \in 1 .. n : s = InRing(p, p.count + k)
                     THEN data[CHOOSE k \in 1 .. n : s = InRing(p, p.count + k)] ELSE p.buf[s]]
<1>1. /\ pipes \in [Slots -> PipeRecord] /\ pending \in [Entries -> Entry] /\ PipeSize \in Nat \ {0}
      /\ pipes' \in [Slots -> PipeRecord] /\ pipes[i].id # 0
      /\ \A k \in Slots : k # i => pipes'[k] = pipes[k]
  BY Types DEF TablesInv, Answers
<1>2. /\ pipes' = [pipes EXCEPT ![i].count = p.count + n, ![i].buf = buf]
      /\ owed' = [owed EXCEPT ![i] = owed[i] \o data]
      /\ Fits(p, n)
  BY DEF SettleWrite
<1>3. p \in PipeRecord /\ q \in PipeRecord
  BY <1>1
<1>4. n \in 0 .. PipeSize /\ p.count \in 0 .. PipeSize /\ p.count + n <= PipeSize /\ p.head \in 0 .. PipeSize - 1
  BY <1>1, <1>2 DEF PipeRecord, Entry, Fits
<1>5. /\ data \in Seq(Bytes) /\ Len(data) = n
  <2>1. pending[j].call \in Calls
    BY DEF Answers, TablesInv, EntriesInv
  <2>2. \A k \in 1 .. n : k \in 1 .. PipeSize
    BY <1>1, <1>4
  <2>3. data \in [1 .. n -> Bytes]
    <3> HIDE DEF n
    <3> QED
      BY <2>1, <2>2 DEF Data, Bytes
  <2>4. n \in Nat
    BY <1>4
  <2> HIDE DEF data, n
  <2> QED
    BY <2>3, <2>4, SeqDef, LenProperties
<1> HIDE DEF data
<1>6. q.head = p.head /\ q.count = p.count + n /\ q.buf = buf
  <2> HIDE DEF buf, n
  <2> QED
    BY <1>1, <1>2 DEF PipeRecord
<1>7. owed[i] = Content(p) /\ owed \in [Slots -> Seq(Bytes)]
  BY <1>1 DEF OrderInv, BytesInOrder
<1> HIDE DEF p, q, n
<1> DEFINE old == Content(p)
           all == old \o data
<1>8. old \in Seq(Bytes) /\ Len(old) = p.count /\ \A k \in 1 .. p.count : old[k] = p.buf[InRing(p, k)]
  BY <1>3, ContentIsASeq
<1>9. /\ Content(q) \in Seq(Bytes) /\ Len(Content(q)) = p.count + n
      /\ \A k \in 1 .. p.count + n : Content(q)[k] = buf[InRing(q, k)]
  <2> HIDE DEF buf
  <2> QED
    BY <1>3, <1>6, ContentIsASeq
<1>10. /\ all \in Seq(Bytes) /\ Len(all) = p.count + n
       /\ \A k \in 1 .. p.count + n : all[k] = IF k <= p.count THEN old[k] ELSE data[k - p.count]
  <2> HIDE DEF old
  <2>1. /\ all \in Seq(Bytes) /\ Len(all) = Len(old) + Len(data)
        /\ \A k \in 1 .. Len(old) + Len(data) : all[k] = IF k <= Len(old) THEN old[k] ELSE data[k - Len(old)]
    BY <1>5, <1>8, ConcatProperties
  <2> HIDE DEF all
  <2> QED
    BY <1>5, <1>8, <2>1
\* What was there stays: none of the places written holds a byte that waits to be read.
<1>11. ASSUME NEW k \in 1 .. p.count PROVE buf[InRing(p, k)] = p.buf[InRing(p, k)]
  <2>1. k \in 1 .. PipeSize /\ \A l \in 1 .. n : p.count + l \in 1 .. PipeSize /\ p.count + l # k
    BY <1>1, <1>4
  <2>2. ~\E l \in 1 .. n : InRing(p, k) = InRing(p, p.count + l)
    BY <1>3, <2>1, Places
  <2>3. InRing(p, k) \in 0 .. PipeSize - 1
    <3>1. p.head + k - 1 \in Nat
      BY <1>1, <1>4
    <3> QED
      BY <1>1, <3>1, Remainder DEF InRing
  <2> QED
    BY <2>2, <2>3
\* And every byte of the write goes to a place of its own.
<1>12. ASSUME NEW l \in 1 .. n PROVE buf[InRing(p, p.count + l)] = data[l]
  <2> DEFINE s == InRing(p, p.count + l)
             m == CHOOSE k \in 1 .. n : s = InRing(p, p.count + k)
  <2>1. m \in 1 .. n /\ s = InRing(p, p.count + m)
    OBVIOUS
  <2> HIDE DEF m
  <2>2. p.count + l \in 1 .. PipeSize /\ p.count + m \in 1 .. PipeSize
    BY <1>1, <1>4, <2>1
  <2>3. p.count + l = p.count + m
    BY <1>3, <2>1, <2>2, Places
  <2>4. m = l
    BY <1>4, <2>1, <2>3
  <2>5. s \in 0 .. PipeSize - 1
    <3>1. p.head + (p.count + l) - 1 \in Nat
      BY <1>1, <1>4
    <3> QED
      BY <1>1, <3>1, Remainder DEF InRing
  <2>6. buf[s] = data[m]
    BY <2>5 DEF m
  <2> QED
    BY <2>4, <2>6
<1> HIDE DEF buf
<1>13. \A k \in 1 .. p.count + n : Content(q)[k] = all[k]
  <2> SUFFICES ASSUME NEW k \in 1 .. p.count + n PROVE Content(q)[k] = all[k]
    OBVIOUS
  <2> HIDE DEF all, old
  <2>1. Content(q)[k] = buf[InRing(p, k)]
    BY <1>6, <1>9 DEF InRing
  <2>2. CASE k <= p.count
    <3>1. k \in 1 .. p.count
      BY <1>4, <2>2
    <3> QED
      BY <1>8, <1>10, <1>11, <2>1, <2>2, <3>1
  <2>3. CASE ~(k <= p.count)
    <3> DEFINE l == k - p.count
    <3>1. l \in 1 .. n /\ k = p.count + l
      BY <1>4, <2>3
    <3>2. all[k] = data[l]
      BY <1>10, <2>3
    <3> HIDE DEF l
    <3> QED
      BY <1>12, <2>1, <3>1, <3>2
  <2> QED
    BY <2>2, <2>3
<1>14. Content(q) = all
  <2> HIDE DEF all
  <2> QED
    BY <1>9, <1>10, <1>13, SeqEqual
<1>15. owed' = [owed EXCEPT ![i] = all] /\ q = pipes'[i]
  BY <1>2, <1>7 DEF q
<1> HIDE DEF all
<1> QED
  BY <1>1, <1>7, <1>10, <1>14, <1>15 DEF OrderInv, BytesInOrder

LEMMA NextOrder == TablesInv /\ OrderInv /\ [PipeNext]_pipe_vars => OrderInv'
<1> SUFFICES ASSUME TablesInv, OrderInv, [PipeNext]_pipe_vars PROVE OrderInv'
  OBVIOUS
<1>1. pipes \in [Slots -> PipeRecord] /\ NoPipe \in PipeRecord /\ scan \in ScanRecord
  BY Types DEF TablesInv
\* It is enough that the rings in use are left alone.
<1>2. ASSUME owed' = owed,
             \A i \in Slots : pipes'[i].id # 0 =>
               /\ pipes[i].id # 0 /\ pipes'[i].head = pipes[i].head /\ pipes'[i].count = pipes[i].count
               /\ pipes'[i].buf = pipes[i].buf
      PROVE  OrderInv'
  <2>1. \A i \in Slots : pipes'[i].id # 0 => Content(pipes'[i]) = Content(pipes[i])
    BY <1>2 DEF Content, InRing
  <2> QED
    BY <1>2, <2>1 DEF OrderInv, BytesInOrder
<1>3. CASE UNCHANGED <<pipes, owed>>
  BY <1>2, <1>3
<1>4. ASSUME NEW i \in Slots, NEW j \in Entries, SettleStep(i, j), Answers(i, j) PROVE OrderInv'
  BY <1>3, <1>4, ReadOrder, WriteOrder DEF SettleStep, SettleEof, SettlePeerGone
<1>5. ASSUME NEW i \in Slots, Opens(i) PROVE OrderInv'
  <2>1. PICK n \in {0, next_id + 1} :
          pipes' = [pipes EXCEPT ![i] = [NoPipe EXCEPT !.id = n, !.read_badge = next_badge + 1]]
    BY <1>5 DEF Opens
  <2>2. pipes'[i].count = 0 /\ (\A k \in Slots : k # i => pipes'[k] = pipes[k]) /\ owed' = [owed EXCEPT ![i] = <<>>]
    BY <1>1, <1>5, <2>1 DEF NoPipe, Opens
  <2>3. Content(pipes'[i]) = <<>>
    BY <2>2 DEF Content
  <2> QED
    BY <2>2, <2>3 DEF OrderInv, BytesInOrder
<1>6. ASSUME NEW i \in Slots, PipeAttach(i) PROVE OrderInv'
  <2>1. /\ owed' = owed /\ pipes[i].id # 0
        /\ pipes' = [pipes EXCEPT ![i].write_badge = next_badge'] \/ pipes' = pipes
    BY <1>6 DEF PipeAttach
  <2>2. /\ \A k \in Slots : k # i => pipes'[k] = pipes[k]
        /\ pipes'[i].head = pipes[i].head /\ pipes'[i].count = pipes[i].count /\ pipes'[i].buf = pipes[i].buf
    BY <1>1, <2>1 DEF PipeRecord
  <2> QED
    BY <1>2, <2>1, <2>2
<1>7. CASE FreePipe
  <2>1. scan.gone \in Slots
    BY <1>1, <1>7 DEF FreePipe, ScanRecord
  <2> DEFINE g == scan.gone
  <2>2. owed' = owed /\ (pipes' = [pipes EXCEPT ![g].id = 0] \/ pipes' = pipes)
    BY <1>7 DEF FreePipe
  <2> HIDE DEF g
  <2>3. CASE pipes' = [pipes EXCEPT ![g].id = 0]
    <3>1. g \in Slots /\ pipes[g] \in PipeRecord
      BY <1>1, <2>1 DEF g
    <3>2. pipes'[g].id = 0 /\ \A i \in Slots : i # g => pipes'[i] = pipes[i]
      BY <1>1, <2>3, <3>1 DEF PipeRecord
    <3> QED
      BY <1>2, <2>2, <3>2
  <2> QED
    BY <1>3, <2>2, <2>3
<1>8. ASSUME NEW b \in 1 .. MaxBadge, NEW i \in Slots, Closes(b, i), owed' = owed PROVE OrderInv'
  <2>1. /\ pipes[i].id # 0
        /\ pipes' = [pipes EXCEPT ![i].read_badge = 0] \/ pipes' = [pipes EXCEPT ![i].write_badge = 0]
    BY <1>8 DEF Closes
  <2>2. /\ \A k \in Slots : k # i => pipes'[k] = pipes[k]
        /\ pipes'[i].head = pipes[i].head /\ pipes'[i].count = pipes[i].count /\ pipes'[i].buf = pipes[i].buf
    BY <1>1, <2>1 DEF PipeRecord
  <2> QED
    BY <1>2, <1>8, <2>1, <2>2
<1>9. CASE (\E i \in Slots : SettleEnd(i)) \/ (\E c \in Calls : Kill(c))
           \/ \E c \in Calls, b \in 1 .. MaxBadge : Asks(c, b)
  BY <1>3, <1>9 DEF SettleEnd, Kill, Asks
<1>10. CASE PipeNext
  BY <1>3, <1>4, <1>5, <1>6, <1>7, <1>8, <1>9, <1>10, Kinds
<1> QED
  BY <1>3, <1>10 DEF pipe_vars

\* Every pipe's ring holds the bytes that were written to it and not yet read, in order, around the
\* end of the ring (settle, main.c:69-90).
THEOREM RingIsInOrder == PipeSpec => []BytesInOrder
<1>1. PipeInit => OrderInv
  <2> SUFFICES ASSUME PipeInit PROVE OrderInv
    OBVIOUS
  <2>1. (\A i \in Slots : pipes[i].id = 0) /\ owed = [i \in Slots |-> <<>>] /\ <<>> \in Seq(Bytes)
    BY EmptySeq DEF PipeInit, NoPipe
  <2> QED
    BY <2>1 DEF OrderInv, BytesInOrder
<1>2. OrderInv => BytesInOrder
  BY DEF OrderInv
<1> QED
  BY <1>1, <1>2, InitTables, NextTables, NextOrder, PTL DEF PipeSpec
=============================================================================

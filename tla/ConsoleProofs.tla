--------------------------- MODULE ConsoleProofs ----------------------------
(***************************************************************************)
(* Proofs about Console, for any number of streams, calls and keys and any      *)
(* sizes of the ring, the FIFO and the line: keys and bytes of lines are used    *)
(* once and in order, and no reader is forgotten.                               *)
(*                                                                         *)
(* The second needs that a turn ends in dispatch, which stops only when the      *)
(* oldest request can be given nothing; that a call which waits is in the FIFO,   *)
(* is the break waiter, or is the one this turn answers (PollKeyEnd); and that    *)
(* a new call is none the service already holds.                                *)
(***************************************************************************)
EXTENDS Console, Integers, SequenceTheorems, WellFoundedInduction, NaturalsInduction, TLAPS

\* Types
Key     == Nat \X (Kinds \cup {"none"})
Byte    == Nat \X (1 .. 2)
Request == [call : ConCalls, op : {"read"}, max : Maxes] \cup [call : ConCalls, op : {"key"}, max : {0}]
CallRecord == [state : {"unused", "waiting", "over"}, badge : Nat]
Job     == {Poll, Dispatch} \cup {AnswerKey(c) : c \in ConCalls}

RingOk ==
  /\ keys \in [0 .. NKeys - 1 -> Key] /\ key_head \in 0 .. NKeys - 1 /\ key_count \in 0 .. NKeys
  /\ ahead \in Seq(Key) /\ typed \in Nat
LineOk ==
  /\ edit \in Seq(Byte) /\ ready \in Seq(Byte) /\ ready_pos \in 0 .. Len(ready) /\ ready_eof \in BOOLEAN
DeskOk ==
  /\ con_pending \in Seq(Request) /\ con_call \in [ConCalls -> CallRecord] /\ con_next_badge \in Nat
  /\ break_token \in 0 .. NConCalls /\ todo \in Seq(Job)
ConTypeOK == RingOk /\ LineOk /\ DeskOk

LEMMA RequestsAre ==
  ASSUME NEW q \in Request
  PROVE  q.call \in ConCalls /\ q.op \in {"read", "key"} /\ q.max \in Nat /\ (q.op = "read" => q.max \in Maxes)
<1>1. Maxes \subseteq Nat
  BY ConsoleAssumption
<1>2. CASE q \in [call : ConCalls, op : {"read"}, max : Maxes]
  BY <1>1, <1>2
<1>3. CASE q \in [call : ConCalls, op : {"key"}, max : {0}]
  BY <1>3
<1> QED
  BY <1>2, <1>3 DEF Request

----------------------------------------------------------------------------
(* The ring                                                                  *)

LEMMA Wrap == ASSUME NEW n \in Nat \ {0}, NEW a \in 0 .. 2 * n - 1 PROVE a % n = IF a < n THEN a ELSE a - n
<1>1. CASE a < n
  BY <1>1
<1>2. CASE a >= n
  BY <1>2
<1> QED
  BY <1>1, <1>2

Sizes == NKeys \in Nat \ {0} /\ LineMax \in Nat \ {0} /\ Maxes \subseteq Nat /\ NConCalls \in Nat /\ NWaiting \in Nat
LEMMA SizesAre == Sizes
  BY ConsoleAssumption DEF Sizes

\* The places of the ring, as the numbers from its head.
Place(h, j) == LET a == h + j - 1 IN IF a < NKeys THEN a ELSE a - NKeys
LEMMA PlaceIs ==
  ASSUME NEW h \in 0 .. NKeys - 1, NEW j \in 1 .. NKeys
  PROVE  (h + j - 1) % NKeys = Place(h, j) /\ Place(h, j) \in 0 .. NKeys - 1
<1> DEFINE a == h + j - 1
<1>1. NKeys \in Nat \ {0} /\ a \in 0 .. 2 * NKeys - 1
  BY SizesAre DEF Sizes
<1> HIDE DEF a
<1>2. a % NKeys = IF a < NKeys THEN a ELSE a - NKeys
  BY <1>1, Wrap
<1>3. Place(h, j) = IF a < NKeys THEN a ELSE a - NKeys
  BY DEF Place, a
<1>4. a % NKeys = Place(h, j)
  BY <1>2, <1>3
<1>5. Place(h, j) \in 0 .. NKeys - 1
  BY <1>1, <1>3
<1> QED
  BY <1>4, <1>5 DEF a

LEMMA QueuedIs == ASSUME RingOk PROVE Queued = [j \in 1 .. key_count |-> keys[Place(key_head, j)]]
<1>1. \A j \in 1 .. key_count : (key_head + j - 1) % NKeys = Place(key_head, j)
  <2> TAKE j \in 1 .. key_count
  <2>1. j \in 1 .. NKeys /\ key_head \in 0 .. NKeys - 1
    BY SizesAre DEF RingOk, Sizes
  <2> QED
    BY <2>1, PlaceIs
<1> QED
  BY <1>1 DEF Queued

\* The oldest key is taken.
LEMMA TakeKeeps ==
  ASSUME RingOk, Queued = ahead, key_count > 0, TakeKey, UNCHANGED typed
  PROVE  RingOk' /\ (Queued = ahead)' /\ keys[key_head] \in Key
<1>1. /\ NKeys \in Nat \ {0} /\ key_head \in 0 .. NKeys - 1 /\ key_count \in 1 .. NKeys
      /\ keys \in [0 .. NKeys - 1 -> Key] /\ ahead \in Seq(Key) /\ typed' = typed /\ typed \in Nat
  BY SizesAre DEF RingOk, Sizes
<1>2. /\ key_head' = (key_head + 1) % NKeys /\ key_count' = key_count - 1
      /\ keys' = [keys EXCEPT ![key_head] = NoKey] /\ ahead' = Tail(ahead)
  BY DEF TakeKey, AfterTake
<1>3. key_head' = (IF key_head + 1 < NKeys THEN key_head + 1 ELSE 0) /\ key_head' \in 0 .. NKeys - 1
  <2> DEFINE a == key_head + 1
  <2>1. a \in 0 .. 2 * NKeys - 1 /\ key_head' = a % NKeys
    BY <1>1, <1>2
  <2> HIDE DEF a
  <2>2. a % NKeys = IF a < NKeys THEN a ELSE a - NKeys
    BY <1>1, <2>1, Wrap
  <2> QED
    BY <1>1, <2>1, <2>2 DEF a
<1>4. NoKey \in Key
  BY DEF NoKey, Key
<1>5. ahead = [j \in 1 .. key_count |-> keys[Place(key_head, j)]]
  BY QueuedIs
<1>6. Len(ahead) = key_count /\ ahead # <<>>
  BY <1>1, <1>5
<1>7. ahead' \in Seq(Key) /\ ahead' = [j \in 1 .. key_count - 1 |-> ahead[j + 1]]
  <2>1. /\ Tail(ahead) \in Seq(Key) /\ Len(Tail(ahead)) = Len(ahead) - 1
        /\ \A j \in 1 .. Len(Tail(ahead)) : Tail(ahead)[j] = ahead[j + 1]
    BY <1>1, <1>6, HeadTailProperties
  <2>2. Tail(ahead) = [j \in 1 .. Len(Tail(ahead)) |-> Tail(ahead)[j]]
    BY <2>1, LenProperties
  <2> QED
    BY <1>2, <1>6, <2>1, <2>2
<1>8. RingOk'
  BY <1>1, <1>2, <1>3, <1>4, <1>7 DEF RingOk
<1>9. Queued' = [j \in 1 .. key_count' |-> keys'[Place(key_head', j)]]
  <2>1. \A j \in 1 .. key_count' : (key_head' + j - 1) % NKeys = Place(key_head', j)
    <3> TAKE j \in 1 .. key_count'
    <3>1. j \in 1 .. NKeys
      BY <1>1, <1>2
    <3> QED
      BY <1>3, <3>1, PlaceIs
  <2> QED
    BY <2>1 DEF Queued
<1>10. ASSUME NEW j \in 1 .. key_count - 1 PROVE keys'[Place(key_head', j)] = ahead[j + 1]
  <2>1. Place(key_head', j) = Place(key_head, j + 1) /\ Place(key_head, j + 1) # key_head /\ Place(key_head, j + 1) \in 0 .. NKeys - 1
    BY <1>1, <1>3 DEF Place
  <2>2. ahead[j + 1] = keys[Place(key_head, j + 1)]
    <3>1. j + 1 \in 1 .. key_count
      BY <1>1
    <3> QED
      BY <1>5, <3>1
  <2>3. keys'[Place(key_head', j)] = keys[Place(key_head, j + 1)]
    BY <1>1, <1>2, <2>1
  <2> QED
    BY <2>2, <2>3
<1>11. Queued' = ahead'
  BY <1>2, <1>7, <1>9, <1>10
<1>12. keys[key_head] \in Key
  BY <1>1
<1> QED
  BY <1>8, <1>11, <1>12

\* A key put back is the oldest again.
LEMMA PutBackKeeps ==
  ASSUME RingOk, Queued = ahead, key_count > 0, PutBack, UNCHANGED typed
  PROVE  RingOk' /\ (Queued = ahead)'
<1>1. /\ NKeys \in Nat \ {0} /\ key_head \in 0 .. NKeys - 1 /\ key_count \in 1 .. NKeys
      /\ keys \in [0 .. NKeys - 1 -> Key]
  BY SizesAre DEF RingOk, Sizes
<1> DEFINE h == (key_head + 1) % NKeys
<1>2. h = (IF key_head + 1 < NKeys THEN key_head + 1 ELSE 0) /\ h \in 0 .. NKeys - 1
  <2> DEFINE a == key_head + 1
  <2>1. a \in 0 .. 2 * NKeys - 1 /\ h = a % NKeys
    BY <1>1
  <2> HIDE DEF a, h
  <2>2. a % NKeys = IF a < NKeys THEN a ELSE a - NKeys
    BY <1>1, <2>1, Wrap
  <2> QED
    BY <1>1, <2>1, <2>2 DEF a
<1>3. (h + NKeys - 1) % NKeys = key_head
  <2> HIDE DEF h
  <2>1. h + NKeys - 1 \in 0 .. 2 * NKeys - 1
    BY <1>1, <1>2
  <2> QED
    BY <1>1, <1>2, <2>1, Wrap
<1>4. key_head' = key_head
  BY <1>3 DEF PutBack, AfterUnget, AfterTake
<1>5. key_count' = key_count
  BY <1>1 DEF PutBack, AfterUnget, AfterTake
<1>6. keys' = [[keys EXCEPT ![key_head] = NoKey] EXCEPT ![key_head] = keys[key_head]]
  BY <1>3 DEF PutBack, AfterUnget, AfterTake
<1>7. keys' = keys
  BY <1>1, <1>6
<1>8. ahead' = ahead
  BY DEF PutBack
<1> QED
  BY <1>4, <1>5, <1>7, <1>8 DEF RingOk, Queued

\* A new key is the last.
LEMMA AcceptKeeps ==
  ASSUME RingOk, Queued = ahead, NEW k \in Key, key_count < NKeys,
         keys' = [keys EXCEPT ![(key_head + key_count) % NKeys] = k], key_count' = key_count + 1,
         ahead' = Append(ahead, k), key_head' = key_head, typed' \in Nat
  PROVE  RingOk' /\ (Queued = ahead)'
<1>1. /\ NKeys \in Nat \ {0} /\ key_head \in 0 .. NKeys - 1 /\ key_count \in 0 .. NKeys - 1
      /\ keys \in [0 .. NKeys - 1 -> Key] /\ ahead \in Seq(Key)
  BY SizesAre DEF RingOk, Sizes
<1> DEFINE i == (key_head + key_count) % NKeys
<1>2. i = Place(key_head, key_count + 1) /\ i \in 0 .. NKeys - 1
  <2>1. key_count + 1 \in 1 .. NKeys /\ key_head + (key_count + 1) - 1 = key_head + key_count
    BY <1>1
  <2> QED
    BY <1>1, <2>1, PlaceIs
<1>3. keys' = [keys EXCEPT ![i] = k]
  OBVIOUS
<1> HIDE DEF i
<1>4. ahead = [j \in 1 .. key_count |-> keys[Place(key_head, j)]]
  BY QueuedIs
<1>5. Len(ahead) = key_count
  BY <1>1, <1>4
<1>6. ahead' \in Seq(Key) /\ Len(ahead') = key_count + 1 /\ ahead'[key_count + 1] = k /\ \A j \in 1 .. key_count : ahead'[j] = ahead[j]
  BY <1>1, <1>5, AppendProperties
<1>7. RingOk'
  BY <1>1, <1>2, <1>3, <1>6 DEF RingOk
<1>8. Queued' = [j \in 1 .. key_count + 1 |-> keys'[Place(key_head, j)]]
  <2>1. \A j \in 1 .. key_count + 1 : (key_head + j - 1) % NKeys = Place(key_head, j)
    <3> TAKE j \in 1 .. key_count + 1
    <3>1. j \in 1 .. NKeys
      BY <1>1
    <3> QED
      BY <1>1, <3>1, PlaceIs
  <2> QED
    BY <2>1 DEF Queued
<1>9. ASSUME NEW j \in 1 .. key_count + 1 PROVE keys'[Place(key_head, j)] = ahead'[j]
  <2>1. CASE j = key_count + 1
    BY <1>1, <1>2, <1>3, <1>6, <2>1
  <2>2. CASE j # key_count + 1
    <3>1. j \in 1 .. key_count
      BY <1>1, <2>2
    <3>2. Place(key_head, j) # i /\ Place(key_head, j) \in 0 .. NKeys - 1
      BY <1>1, <1>2, <3>1 DEF Place
    <3>3. keys'[Place(key_head, j)] = keys[Place(key_head, j)]
      BY <1>1, <1>3, <3>2
    <3> QED
      BY <1>4, <1>6, <3>1, <3>3
  <2> QED
    BY <2>1, <2>2
<1>10. Queued' = ahead'
  <2>1. ahead' = [j \in 1 .. key_count + 1 |-> ahead'[j]]
    BY <1>6, <1>1, LenProperties
  <2> QED
    BY <1>8, <1>9, <2>1
<1> QED
  BY <1>7, <1>10
----------------------------------------------------------------------------
(* The line                                                                  *)

\* No character of a line is cut.
Whole(e) == \A j \in DOMAIN e : e[j][2] = 1 \/ (j > 1 /\ e[j - 1] = <<e[j][1], e[j][2] - 1>>)
Rest(s, n) == SubSeq(s, n + 1, Len(s))
LineInv ==
  /\ LineOk /\ con_owed = Rest(ready, ready_pos) /\ (ready_eof => ready = <<>>)
  /\ Len(edit) < LineMax /\ Whole(edit)

LEMMA BytesFacts ==
  ASSUME NEW k \in Key
  PROVE  ConBytes(k) \in Seq(Byte) /\ Len(ConBytes(k)) \in 1 .. 2 /\ Whole(ConBytes(k))
<1>1. k[1] \in Nat /\ <<k[1], 1>> \in Byte /\ <<k[1], 2>> \in Byte
  BY DEF Key, Byte
<1>2. CASE k[2] = "wide"
  <2>1. ConBytes(k) = <<<<k[1], 1>>, <<k[1], 2>>>>
    BY <1>2 DEF ConBytes
  <2> QED
    BY <1>1, <2>1 DEF Whole
<1>3. CASE k[2] # "wide"
  <2>1. ConBytes(k) = <<<<k[1], 1>>>>
    BY <1>3 DEF ConBytes
  <2> QED
    BY <1>1, <2>1 DEF Whole
<1> QED
  BY <1>2, <1>3

LEMMA RestFacts ==
  ASSUME NEW s \in Seq(Byte), NEW p \in 0 .. Len(s)
  PROVE  Rest(s, p) \in Seq(Byte) /\ Len(Rest(s, p)) = Len(s) - p /\ \A j \in 1 .. Len(s) - p : Rest(s, p)[j] = s[p + j]
<1>1. p \in Nat /\ Len(s) \in Nat /\ \A i \in p + 1 .. Len(s) : s[i] \in Byte
  OBVIOUS
<1>2. /\ SubSeq(s, p + 1, Len(s)) \in Seq(Byte)
      /\ Len(SubSeq(s, p + 1, Len(s))) = IF p + 1 <= Len(s) THEN Len(s) - (p + 1) + 1 ELSE 0
      /\ \A j \in 1 .. Len(s) - (p + 1) + 1 : SubSeq(s, p + 1, Len(s))[j] = s[(p + 1) + j - 1]
  BY <1>1, SubSeqProperties
<1> QED
  BY <1>1, <1>2 DEF Rest

LEMMA RestOfRest ==
  ASSUME NEW s \in Seq(Byte), NEW p \in 0 .. Len(s), NEW n \in 0 .. Len(s) - p
  PROVE  Rest(Rest(s, p), n) = Rest(s, p + n)
<1> DEFINE t == Rest(s, p)
           u == Rest(t, n)
           v == Rest(s, p + n)
<1>1. t \in Seq(Byte) /\ Len(t) = Len(s) - p /\ \A j \in 1 .. Len(s) - p : t[j] = s[p + j]
  BY RestFacts
<1> HIDE DEF t
<1>2. n \in 0 .. Len(t) /\ p + n \in 0 .. Len(s)
  BY <1>1
<1>3. u \in Seq(Byte) /\ Len(u) = Len(t) - n /\ \A j \in 1 .. Len(t) - n : u[j] = t[n + j]
  BY <1>1, <1>2, RestFacts
<1>4. v \in Seq(Byte) /\ Len(v) = Len(s) - (p + n) /\ \A j \in 1 .. Len(s) - (p + n) : v[j] = s[(p + n) + j]
  BY <1>2, RestFacts
<1> HIDE DEF u, v
<1>5. Len(u) = Len(v) /\ \A j \in 1 .. Len(u) : u[j] = v[j]
  BY <1>1, <1>3, <1>4
<1>6. u = v
  BY <1>3, <1>4, <1>5, SeqEqual
<1> QED
  BY <1>6 DEF t, u, v

LEMMA PrefixFacts ==
  ASSUME NEW e \in Seq(Byte), Whole(e), NEW m \in 0 .. Len(e)
  PROVE  SubSeq(e, 1, m) \in Seq(Byte) /\ Len(SubSeq(e, 1, m)) = m /\ Whole(SubSeq(e, 1, m))
<1> DEFINE f == SubSeq(e, 1, m)
<1>1. m \in Nat /\ \A i \in 1 .. m : e[i] \in Byte
  OBVIOUS
<1>2. /\ f \in Seq(Byte) /\ Len(f) = IF 1 <= m THEN m - 1 + 1 ELSE 0
      /\ \A j \in 1 .. m - 1 + 1 : f[j] = e[1 + j - 1]
  BY <1>1, SubSeqProperties
<1>3. Len(f) = m /\ DOMAIN f = 1 .. m /\ \A j \in 1 .. m : f[j] = e[j]
  BY <1>1, <1>2
<1> HIDE DEF f
<1>4. Whole(f)
  BY <1>1, <1>3 DEF Whole
<1> QED
  BY <1>2, <1>3, <1>4 DEF f

LEMMA JoinFacts ==
  ASSUME NEW e \in Seq(Byte), Whole(e), NEW k \in Key
  PROVE  /\ e \o ConBytes(k) \in Seq(Byte) /\ Len(e \o ConBytes(k)) = Len(e) + Len(ConBytes(k))
         /\ Whole(e \o ConBytes(k))
<1> DEFINE b == ConBytes(k)
           f == e \o b
<1>1. b \in Seq(Byte) /\ Len(b) \in 1 .. 2 /\ Whole(b)
  BY BytesFacts
<1> HIDE DEF b
<1>2. /\ f \in Seq(Byte) /\ Len(f) = Len(e) + Len(b)
      /\ \A i \in 1 .. Len(e) + Len(b) : f[i] = IF i <= Len(e) THEN e[i] ELSE b[i - Len(e)]
  BY <1>1, ConcatProperties
<1> HIDE DEF f
<1>3. ASSUME NEW j \in DOMAIN f, f[j][2] # 1 PROVE j > 1 /\ f[j - 1] = <<f[j][1], f[j][2] - 1>>
  <2>1. j \in 1 .. Len(e) + Len(b) /\ Len(e) \in Nat /\ DOMAIN e = 1 .. Len(e) /\ DOMAIN b = 1 .. Len(b)
    BY <1>1, <1>2, LenProperties
  <2>2. CASE j <= Len(e)
    <3>1. f[j] = e[j] /\ j \in DOMAIN e
      BY <1>2, <2>1, <2>2
    <3>2. j > 1 /\ e[j - 1] = <<e[j][1], e[j][2] - 1>>
      BY <1>3, <3>1 DEF Whole
    <3>3. f[j - 1] = e[j - 1]
      BY <1>2, <2>1, <2>2, <3>2
    <3> QED
      BY <3>1, <3>2, <3>3
  <2>3. CASE j > Len(e)
    <3>1. f[j] = b[j - Len(e)] /\ j - Len(e) \in DOMAIN b
      BY <1>1, <1>2, <2>1, <2>3
    <3>2. j - Len(e) > 1 /\ b[(j - Len(e)) - 1] = <<b[j - Len(e)][1], b[j - Len(e)][2] - 1>>
      BY <1>1, <1>3, <3>1 DEF Whole
    <3>3. f[j - 1] = b[(j - Len(e)) - 1]
      <4>1. j - 1 \in 1 .. Len(e) + Len(b) /\ ~(j - 1 <= Len(e)) /\ (j - 1) - Len(e) = (j - Len(e)) - 1
        BY <2>1, <2>3, <3>2
      <4> QED
        BY <1>2, <4>1
    <3> QED
      BY <2>1, <3>1, <3>2, <3>3
  <2> QED
    BY <2>1, <2>2, <2>3
<1>4. Whole(f)
  BY <1>3 DEF Whole
<1> QED
  BY <1>2, <1>4 DEF f, b

LEMMA MaxIsGreatest ==
  ASSUME NEW n \in Nat, NEW S \in SUBSET (1 .. n), S # {}
  PROVE  Max(S) \in S
<1> DEFINE T == {m \in Nat : n - m \in S}
           R == OpToRel(<, Nat)
<1>1. IsWellFoundedOn(R, Nat)
  BY NatLessThanWellFounded
<1>2. \A j, k \in Nat : k < j => <<k, j>> \in R
  BY DEF OpToRel
<1>3. T \subseteq Nat
  OBVIOUS
<1>4. T # {}
  <2> PICK x \in S : TRUE
    OBVIOUS
  <2>1. n - x \in Nat /\ n - (n - x) = x
    OBVIOUS
  <2>2. n - x \in T
    BY <2>1
  <2> QED
    BY <2>2
<1> HIDE DEF R, T
<1>5. PICK m \in T : \A k \in T : ~(<<k, m>> \in R)
  BY <1>1, <1>3, <1>4, WFMin
<1>6. m \in Nat /\ n - m \in S
  BY <1>5 DEF T
<1>7. ASSUME NEW x \in S PROVE x <= n - m
  <2>1. x \in Nat /\ n - x \in Nat /\ n - (n - x) = x
    OBVIOUS
  <2>2. n - x \in T
    BY <2>1 DEF T
  <2>3. ~(n - x < m)
    BY <1>2, <1>5, <1>6, <2>1, <2>2
  <2> QED
    BY <1>6, <2>1, <2>3
<1>8. \E y \in S : \A x \in S : y >= x
  <2>1. \A x \in S : n - m >= x
    BY <1>6, <1>7
  <2> QED
    BY <1>6, <2>1
<1> QED
  BY <1>8 DEF Max

LEMMA BackspacedFacts ==
  ASSUME edit \in Seq(Byte), Whole(edit)
  PROVE  Backspaced \in Seq(Byte) /\ Len(Backspaced) <= Len(edit) /\ Whole(Backspaced)
<1> DEFINE firsts == {j \in DOMAIN edit : edit[j][2] = 1}
           m == Max(firsts)
<1>1. CASE firsts = {}
  <2>1. Backspaced = <<>>
    BY <1>1 DEF Backspaced
  <2> QED
    BY <2>1 DEF Whole
<1>2. CASE firsts # {}
  <2>1. Len(edit) \in Nat /\ firsts \subseteq 1 .. Len(edit)
    BY LenProperties
  <2>2. m \in firsts
    BY <1>2, <2>1, MaxIsGreatest
  <2>3. Backspaced = SubSeq(edit, 1, m - 1)
    BY <1>2 DEF Backspaced
  <2>4. m \in 1 .. Len(edit)
    BY <2>1, <2>2
  <2> HIDE DEF m
  <2>5. m - 1 \in 0 .. Len(edit) /\ m - 1 <= Len(edit)
    BY <2>1, <2>4
  <2> QED
    BY <2>3, <2>5, PrefixFacts
<1> QED
  BY <1>1, <1>2

\* serve_ready: what is left of the finished line is still owed.
LEMMA ServeLine ==
  ASSUME LineInv, DeskOk, ServeReady
  PROVE  LineInv'
<1>1. /\ edit \in Seq(Byte) /\ ready \in Seq(Byte) /\ ready_pos \in 0 .. Len(ready) /\ ready_eof \in BOOLEAN
      /\ con_owed = Rest(ready, ready_pos) /\ (ready_eof => ready = <<>>)
      /\ Len(edit) < LineMax /\ Whole(edit)
  BY DEF LineInv, LineOk
<1>2. con_pending # <<>> /\ con_pending[1].max \in Nat
  <2>1. con_pending # <<>>
    BY DEF ServeReady, ReadyToServe
  <2>2. con_pending \in Seq(Request)
    BY DEF DeskOk
  <2>3. con_pending[1] \in Request
    BY <2>1, <2>2
  <2> QED
    BY <2>1, <2>3, RequestsAre
<1> DEFINE rest == Len(ready) - ready_pos
           n    == IF rest < con_pending[1].max THEN rest ELSE con_pending[1].max
           end  == ready_pos + n = Len(ready)
<1>3. /\ con_owed' = SubSeq(con_owed, n + 1, Len(con_owed))
      /\ ready' = IF end THEN <<>> ELSE ready
      /\ ready_pos' = IF end THEN 0 ELSE ready_pos + n
      /\ ready_eof' = (ready_eof /\ ~end)
      /\ edit' = edit
  BY DEF ServeReady
<1>4. n \in 0 .. rest /\ Len(ready) \in Nat
  BY <1>1, <1>2
<1> HIDE DEF n
<1>5. con_owed' = Rest(ready, ready_pos + n)
  <2>1. Rest(Rest(ready, ready_pos), n) = Rest(ready, ready_pos + n)
    BY <1>1, <1>4, RestOfRest
  <2> QED
    BY <1>1, <1>3, <2>1 DEF Rest
<1>6. CASE end
  <2>1. con_owed' = <<>>
    <3>1. Len(ready) + 1 \in Int /\ Len(ready) \in Int /\ Len(ready) < Len(ready) + 1
      BY <1>4
    <3>2. SubSeq(ready, Len(ready) + 1, Len(ready)) = <<>>
      BY <3>1, SubSeqEmpty
    <3> QED
      BY <1>5, <1>6, <3>2 DEF Rest
  <2>2. ready' = <<>> /\ ready_pos' = 0 /\ ready_eof' = FALSE
    BY <1>1, <1>3, <1>6
  <2>3. con_owed' = Rest(ready', ready_pos') /\ ready_pos' \in 0 .. Len(ready') /\ ready' \in Seq(Byte)
    BY <2>1, <2>2, SubSeqEmpty DEF Rest
  <2> QED
    BY <1>1, <1>3, <2>2, <2>3 DEF LineInv, LineOk
<1>7. CASE ~end
  <2>1. ready' = ready /\ ready_pos' = ready_pos + n /\ ready_eof' = ready_eof
    BY <1>1, <1>3, <1>7
  <2>2. ready_pos' \in 0 .. Len(ready)
    BY <1>1, <1>4, <2>1
  <2>3. con_owed' = Rest(ready', ready_pos')
    BY <1>5, <2>1
  <2> QED
    BY <1>1, <1>3, <2>1, <2>2, <2>3 DEF LineInv, LineOk
<1> QED
  BY <1>6, <1>7

\* line_key: the editor sees a key only when no finished line waits.
LEMMA LineKeyKeeps ==
  ASSUME LineInv, NEW k \in Key, LineKey(k), ready = <<>>, ready_eof = FALSE
  PROVE  LineInv'
<1>1. /\ edit \in Seq(Byte) /\ ready \in Seq(Byte) /\ ready_pos \in 0 .. Len(ready) /\ ready_eof \in BOOLEAN
      /\ con_owed = Rest(ready, ready_pos) /\ (ready_eof => ready = <<>>)
      /\ Len(edit) < LineMax /\ Whole(edit) /\ LineMax \in Nat \ {0} /\ Len(edit) \in Nat
  BY SizesAre DEF LineInv, LineOk, Sizes
<1> DEFINE b == ConBytes(k)
           f == edit \o b
<1>2. f \in Seq(Byte) /\ Len(f) = Len(edit) + Len(b) /\ Whole(f)
  BY <1>1, JoinFacts
<1>3. Len(<<>>) = 0 /\ Whole(<<>>) /\ <<>> \in Seq(Byte)
  BY DEF Whole
<1>4. CASE k[2] = "enter"
  <2>1. ready' = f /\ ready_pos' = 0 /\ edit' = <<>> /\ con_owed' = con_owed \o edit \o b /\ ready_eof' = ready_eof
    BY <1>4 DEF LineKey
  <2>2. con_owed = <<>>
    <3>1. ready_pos = 0 /\ Len(ready) = 0
      BY <1>1
    <3> QED
      BY <1>1, <3>1, SubSeqEmpty DEF Rest
  <2>3. con_owed \o edit = edit
    BY <1>1, <2>2, ConcatEmptySeq
  <2>4. con_owed' = f
    BY <2>1, <2>3
  <2> HIDE DEF f
  <2>5. Rest(f, 0) = f
    <3>1. SubSeq(f, 1, Len(f)) = f
      BY <1>2, SubSeqFull
    <3> QED
      BY <3>1 DEF Rest
  <2>6. LineOk'
    BY <1>1, <1>2, <1>3, <2>1 DEF LineOk
  <2> QED
    BY <1>1, <1>2, <1>3, <2>1, <2>4, <2>5, <2>6 DEF LineInv
<1>5. CASE k[2] # "enter"
  <2>1. /\ edit' = Backspaced \/ edit' = <<>> \/ edit' = edit \/ (edit' = f /\ Len(edit) + Len(b) < LineMax)
        /\ ready_eof' \in BOOLEAN
        /\ ready' = ready /\ ready_pos' = ready_pos /\ con_owed' = con_owed
    BY <1>1, <1>5 DEF LineKey
  <2>2. Backspaced \in Seq(Byte) /\ Len(Backspaced) <= Len(edit) /\ Whole(Backspaced)
    BY <1>1, BackspacedFacts
  <2> HIDE DEF f, b
  <2>3. edit' \in Seq(Byte) /\ Len(edit') < LineMax /\ Whole(edit')
    <3>1. CASE edit' = Backspaced
      <4>1. Len(Backspaced) \in Nat
        BY <2>2, LenProperties
      <4> QED
        BY <1>1, <2>2, <3>1, <4>1
    <3>2. CASE edit' = <<>>
      BY <1>1, <1>3, <3>2
    <3>3. CASE edit' = f /\ Len(edit) + Len(b) < LineMax
      BY <1>2, <3>3
    <3> QED
      BY <1>1, <2>1, <3>1, <3>2, <3>3
  <2>4. LineOk'
    BY <1>1, <2>1, <2>3 DEF LineOk
  <2> QED
    BY <1>1, <2>1, <2>3, <2>4 DEF LineInv
<1> QED
  BY <1>4, <1>5

----------------------------------------------------------------------------
(* The types of the FIFO, the calls and what is to do                         *)

LEMMA ReplyFacts ==
  ASSUME con_call \in [ConCalls -> CallRecord], NEW S, ConReply(S)
  PROVE  /\ con_call' \in [ConCalls -> CallRecord]
         /\ \A c \in ConCalls : con_call'[c] = IF c \in S THEN ConOver ELSE con_call[c]
<1>1. ConOver \in CallRecord
  BY DEF ConOver, CallRecord
<1>2. con_call' = [c \in ConCalls |-> IF c \in S THEN ConOver ELSE con_call[c]]
  BY DEF ConReply
<1> QED
  BY <1>1, <1>2

LEMMA WaitsFacts ==
  ASSUME con_call \in [ConCalls -> CallRecord], NEW c \in ConCalls, NEW b \in Nat, ConWaits(c, b)
  PROVE  /\ con_call' \in [ConCalls -> CallRecord]
         /\ con_call'[c] = [state |-> "waiting", badge |-> b]
         /\ \A d \in ConCalls : d # c => con_call'[d] = con_call[d]
<1>1. [state |-> "waiting", badge |-> b] \in CallRecord
  BY DEF CallRecord
<1>2. con_call' = [con_call EXCEPT ![c] = [state |-> "waiting", badge |-> b]]
  BY DEF ConWaits
<1> QED
  BY <1>1, <1>2

LEMMA JobsAre ==
  /\ Poll \in Job /\ Dispatch \in Job /\ \A c \in ConCalls : AnswerKey(c) \in Job /\ AnswerKey(c) # Dispatch /\ AnswerKey(c) # Poll
  /\ Poll # Dispatch
BY DEF Job, Poll, Dispatch, AnswerKey

LEMMA TodosAre ==
  /\ Turn \in Seq(Job) /\ Turn # <<>> /\ Turn[Len(Turn)] = Dispatch
  /\ LET t == <<Dispatch>> \o Turn IN t \in Seq(Job) /\ t # <<>> /\ t[Len(t)] = Dispatch
  /\ \A c \in ConCalls : LET t == Turn \o <<AnswerKey(c)>> \o Turn
                         IN  t \in Seq(Job) /\ t # <<>> /\ t[Len(t)] = Dispatch /\ \E j \in DOMAIN t : t[j] = AnswerKey(c)
<1>1. Turn = <<Poll, Dispatch>>
  BY DEF Turn
<1>2. Turn \in Seq(Job) /\ Len(Turn) = 2 /\ Turn[1] = Poll /\ Turn[2] = Dispatch /\ Turn # <<>>
  BY <1>1, JobsAre
<1> DEFINE d == <<Dispatch>>
           u == d \o Turn
<1>3. d \in Seq(Job) /\ Len(d) = 1
  BY JobsAre
<1> HIDE DEF d
<1>a. u \in Seq(Job) /\ Len(u) = 3 /\ \A i \in 1 .. 3 : u[i] = IF i <= 1 THEN d[i] ELSE Turn[i - 1]
  <2>1. /\ u \in Seq(Job) /\ Len(u) = Len(d) + Len(Turn)
        /\ \A i \in 1 .. Len(d) + Len(Turn) : u[i] = IF i <= Len(d) THEN d[i] ELSE Turn[i - Len(d)]
    BY <1>2, <1>3, ConcatProperties
  <2> QED
    BY <1>2, <1>3, <2>1
<1>4. u \in Seq(Job) /\ Len(u) = 3 /\ u[3] = Dispatch
  BY <1>2, <1>a
<1> HIDE DEF u
<1>5. u # <<>> /\ u[Len(u)] = Dispatch
  BY <1>4
<1>6. ASSUME NEW c \in ConCalls
      PROVE  LET t == Turn \o <<AnswerKey(c)>> \o Turn
             IN  t \in Seq(Job) /\ t # <<>> /\ t[Len(t)] = Dispatch /\ \E j \in DOMAIN t : t[j] = AnswerKey(c)
  <2> DEFINE k == <<AnswerKey(c)>>
             s == Turn \o k
             t == s \o Turn
  <2>1. k \in Seq(Job) /\ Len(k) = 1 /\ k[1] = AnswerKey(c)
    BY JobsAre
  <2> HIDE DEF k
  <2>2. s \in Seq(Job) /\ Len(s) = 3 /\ s[3] = AnswerKey(c)
    BY <1>2, <2>1, ConcatProperties
  <2> HIDE DEF s
  <2>a. /\ t \in Seq(Job) /\ Len(t) = Len(s) + Len(Turn)
        /\ \A i \in 1 .. Len(s) + Len(Turn) : t[i] = IF i <= Len(s) THEN s[i] ELSE Turn[i - Len(s)]
    BY <1>2, <2>2, ConcatProperties
  <2>3. t \in Seq(Job) /\ Len(t) = 5 /\ t[5] = Dispatch /\ t[3] = AnswerKey(c)
    BY <1>2, <2>2, <2>a
  <2> HIDE DEF t
  <2>4. t # <<>> /\ t[Len(t)] = Dispatch /\ 3 \in DOMAIN t
    BY <2>3
  <2>5. t \in Seq(Job) /\ t # <<>> /\ t[Len(t)] = Dispatch /\ \E j \in DOMAIN t : t[j] = AnswerKey(c)
    BY <2>3, <2>4
  <2> QED
    BY <2>5 DEF t, s, k
<1> QED
  BY <1>2, <1>4, <1>5, <1>6 DEF u, d

LEMMA TailFacts ==
  ASSUME NEW S, NEW s \in Seq(S), s # <<>>
  PROVE  /\ Tail(s) \in Seq(S) /\ Head(s) = s[1] /\ s[1] \in S /\ Len(Tail(s)) = Len(s) - 1 /\ Len(s) \in Nat \ {0}
         /\ \A j \in 1 .. Len(s) - 1 : Tail(s)[j] = s[j + 1]
         /\ Tail(s) # <<>> => Tail(s)[Len(Tail(s))] = s[Len(s)]
<1>1. /\ Tail(s) \in Seq(S) /\ Head(s) = s[1] /\ s[1] \in S /\ Len(Tail(s)) = Len(s) - 1 /\ Len(s) \in Nat \ {0}
      /\ \A j \in 1 .. Len(s) - 1 : Tail(s)[j] = s[j + 1]
  BY HeadTailProperties
<1>2. Tail(s) # <<>> => Len(s) - 1 \in 1 .. Len(s) - 1
  BY <1>1
<1> QED
  BY <1>1, <1>2

\* The cases of a step
LEMMA ActionsAre ==
  ASSUME ConNext
  PROVE  \/ ServeReady \/ HandKey \/ SkipKey \/ EditKey \/ DispatchEnd \/ PollEnd \/ Timeout
         \/ \E kind \in Kinds : AcceptKey(kind)
         \/ \E read \in BOOLEAN : DevOpen(read)
         \/ \E b \in Given : ConClientGone(b) \/ \E m \in {"line", "raw"} : SetMode(b, m)
         \/ \E c \in ConCalls : ConKill(c) \/ PollKeyEnd(c)
         \/ \E c \in ConCalls, b \in Given :
              ReadKey(c, b) \/ PollKey(c, b) \/ BreakWait(c, b) \/ \E max \in Maxes : ConStRead(c, b, max)
BY DEF ConNext

\* What was asked of the service, and who waits for it
InFifo(c) == \E j \in DOMAIN con_pending : con_pending[j].call = c
InTodo(c) == \E j \in DOMAIN todo : todo[j] = AnswerKey(c)
Idle == todo = <<>> => ~ReadyToServe /\ (con_pending = <<>> \/ key_count = 0)
EndsInDispatch == todo # <<>> => todo[Len(todo)] = Dispatch
Known(c) == Waiting(c) => InFifo(c) \/ break_token = c \/ con_call[c].badge \in con_gone \/ InTodo(c)
Made(c) == con_call[c].state # "unused"
FifoOk ==
  /\ \A j \in DOMAIN con_pending : Made(con_pending[j].call)
  /\ \A j, k \in DOMAIN con_pending : con_pending[j].call = con_pending[k].call => j = k
BreakOk == break_token # 0 => Made(break_token) /\ (Waiting(break_token) => con_call[break_token].badge = break_badge)
Served == Idle /\ EndsInDispatch /\ (\A c \in ConCalls : Known(c)) /\ FifoOk /\ BreakOk

\* Every read has room for any character (four bytes in the code, two in the model).  Without it a reader
\* in RAW mode is forgotten: the run console_raw_char.
ReadsFit == \A max \in Maxes : max >= 2
Keeps == DeskOk' /\ (ReadsFit /\ Served => Served')

\* Nothing is asked or answered.
LEMMA NothingAnswered ==
  ASSUME DeskOk, todo # <<>> \/ todo' # <<>>, todo' = todo \/ todo' = Turn,
         todo = <<>> \/ todo' = todo,
         UNCHANGED <<con_pending, con_call, break_token, break_badge, con_gone>>, con_next_badge' \in Nat
  PROVE  Keeps
<1>1. Turn \in Seq(Job) /\ Turn # <<>> /\ Turn[Len(Turn)] = Dispatch
  BY TodosAre
<1>2. DeskOk'
  BY <1>1 DEF DeskOk
<1>3. ASSUME Served PROVE Served'
  <2>1. todo' # <<>> /\ (todo = <<>> \/ todo' = todo)
    BY <1>1
  <2>2. Idle' /\ EndsInDispatch'
    BY <1>1, <1>3, <2>1 DEF Served, Idle, EndsInDispatch
  <2>3. ASSUME NEW c \in ConCalls PROVE Known(c)'
    <3>1. Known(c)
      BY <1>3 DEF Served
    <3>2. InTodo(c) => InTodo(c)'
      <4>1. todo = <<>> => ~InTodo(c)
        BY DEF InTodo
      <4> QED
        BY <2>1, <4>1 DEF InTodo
    <3> QED
      BY <3>1, <3>2 DEF Known, Waiting, InFifo
  <2>4. FifoOk' /\ BreakOk'
    BY <1>3 DEF Served, FifoOk, BreakOk, Made, Waiting
  <2> QED
    BY <2>2, <2>3, <2>4 DEF Served
<1> QED
  BY <1>2, <1>3 DEF Keeps

\* A step of what was to do ends.
LEMMA TodoEnds ==
  ASSUME DeskOk, todo # <<>>, Head(todo) \in {Poll, Dispatch}, todo' = Tail(todo),
         Head(todo) = Dispatch => ~ReadyToServe /\ (con_pending = <<>> \/ key_count = 0),
         UNCHANGED <<con_pending, con_call, break_token, break_badge, con_gone, con_next_badge, ready, ready_eof, key_count>>
  PROVE  Keeps
<1>1. /\ Tail(todo) \in Seq(Job) /\ Head(todo) = todo[1] /\ Len(Tail(todo)) = Len(todo) - 1 /\ Len(todo) \in Nat \ {0}
      /\ \A j \in 1 .. Len(todo) - 1 : Tail(todo)[j] = todo[j + 1]
      /\ Tail(todo) # <<>> => Tail(todo)[Len(Tail(todo))] = todo[Len(todo)]
  BY TailFacts DEF DeskOk
<1>2. DeskOk'
  BY <1>1 DEF DeskOk
<1>3. ASSUME Served PROVE Served'
  <2>1. EndsInDispatch'
    BY <1>1, <1>3 DEF Served, EndsInDispatch
  <2>2. Idle'
    <3>1. todo' = <<>> => Head(todo) = Dispatch
      <4>1. ASSUME todo' = <<>> PROVE Len(todo) = 1
        <5>1. Len(Tail(todo)) = 0
          <6> DEFINE t == Tail(todo)
          <6>1. t = <<>>
            BY <4>1
          <6> HIDE DEF t
          <6>2. Len(t) = 0
            BY <6>1
          <6> QED
            BY <6>2 DEF t
        <5> QED
          BY <1>1, <5>1
      <4> QED
        BY <1>1, <1>3, <4>1 DEF Served, EndsInDispatch
    <3> QED
      BY <3>1 DEF Idle, ReadyToServe
  <2>3. ASSUME NEW c \in ConCalls PROVE Known(c)'
    <3>1. Known(c)
      BY <1>3 DEF Served
    <3>2. InTodo(c) => InTodo(c)'
      <4> SUFFICES ASSUME NEW j \in DOMAIN todo, todo[j] = AnswerKey(c) PROVE \E i \in DOMAIN todo' : todo'[i] = AnswerKey(c)
        BY DEF InTodo
      <4>1. j \in 1 .. Len(todo) /\ j # 1
        BY <1>1, JobsAre DEF DeskOk
      <4>2. j - 1 \in 1 .. Len(todo) - 1 /\ (j - 1) + 1 = j
        BY <1>1, <4>1
      <4>3. todo'[j - 1] = AnswerKey(c) /\ j - 1 \in DOMAIN todo'
        BY <1>1, <4>2
      <4> QED
        BY <4>3
    <3> QED
      BY <3>1, <3>2 DEF Known, Waiting, InFifo
  <2>4. FifoOk' /\ BreakOk'
    BY <1>3 DEF Served, FifoOk, BreakOk, Made, Waiting
  <2> QED
    BY <2>1, <2>2, <2>3, <2>4 DEF Served
<1> QED
  BY <1>2, <1>3 DEF Keeps

\* The oldest request is answered, or its caller does not wait any more.
LEMMA FirstEnds ==
  ASSUME DeskOk, todo # <<>>, con_pending # <<>>, con_pending' = Tail(con_pending),
         \/ ConReply({con_pending[1].call})
         \/ con_call' = con_call /\ (ReadsFit => ~Waiting(con_pending[1].call)),
         UNCHANGED <<todo, break_token, break_badge, con_gone, con_next_badge>>
  PROVE  Keeps
<1> DEFINE first == con_pending[1].call
<1>1. /\ Tail(con_pending) \in Seq(Request) /\ con_pending[1] \in Request
      /\ Len(Tail(con_pending)) = Len(con_pending) - 1 /\ Len(con_pending) \in Nat \ {0}
      /\ \A j \in 1 .. Len(con_pending) - 1 : Tail(con_pending)[j] = con_pending[j + 1]
  BY TailFacts DEF DeskOk
<1>2. first \in ConCalls
  BY <1>1, RequestsAre
<1>3. /\ con_call \in [ConCalls -> CallRecord] /\ con_call' \in [ConCalls -> CallRecord]
      /\ \A c \in ConCalls : con_call'[c] = con_call[c] \/ (c = first /\ con_call'[c] = ConOver)
      /\ ReadsFit => (Waiting(first) => con_call'[first] = ConOver)
  <2>1. con_call \in [ConCalls -> CallRecord]
    BY DEF DeskOk
  <2>2. CASE ConReply({first})
    BY <1>2, <2>1, <2>2, ReplyFacts
  <2>3. CASE ~ConReply({first})
    BY <2>1, <2>3
  <2> QED
    BY <2>2, <2>3
<1>4. DeskOk'
  BY <1>1, <1>3 DEF DeskOk
<1> HIDE DEF first
<1>5. ASSUME Served, ReadsFit PROVE Served'
  <2>1. Idle' /\ EndsInDispatch'
    BY <1>5 DEF Served, Idle, EndsInDispatch
  <2>2. ASSUME NEW c \in ConCalls PROVE Known(c)'
    <3> SUFFICES ASSUME Waiting(c)' PROVE Known(c)'
      BY DEF Known
    <3>1. Known(c) /\ con_call'[c] = con_call[c] /\ Waiting(c) /\ c # first
      <4>1. con_call'[c] # ConOver
        BY DEF Waiting, ConOver
      <4>2. con_call'[c] = con_call[c] /\ Waiting(c)
        BY <1>3, <4>1 DEF Waiting
      <4> QED
        BY <1>3, <1>5, <4>1, <4>2 DEF Served
    <3>2. InFifo(c) => InFifo(c)'
      <4> SUFFICES ASSUME NEW j \in DOMAIN con_pending, con_pending[j].call = c
                   PROVE  \E i \in DOMAIN con_pending' : con_pending'[i].call = c
        BY DEF InFifo
      <4>1. j \in 1 .. Len(con_pending) /\ j # 1
        BY <1>1, <3>1 DEF DeskOk, first
      <4>2. j - 1 \in 1 .. Len(con_pending) - 1 /\ (j - 1) + 1 = j
        BY <1>1, <4>1
      <4>3. con_pending'[j - 1].call = c /\ j - 1 \in DOMAIN con_pending'
        BY <1>1, <4>2
      <4> QED
        BY <4>3
    <3> QED
      BY <3>1, <3>2 DEF Known, Waiting, InTodo
  <2>3. FifoOk'
    <3>1. \A j \in DOMAIN con_pending' : j \in 1 .. Len(con_pending) - 1
      BY <1>1
    <3>3. ASSUME NEW j \in 1 .. Len(con_pending) - 1
          PROVE  /\ con_pending'[j] = con_pending[j + 1] /\ j + 1 \in DOMAIN con_pending
                 /\ con_pending[j + 1].call \in ConCalls
      <4>1. con_pending'[j] = con_pending[j + 1] /\ j + 1 \in DOMAIN con_pending
        BY <1>1 DEF DeskOk
      <4>2. con_pending[j + 1] \in Request
        BY <4>1 DEF DeskOk
      <4> QED
        BY <4>1, <4>2, RequestsAre
    <3>4. ASSUME NEW j \in DOMAIN con_pending' PROVE Made(con_pending[j].call)'
      <4>1. Made(con_pending[j + 1].call)
        BY <1>5, <3>1, <3>3 DEF Served, FifoOk
      <4>3. con_call'[con_pending[j + 1].call].state # "unused"
        BY <1>3, <3>1, <3>3, <4>1 DEF Made, ConOver
      <4> QED
        BY <3>1, <3>3, <4>3 DEF Made
    <3>5. ASSUME NEW j \in DOMAIN con_pending', NEW k \in DOMAIN con_pending', con_pending'[j].call = con_pending'[k].call
          PROVE  j = k
      <4>1. j + 1 = k + 1
        BY <1>5, <3>1, <3>3, <3>5 DEF Served, FifoOk
      <4> QED
        BY <1>1, <3>1, <4>1
    <3> QED
      BY <3>4, <3>5 DEF FifoOk
  <2>4. BreakOk'
    <3>1. break_token # 0 => break_token \in ConCalls
      BY DEF DeskOk, ConCalls
    <3> QED
      BY <1>3, <1>5, <3>1 DEF Served, BreakOk, Made, Waiting, ConOver
  <2> QED
    BY <2>1, <2>2, <2>3, <2>4 DEF Served
<1> QED
  BY <1>4, <1>5 DEF Keeps

\* The Ctrl+C of a break waiter: every call the service holds is answered.
LEMMA BreakKeeps ==
  ASSUME DeskOk, todo # <<>>, TakeBreak, todo' = todo
  PROVE  Keeps
<1> DEFINE S == {break_token} \cup {con_pending[j].call : j \in DOMAIN con_pending}
<1>1. /\ ConReply(S) /\ break_token' = 0 /\ con_pending' = <<>>
      /\ break_badge' = break_badge /\ con_gone' = con_gone /\ con_next_badge' = con_next_badge
  BY DEF TakeBreak
<1>2. con_call' \in [ConCalls -> CallRecord] /\ \A c \in ConCalls : con_call'[c] = IF c \in S THEN ConOver ELSE con_call[c]
  BY <1>1, ReplyFacts DEF DeskOk
<1>3. DeskOk'
  BY <1>1, <1>2, SizesAre DEF DeskOk, Sizes
<1>4. ASSUME Served PROVE Served'
  <2>1. Idle' /\ EndsInDispatch'
    BY <1>4 DEF Served, Idle, EndsInDispatch
  <2>2. ASSUME NEW c \in ConCalls PROVE Known(c)'
    <3> SUFFICES ASSUME Waiting(c)' PROVE Known(c)'
      BY DEF Known
    <3>1. c \notin S /\ con_call'[c] = con_call[c]
      BY <1>2 DEF Waiting, ConOver
    <3>2. Known(c) /\ Waiting(c) /\ ~InFifo(c) /\ break_token # c
      BY <1>4, <3>1 DEF Served, Waiting, InFifo
    <3> QED
      BY <1>1, <3>1, <3>2 DEF Known, InTodo
  <2>3. FifoOk' /\ BreakOk'
    BY <1>1 DEF FifoOk, BreakOk
  <2> QED
    BY <2>1, <2>2, <2>3 DEF Served
<1> QED
  BY <1>3, <1>4 DEF Keeps

\* A request is answered at once, or the caller ends.
LEMMA AnswerKeeps ==
  ASSUME DeskOk, NEW c \in ConCalls, ConReply({c}),
         \/ todo' = todo /\ UNCHANGED <<key_count, ready, ready_eof>>
         \/ todo = <<>> /\ todo' = Turn
         \/ todo # <<>> /\ Head(todo) = AnswerKey(c) /\ todo' = Tail(todo),
         UNCHANGED <<con_pending, break_token, break_badge, con_gone, con_next_badge>>
  PROVE  Keeps
<1>1. con_call' \in [ConCalls -> CallRecord] /\ \A d \in ConCalls : con_call'[d] = IF d = c THEN ConOver ELSE con_call[d]
  BY ReplyFacts DEF DeskOk
<1>2. Turn \in Seq(Job) /\ Turn # <<>> /\ Turn[Len(Turn)] = Dispatch
  BY TodosAre
<1>3. todo # <<>> =>
      /\ Tail(todo) \in Seq(Job) /\ Head(todo) = todo[1] /\ Len(Tail(todo)) = Len(todo) - 1 /\ Len(todo) \in Nat \ {0}
      /\ \A j \in 1 .. Len(todo) - 1 : Tail(todo)[j] = todo[j + 1]
      /\ Tail(todo) # <<>> => Tail(todo)[Len(Tail(todo))] = todo[Len(todo)]
  BY TailFacts DEF DeskOk
<1>4. DeskOk'
  BY <1>1, <1>2, <1>3 DEF DeskOk
<1>5. ASSUME Served PROVE Served'
  <2>1. EndsInDispatch'
    BY <1>2, <1>3, <1>5 DEF Served, EndsInDispatch
  <2>2. Idle'
    <3>1. CASE todo' = todo /\ UNCHANGED <<key_count, ready, ready_eof>>
      BY <1>5, <3>1 DEF Served, Idle, ReadyToServe
    <3>2. CASE todo' = Turn
      BY <1>2, <3>2 DEF Idle
    <3>3. CASE todo # <<>> /\ Head(todo) = AnswerKey(c) /\ todo' = Tail(todo)
      <4>1. Len(todo) # 1
        BY <1>3, <1>5, <3>3, JobsAre DEF Served, EndsInDispatch
      <4> DEFINE t == Tail(todo)
      <4>2. Len(t) # 0 /\ todo' = t
        BY <1>3, <3>3, <4>1
      <4> HIDE DEF t
      <4>3. todo' # <<>>
        BY <4>2
      <4> QED
        BY <4>3 DEF Idle
    <3> QED
      BY <3>1, <3>2, <3>3
  <2>3. ASSUME NEW d \in ConCalls PROVE Known(d)'
    <3> SUFFICES ASSUME Waiting(d)' PROVE Known(d)'
      BY DEF Known
    <3>1. d # c /\ con_call'[d] = con_call[d]
      BY <1>1 DEF Waiting, ConOver
    <3>2. Known(d) /\ Waiting(d)
      BY <1>5, <3>1 DEF Served, Waiting
    <3>3. InTodo(d) => InTodo(d)'
      <4> SUFFICES ASSUME NEW j \in DOMAIN todo, todo[j] = AnswerKey(d) PROVE \E i \in DOMAIN todo' : todo'[i] = AnswerKey(d)
        BY DEF InTodo
      <4>1. todo # <<>> /\ j \in 1 .. Len(todo)
        BY DEF DeskOk
      <4>2. CASE todo' = todo
        BY <4>2
      <4>3. CASE Head(todo) = AnswerKey(c) /\ todo' = Tail(todo)
        <5>1. j # 1
          BY <1>3, <3>1, <4>1, <4>3 DEF AnswerKey
        <5>2. j - 1 \in 1 .. Len(todo) - 1 /\ (j - 1) + 1 = j
          BY <1>3, <4>1, <5>1
        <5>3. todo'[j - 1] = AnswerKey(d) /\ j - 1 \in DOMAIN todo'
          BY <1>3, <4>1, <4>3, <5>2
        <5> QED
          BY <5>3
      <4> QED
        BY <4>1, <4>2, <4>3
    <3> QED
      BY <3>1, <3>2, <3>3 DEF Known, InFifo
  <2>4. \A d \in ConCalls : Made(d) => con_call'[d].state # "unused"
    BY <1>1 DEF Made, ConOver
  <2>5. FifoOk'
    <3>1. \A j \in DOMAIN con_pending : con_pending[j].call \in ConCalls
      BY RequestsAre DEF DeskOk
    <3> QED
      BY <1>5, <2>4, <3>1 DEF Served, FifoOk, Made
  <2>6. BreakOk'
    <3>1. break_token # 0 => break_token \in ConCalls
      BY DEF DeskOk, ConCalls
    <3> QED
      BY <1>1, <1>5, <2>4, <3>1 DEF Served, BreakOk, Made, Waiting, ConOver
  <2> QED
    BY <2>1, <2>2, <2>3, <2>5, <2>6 DEF Served
<1> QED
  BY <1>4, <1>5 DEF Keeps

\* A new call
LEMMA NewCall ==
  ASSUME NEW c \in ConCalls, NEW b, MakesCall(c, b), DeskOk
  PROVE  todo = <<>> /\ ~Made(c) /\ b \in Nat
<1>1. c \in 1 .. c
  BY SizesAre DEF ConCalls, Sizes
<1>2. todo = <<>> /\ b \in 1 .. con_next_badge /\ con_call[c].state = "unused"
  BY <1>1 DEF MakesCall, Receiving
<1> QED
  BY <1>2 DEF Made, DeskOk

\* What the other calls keep when call c is made and waits
LEMMA OthersKnown ==
  ASSUME DeskOk, Served, NEW c \in ConCalls, NEW b \in Nat, ~Made(c), ConWaits(c, b), todo = <<>>
  PROVE  /\ con_call' \in [ConCalls -> CallRecord] /\ con_call'[c].badge = b /\ con_call'[c].state = "waiting"
         /\ \A d \in ConCalls : Made(d) => con_call'[d] = con_call[d] /\ d # c /\ con_call'[d].state # "unused"
         /\ \A d \in ConCalls : d # c => con_call'[d] = con_call[d]
         /\ \A d \in ConCalls : d # c /\ con_call'[d].state = "waiting" =>
              InFifo(d) \/ break_token = d \/ con_call'[d].badge \in con_gone
         /\ break_token # 0 => break_token # c /\ break_token \in ConCalls
<1>1. /\ con_call' \in [ConCalls -> CallRecord] /\ con_call'[c] = [state |-> "waiting", badge |-> b]
      /\ \A d \in ConCalls : d # c => con_call'[d] = con_call[d]
  BY WaitsFacts DEF DeskOk
<1>2. \A d \in ConCalls : Made(d) => con_call'[d] = con_call[d] /\ d # c /\ con_call'[d].state # "unused"
  BY <1>1 DEF Made
<1>3. ASSUME NEW d \in ConCalls, d # c, con_call'[d].state = "waiting"
      PROVE  InFifo(d) \/ break_token = d \/ con_call'[d].badge \in con_gone
  <2>1. Known(d) /\ Waiting(d)
    BY <1>1, <1>3 DEF Served, Waiting
  <2>2. ~InTodo(d)
    BY DEF InTodo
  <2> QED
    BY <1>1, <1>3, <2>1, <2>2 DEF Known
<1>4. break_token # 0 => break_token # c /\ break_token \in ConCalls
  BY DEF Served, BreakOk, DeskOk, ConCalls
<1> QED
  BY <1>1, <1>2, <1>3, <1>4

LEMMA QueueKeeps ==
  ASSUME DeskOk, NEW c \in ConCalls, NEW b, MakesCall(c, b), NEW op, NEW max,
         [call |-> c, op |-> op, max |-> max] \in Request, Queue(c, b, op, max)
  PROVE  Keeps
<1> DEFINE q == [call |-> c, op |-> op, max |-> max]
           t == <<Dispatch>> \o Turn
           n == Len(con_pending)
<1>1. todo = <<>> /\ ~Made(c) /\ b \in Nat
  BY NewCall
<1>2. /\ con_pending' = Append(con_pending, q) /\ ConWaits(c, b) /\ todo' = t
      /\ UNCHANGED <<break_token, break_badge, con_gone, con_next_badge>>
  BY DEF Queue, desk
<1>3. t \in Seq(Job) /\ t # <<>> /\ t[Len(t)] = Dispatch
  BY TodosAre
<1>4. q.call = c /\ q \in Request
  OBVIOUS
<1> HIDE DEF q, t
<1>5. /\ con_pending' \in Seq(Request) /\ n \in Nat /\ Len(con_pending') = n + 1 /\ con_pending'[n + 1] = q
      /\ \A j \in 1 .. n : con_pending'[j] = con_pending[j]
      /\ con_pending \in Seq(Request)
  BY <1>2, <1>4, AppendProperties DEF DeskOk
<1> HIDE DEF n
<1>6. DeskOk'
  BY <1>1, <1>2, <1>3, <1>5, WaitsFacts DEF DeskOk
<1>7. ASSUME Served PROVE Served'
  <2>1. /\ con_call'[c].badge = b /\ con_call'[c].state = "waiting"
        /\ \A d \in ConCalls : Made(d) => con_call'[d] = con_call[d] /\ d # c /\ con_call'[d].state # "unused"
        /\ \A d \in ConCalls : d # c /\ con_call'[d].state = "waiting" =>
             InFifo(d) \/ break_token = d \/ con_call'[d].badge \in con_gone
        /\ break_token # 0 => break_token # c /\ break_token \in ConCalls
    BY <1>1, <1>2, <1>7, OthersKnown
  <2>2. Idle' /\ EndsInDispatch'
    BY <1>2, <1>3 DEF Idle, EndsInDispatch
  <2>3. DOMAIN con_pending' = 1 .. n + 1 /\ DOMAIN con_pending = 1 .. n
    BY <1>5, LenProperties DEF n
  <2>4. InFifo(c)'
    BY <1>4, <1>5, <2>3 DEF InFifo
  <2>5. ASSUME NEW d \in ConCalls PROVE Known(d)'
    <3>1. InFifo(d) => InFifo(d)'
      BY <1>5, <2>3 DEF InFifo
    <3> QED
      BY <1>2, <2>1, <2>4, <3>1 DEF Known, Waiting
  <2>6. FifoOk'
    <3>1. \A j \in 1 .. n : con_pending'[j] = con_pending[j] /\ con_pending[j].call \in ConCalls /\ Made(con_pending[j].call)
      BY <1>5, <1>7, <2>3, RequestsAre DEF Served, FifoOk
    <3>2. \A j \in 1 .. n : con_pending[j].call # c
      BY <1>1, <3>1
    <3>3. \A j, k \in 1 .. n : con_pending[j].call = con_pending[k].call => j = k
      BY <1>7, <2>3 DEF Served, FifoOk
    <3>4. \A j \in 1 .. n + 1 : j = n + 1 \/ j \in 1 .. n
      BY <1>5
    <3>5. ASSUME NEW j \in 1 .. n + 1 PROVE con_call'[con_pending'[j].call].state # "unused"
      BY <1>4, <1>5, <2>1, <3>1, <3>4
    <3>6. ASSUME NEW j \in 1 .. n + 1, NEW k \in 1 .. n + 1, con_pending'[j].call = con_pending'[k].call PROVE j = k
      BY <1>4, <1>5, <3>1, <3>2, <3>3, <3>4, <3>6
    <3> QED
      BY <2>3, <3>5, <3>6 DEF FifoOk, Made
  <2>7. BreakOk'
    BY <1>2, <1>7, <2>1 DEF Served, BreakOk, Made, Waiting
  <2> QED
    BY <2>2, <2>5, <2>6, <2>7 DEF Served
<1> QED
  BY <1>6, <1>7 DEF Keeps

LEMMA PollKeyKeeps ==
  ASSUME DeskOk, NEW c \in ConCalls, NEW b, PollKey(c, b)
  PROVE  Keeps
<1> DEFINE t == Turn \o <<AnswerKey(c)>> \o Turn
<1>1. todo = <<>> /\ ~Made(c) /\ b \in Nat
  BY NewCall DEF PollKey
<1>2. /\ ConWaits(c, b) /\ todo' = t
      /\ UNCHANGED <<con_pending, break_token, break_badge, con_gone, con_next_badge>>
  BY DEF PollKey, desk
<1>3. t \in Seq(Job) /\ t # <<>> /\ t[Len(t)] = Dispatch /\ \E j \in DOMAIN t : t[j] = AnswerKey(c)
  BY TodosAre
<1> HIDE DEF t
<1>4. DeskOk'
  BY <1>1, <1>2, <1>3, WaitsFacts DEF DeskOk
<1>5. ASSUME Served PROVE Served'
  <2>1. /\ con_call'[c].badge = b /\ con_call'[c].state = "waiting"
        /\ \A d \in ConCalls : Made(d) => con_call'[d] = con_call[d] /\ d # c /\ con_call'[d].state # "unused"
        /\ \A d \in ConCalls : d # c /\ con_call'[d].state = "waiting" =>
             InFifo(d) \/ break_token = d \/ con_call'[d].badge \in con_gone
        /\ break_token # 0 => break_token # c /\ break_token \in ConCalls
    BY <1>1, <1>2, <1>5, OthersKnown
  <2>2. Idle' /\ EndsInDispatch'
    BY <1>2, <1>3 DEF Idle, EndsInDispatch
  <2>3. InTodo(c)'
    BY <1>2, <1>3 DEF InTodo
  <2>4. ASSUME NEW d \in ConCalls PROVE Known(d)'
    BY <1>2, <2>1, <2>3 DEF Known, Waiting, InFifo
  <2>5. FifoOk'
    <3>1. \A j \in DOMAIN con_pending : con_pending[j].call \in ConCalls
      BY RequestsAre DEF DeskOk
    <3> QED
      BY <1>2, <1>5, <2>1, <3>1 DEF Served, FifoOk, Made
  <2>6. BreakOk'
    BY <1>2, <1>5, <2>1 DEF Served, BreakOk, Made, Waiting
  <2> QED
    BY <2>2, <2>4, <2>5, <2>6 DEF Served
<1> QED
  BY <1>4, <1>5 DEF Keeps

LEMMA BreakWaitKeeps ==
  ASSUME DeskOk, NEW c \in ConCalls, NEW b, MakesCall(c, b), break_token = 0, break_token' = c, break_badge' = b,
         ConWaits(c, b), todo' = Turn, UNCHANGED <<con_pending, con_gone, con_next_badge>>
  PROVE  Keeps
<1>1. todo = <<>> /\ ~Made(c) /\ b \in Nat
  BY NewCall
<1>2. Turn \in Seq(Job) /\ Turn # <<>> /\ Turn[Len(Turn)] = Dispatch
  BY TodosAre
<1>3. DeskOk'
  <2>1. c \in 0 .. NConCalls
    BY SizesAre DEF ConCalls, Sizes
  <2> QED
    BY <1>1, <1>2, <2>1, WaitsFacts DEF DeskOk
<1>4. ASSUME Served PROVE Served'
  <2>1. /\ con_call'[c].badge = b /\ con_call'[c].state = "waiting"
        /\ \A d \in ConCalls : Made(d) => con_call'[d] = con_call[d] /\ d # c /\ con_call'[d].state # "unused"
        /\ \A d \in ConCalls : d # c /\ con_call'[d].state = "waiting" =>
             InFifo(d) \/ break_token = d \/ con_call'[d].badge \in con_gone
    BY <1>1, <1>4, OthersKnown
  <2>2. Idle' /\ EndsInDispatch'
    BY <1>2 DEF Idle, EndsInDispatch
  <2>3. ASSUME NEW d \in ConCalls PROVE Known(d)'
    <3>1. 0 \notin ConCalls
      BY DEF ConCalls
    <3> QED
      BY <2>1, <3>1 DEF Known, Waiting, InFifo
  <2>4. FifoOk'
    <3>1. \A j \in DOMAIN con_pending : con_pending[j].call \in ConCalls
      BY RequestsAre DEF DeskOk
    <3> QED
      BY <1>4, <2>1, <3>1 DEF Served, FifoOk, Made
  <2>5. BreakOk'
    BY <2>1 DEF BreakOk, Made, Waiting
  <2> QED
    BY <2>2, <2>3, <2>4, <2>5 DEF Served
<1> QED
  BY <1>3, <1>4 DEF Keeps

\* client_gone: the break waiter it forgets is a call on the stream that was closed.
LEMMA GoneKeeps ==
  ASSUME DeskOk, NEW b, ConClientGone(b)
  PROVE  Keeps
<1>1. /\ todo = <<>> /\ todo' = Turn /\ con_gone' = con_gone \cup {b}
      /\ break_token' = IF break_badge = b THEN 0 ELSE break_token
      /\ UNCHANGED <<con_next_badge, break_badge, con_pending, con_call>>
  BY DEF ConClientGone, Receiving, BreakAfter
<1>2. Turn \in Seq(Job) /\ Turn # <<>> /\ Turn[Len(Turn)] = Dispatch
  BY TodosAre
<1>3. DeskOk'
  BY <1>1, <1>2, SizesAre DEF DeskOk, Sizes
<1>4. ASSUME Served PROVE Served'
  <2>1. Idle' /\ EndsInDispatch'
    BY <1>1, <1>2 DEF Idle, EndsInDispatch
  <2>2. ASSUME NEW c \in ConCalls PROVE Known(c)'
    <3>1. Known(c) /\ ~InTodo(c) /\ c # 0
      BY <1>1, <1>4 DEF Served, InTodo, ConCalls
    <3>2. Waiting(c) /\ break_token = c => con_call[c].badge = break_badge
      BY <1>4, <3>1 DEF Served, BreakOk
    <3> QED
      BY <1>1, <3>1, <3>2 DEF Known, Waiting, InFifo
  <2>3. FifoOk' /\ BreakOk'
    BY <1>1, <1>4 DEF Served, FifoOk, BreakOk, Made, Waiting
  <2> QED
    BY <2>1, <2>2, <2>3 DEF Served
<1> QED
  BY <1>3, <1>4 DEF Keeps

----------------------------------------------------------------------------
(* Every step                                                                *)

LEMMA HandKeyKeeps ==
  ASSUME DeskOk, RingOk, HandKey
  PROVE  Keeps
<1> DEFINE q == con_pending[1]
           k == keys[key_head]
<1>1. /\ todo # <<>> /\ con_pending # <<>> /\ con_pending' = Tail(con_pending) /\ Wanted(k)
      /\ UNCHANGED <<todo, break_token, break_badge, con_gone, con_next_badge>>
      /\ \/ ConReply({q.call})
         \/ con_call' = con_call /\ (~Waiting(q.call) \/ ~ConFits(k))
  BY DEF HandKey, KeyToServe, Dispatching, desk
<1>2. q \in Request
  <2>1. con_pending \in Seq(Request)
    BY DEF DeskOk
  <2> QED
    BY <1>1, <2>1
<1>3. k \in Key
  BY DEF RingOk
<1>4. ReadsFit => ConFits(k)
  <2>1. Len(ConBytes(k)) \in 1 .. 2
    BY <1>3, BytesFacts
  <2>2. q.op \in {"read", "key"} /\ q.max \in Nat /\ (q.op = "read" => q.max \in Maxes)
    BY <1>2, RequestsAre
  <2> HIDE DEF q, k
  <2>3. ASSUME ReadsFit, q.op = "read" PROVE Len(ConBytes(k)) <= q.max
    <3>1. q.max >= 2
      BY <2>2, <2>3 DEF ReadsFit
    <3>2. \A n \in 1 .. 2, m \in Nat : m >= 2 => n <= m
      OBVIOUS
    <3> QED
      BY <2>1, <2>2, <3>1, <3>2
  <2> QED
    BY <2>2, <2>3 DEF ConFits, q
<1> QED
  BY <1>1, <1>4, FirstEnds

LEMMA NextKeeps ==
  ASSUME DeskOk, RingOk, ConNext
  PROVE  Keeps
<1>0. con_next_badge \in Nat /\ con_pending \in Seq(Request)
  BY DEF DeskOk
<1>t. Turn # <<>>
  BY TodosAre
<1>1. CASE ServeReady
  BY <1>1, FirstEnds DEF ServeReady, Dispatching, ReadyToServe, desk
<1>2. CASE HandKey
  BY <1>2, HandKeyKeeps
<1>3. CASE SkipKey
  <2>1. todo # <<>> /\ todo' = todo /\ UNCHANGED <<con_pending, con_call, break_token, break_badge, con_gone, con_next_badge>>
    BY <1>3 DEF SkipKey, KeyToServe, Dispatching, desk
  <2> QED
    BY <1>0, <2>1, NothingAnswered
<1>4. CASE EditKey
  <2>1. todo # <<>> /\ todo' = todo /\ UNCHANGED <<con_pending, con_call, break_token, break_badge, con_gone, con_next_badge>>
    BY <1>4 DEF EditKey, KeyToServe, Dispatching, desk
  <2> QED
    BY <1>0, <2>1, NothingAnswered
<1>5. CASE DispatchEnd
  <2>1. /\ todo # <<>> /\ Head(todo) = Dispatch /\ todo' = Tail(todo) /\ ~ReadyToServe /\ (con_pending = <<>> \/ key_count = 0)
        /\ UNCHANGED <<con_pending, con_call, break_token, break_badge, con_gone, con_next_badge, ready, ready_eof, key_count>>
    BY <1>5 DEF DispatchEnd, Dispatching, desk, line, input
  <2> QED
    BY <2>1, TodoEnds
<1>6. CASE PollEnd
  <2>1. /\ todo # <<>> /\ Head(todo) = Poll /\ todo' = Tail(todo)
        /\ UNCHANGED <<con_pending, con_call, break_token, break_badge, con_gone, con_next_badge, ready, ready_eof, key_count>>
    BY <1>6 DEF PollEnd, Polling, desk, line, input
  <2> QED
    BY <2>1, TodoEnds, JobsAre
<1>7. CASE Timeout
  <2>1. todo = <<>> /\ todo' = Turn /\ UNCHANGED <<con_pending, con_call, break_token, break_badge, con_gone, con_next_badge>>
    BY <1>7 DEF Timeout, Receiving, desk
  <2> QED
    BY <1>0, <1>t, <2>1, NothingAnswered
<1>8. ASSUME NEW kind \in Kinds, AcceptKey(kind) PROVE Keeps
  <2>1. todo # <<>> /\ todo' = todo
    BY <1>8 DEF AcceptKey, Polling
  <2>2. TakeBreak \/ UNCHANGED <<con_pending, con_call, break_token, break_badge, con_gone, con_next_badge>>
    BY <1>8 DEF AcceptKey, desk
  <2> QED
    BY <1>0, <2>1, <2>2, BreakKeeps, NothingAnswered
<1>9. ASSUME NEW read \in BOOLEAN, DevOpen(read) PROVE Keeps
  <2>1. todo = <<>> /\ todo' = Turn /\ UNCHANGED <<con_pending, con_call, break_token, break_badge, con_gone>>
        /\ con_next_badge' = con_next_badge + 1
    BY <1>9 DEF DevOpen, Receiving
  <2> QED
    BY <1>0, <1>t, <2>1, NothingAnswered
<1>10. ASSUME NEW b \in Given, ConClientGone(b) PROVE Keeps
  BY <1>10, GoneKeeps
<1>11. ASSUME NEW b \in Given, NEW m \in {"line", "raw"}, SetMode(b, m) PROVE Keeps
  <2>1. todo = <<>> /\ todo' = Turn /\ UNCHANGED <<con_pending, con_call, break_token, break_badge, con_gone, con_next_badge>>
    BY <1>11 DEF SetMode, Receiving
  <2> QED
    BY <1>0, <1>t, <2>1, NothingAnswered
<1>12. ASSUME NEW c \in ConCalls, ConKill(c) PROVE Keeps
  <2>1. /\ ConReply({c}) /\ todo' = todo
        /\ UNCHANGED <<key_count, ready, ready_eof, con_pending, break_token, break_badge, con_gone, con_next_badge>>
    BY <1>12 DEF ConKill, desk, line, input
  <2> QED
    BY <2>1, AnswerKeeps
<1>13. ASSUME NEW c \in ConCalls, PollKeyEnd(c) PROVE Keeps
  <2>1. /\ ConReply({c}) /\ todo # <<>> /\ Head(todo) = AnswerKey(c) /\ todo' = Tail(todo)
        /\ UNCHANGED <<con_pending, break_token, break_badge, con_gone, con_next_badge>>
    BY <1>13 DEF PollKeyEnd, desk
  <2> QED
    BY <2>1, AnswerKeeps
<1>14. ASSUME NEW c \in ConCalls, NEW b, MakesCall(c, b), ConRefused(c) PROVE Keeps
  <2>1. /\ ConReply({c}) /\ todo = <<>> /\ todo' = Turn
        /\ UNCHANGED <<con_pending, break_token, break_badge, con_gone, con_next_badge>>
    BY <1>14 DEF ConRefused, MakesCall, Receiving, desk
  <2> QED
    BY <2>1, AnswerKeeps
<1>15. ASSUME NEW c \in ConCalls, NEW b \in Given, ReadKey(c, b) PROVE Keeps
  <2>1. [call |-> c, op |-> "key", max |-> 0] \in Request
    BY DEF Request
  <2>2. MakesCall(c, b) /\ (Queue(c, b, "key", 0) \/ ConRefused(c))
    BY <1>15 DEF ReadKey
  <2> QED
    BY <1>14, <2>1, <2>2, QueueKeeps
<1>16. ASSUME NEW c \in ConCalls, NEW b \in Given, NEW max \in Maxes, ConStRead(c, b, max) PROVE Keeps
  <2>1. [call |-> c, op |-> "read", max |-> max] \in Request
    BY DEF Request
  <2>2. MakesCall(c, b) /\ (Queue(c, b, "read", max) \/ ConRefused(c))
    BY <1>16 DEF ConStRead
  <2> QED
    BY <1>14, <2>1, <2>2, QueueKeeps
<1>17. ASSUME NEW c \in ConCalls, NEW b \in Given, PollKey(c, b) PROVE Keeps
  BY <1>17, PollKeyKeeps
<1>18. ASSUME NEW c \in ConCalls, NEW b \in Given, BreakWait(c, b) PROVE Keeps
  <2>1. MakesCall(c, b)
    BY <1>18 DEF BreakWait
  <2>2. \/ ConRefused(c)
        \/ /\ break_token = 0 /\ break_token' = c /\ break_badge' = b /\ ConWaits(c, b) /\ todo' = Turn
           /\ UNCHANGED <<con_pending, con_gone, con_next_badge>>
    BY <1>18 DEF BreakWait
  <2> QED
    BY <1>14, <2>1, <2>2, BreakWaitKeeps
<1> QED
  BY <1>1, <1>2, <1>3, <1>4, <1>5, <1>6, <1>7, <1>8, <1>9, <1>10, <1>11, <1>12, <1>13, <1>15, <1>16, <1>17, <1>18, ActionsAre

\* The keys and lines: every accepted key is used once and in order.
InputInv == RingOk /\ Queued = ahead /\ LineInv

LEMMA NextInput ==
  ASSUME DeskOk, InputInv, ConNext
  PROVE  InputInv'
<1>0. RingOk /\ Queued = ahead /\ LineInv
  BY DEF InputInv
<1>a. ASSUME UNCHANGED line PROVE LineInv'
  BY <1>0, <1>a DEF line, LineInv, LineOk
<1>b. ASSUME UNCHANGED input, typed' \in Nat PROVE RingOk' /\ (Queued = ahead)'
  BY <1>0, <1>b DEF input, RingOk, Queued
<1>c. ASSUME UNCHANGED <<input, line, typed>> PROVE InputInv'
  BY <1>0, <1>a, <1>b, <1>c DEF InputInv, RingOk
<1>d. ASSUME TakeKey, key_count > 0, UNCHANGED <<line, typed>> PROVE InputInv'
  <2>1. RingOk' /\ (Queued = ahead)'
    BY <1>0, <1>d, TakeKeeps
  <2> QED
    BY <1>a, <1>d, <2>1 DEF InputInv
<1>1. CASE ServeReady
  <2>1. LineInv'
    BY <1>0, <1>1, ServeLine
  <2>2. UNCHANGED <<input, typed>>
    BY <1>1 DEF ServeReady
  <2> QED
    BY <1>0, <1>b, <2>1, <2>2 DEF InputInv, RingOk
<1>2. CASE HandKey
  <2>1. key_count > 0 /\ UNCHANGED <<line, typed>> /\ (TakeKey \/ PutBack)
    BY <1>2 DEF HandKey, KeyToServe
  <2>2. CASE PutBack
    <3>1. RingOk' /\ (Queued = ahead)'
      BY <1>0, <2>1, <2>2, PutBackKeeps
    <3> QED
      BY <1>a, <2>1, <3>1 DEF InputInv
  <2> QED
    BY <1>d, <2>1, <2>2
<1>3. CASE SkipKey
  BY <1>d, <1>3 DEF SkipKey, KeyToServe
<1>4. CASE EditKey
  <2>1. /\ key_count > 0 /\ TakeKey /\ LineKey(keys[key_head]) /\ UNCHANGED typed
        /\ con_pending # <<>> /\ con_pending[1].op = "read" /\ ~ReadyToServe
    BY <1>4 DEF EditKey, KeyToServe
  <2>2. RingOk' /\ (Queued = ahead)' /\ keys[key_head] \in Key
    BY <1>0, <2>1, TakeKeeps
  <2>3. ready = <<>> /\ ready_eof = FALSE
    BY <1>0, <2>1 DEF ReadyToServe, LineInv, LineOk
  <2>4. LineInv'
    BY <1>0, <2>1, <2>2, <2>3, LineKeyKeeps
  <2> QED
    BY <2>2, <2>4 DEF InputInv
<1>5. CASE DispatchEnd \/ PollEnd \/ Timeout
  BY <1>5, <1>c DEF DispatchEnd, PollEnd, Timeout
<1>6. ASSUME NEW kind \in Kinds, AcceptKey(kind) PROVE InputInv'
  <2>1. typed' = typed + 1 /\ typed' \in Nat /\ typed \in Nat
    BY <1>0, <1>6 DEF AcceptKey, RingOk
  <2>2. CASE TakeBreak
    <3>1. /\ edit' = <<>> /\ key_count' = 0 /\ ahead' = <<>>
          /\ UNCHANGED <<keys, key_head, ready, ready_pos, ready_eof, con_owed>>
      BY <2>2 DEF TakeBreak
    <3>2. RingOk'
      BY <1>0, <2>1, <3>1, SizesAre DEF RingOk, Sizes
    <3>3. Queued' = <<>>
      BY <3>1 DEF Queued
    <3>4. LineInv'
      BY <1>0, <3>1, SizesAre DEF LineInv, LineOk, Whole, Sizes
    <3> QED
      BY <3>1, <3>2, <3>3, <3>4 DEF InputInv
  <2>3. CASE UNCHANGED <<input, line>>
    BY <1>a, <1>b, <2>1, <2>3 DEF InputInv
  <2>4. CASE /\ key_count < NKeys
             /\ keys' = [keys EXCEPT ![(key_head + key_count) % NKeys] = <<typed + 1, kind>>]
             /\ key_count' = key_count + 1 /\ ahead' = Append(ahead, <<typed + 1, kind>>)
             /\ UNCHANGED <<key_head, line>>
    <3>1. <<typed + 1, kind>> \in Key
      BY <2>1 DEF Key
    <3>2. RingOk' /\ (Queued = ahead)'
      BY <1>0, <2>1, <2>4, <3>1, AcceptKeeps
    <3> QED
      BY <1>a, <2>4, <3>2 DEF InputInv
  <2> QED
    BY <1>6, <2>2, <2>3, <2>4 DEF AcceptKey
<1>7. ASSUME NEW c \in ConCalls, PollKeyEnd(c) PROVE InputInv'
  <2>1. UNCHANGED <<line, typed>> /\ ((TakeKey /\ key_count > 0) \/ UNCHANGED input)
    BY <1>7 DEF PollKeyEnd
  <2> QED
    BY <1>c, <1>d, <2>1
<1>8. ASSUME NEW b \in Given, NEW c \in ConCalls, ReadKey(c, b) \/ PollKey(c, b) \/ BreakWait(c, b) \/ \E max \in Maxes : ConStRead(c, b, max)
      PROVE  InputInv'
  <2>1. UNCHANGED <<input, line, typed>>
    BY <1>8 DEF ReadKey, PollKey, BreakWait, ConStRead, Queue, ConRefused
  <2> QED
    BY <1>c, <2>1
<1>9. ASSUME NEW b \in Given, ConClientGone(b) \/ \E m \in {"line", "raw"} : SetMode(b, m) PROVE InputInv'
  <2>1. UNCHANGED <<input, line, typed>>
    BY <1>9 DEF ConClientGone, SetMode
  <2> QED
    BY <1>c, <2>1
<1>10. ASSUME NEW c \in ConCalls, ConKill(c) PROVE InputInv'
  BY <1>10, <1>c DEF ConKill
<1>11. ASSUME NEW read \in BOOLEAN, DevOpen(read) PROVE InputInv'
  <2>1. UNCHANGED <<input, line, typed>>
    BY <1>11 DEF DevOpen
  <2> QED
    BY <1>c, <2>1
<1> QED
  BY <1>1, <1>2, <1>3, <1>4, <1>5, <1>6, <1>7, <1>8, <1>9, <1>10, <1>11, ActionsAre

\* The invariant of the first theorem; the second adds Served.
ConInv == DeskOk /\ InputInv

LEMMA InitHolds == ConInit => ConInv /\ Served
<1> SUFFICES ASSUME ConInit PROVE ConInv /\ Served
  OBVIOUS
<1>1. Sizes
  BY SizesAre
<1>2. con_call \in [ConCalls -> CallRecord]
  <2>1. [state |-> "unused", badge |-> 0] \in CallRecord
    BY DEF CallRecord
  <2> QED
    BY <2>1 DEF ConInit
<1>3. DeskOk
  BY <1>1, <1>2 DEF ConInit, DeskOk, Sizes
<1>4. RingOk
  <2>1. NoKey \in Key
    BY DEF NoKey, Key
  <2> QED
    BY <1>1, <2>1 DEF ConInit, RingOk, Sizes
<1>5. Queued = ahead
  BY DEF ConInit, Queued
<1>6. LineInv
  <2>1. Rest(<<>>, 0) = <<>>
    BY SubSeqEmpty DEF Rest
  <2> QED
    BY <1>1, <2>1 DEF ConInit, LineInv, LineOk, Whole, Sizes
<1>7. Served
  <2>1. \A c \in ConCalls : ~Waiting(c)
    BY DEF ConInit, Waiting
  <2>2. Idle /\ EndsInDispatch /\ FifoOk /\ BreakOk
    BY DEF ConInit, Idle, ReadyToServe, EndsInDispatch, FifoOk, BreakOk
  <2> QED
    BY <2>1, <2>2 DEF Served, Known
<1> QED
  BY <1>3, <1>4, <1>5, <1>6, <1>7 DEF ConInv, InputInv

LEMMA StutterHolds == UNCHANGED con_vars /\ ConInv => ConInv' /\ (Served => Served')
<1> SUFFICES ASSUME UNCHANGED con_vars, ConInv PROVE ConInv' /\ (Served => Served')
  OBVIOUS
<1> USE DEF con_vars, desk, input, line
<1>1. DeskOk'
  BY DEF ConInv, DeskOk
<1>2. InputInv'
  BY DEF ConInv, InputInv, RingOk, Queued, LineInv, LineOk
<1>3. Served => Served'
  BY DEF Served, Idle, ReadyToServe, EndsInDispatch, Known, Waiting, InFifo, InTodo, FifoOk, Made, BreakOk
<1> QED
  BY <1>1, <1>2, <1>3 DEF ConInv

LEMMA InvImplies == ConInv => InputInOrder
<1> SUFFICES ASSUME ConInv PROVE InputInOrder
  OBVIOUS
<1>1. Queued = ahead /\ LineInv
  BY DEF ConInv, InputInv
<1> QED
  BY <1>1 DEF LineInv, InputInOrder, Whole, Rest

LEMMA ServedImplies == Served => ReadersAreServed
<1> SUFFICES ASSUME Served PROVE ReadersAreServed
  OBVIOUS
<1>1. Receiving => ~ReadyToServe /\ (con_pending = <<>> \/ key_count = 0)
  BY DEF Served, Idle, Receiving
<1>2. ASSUME Receiving, NEW c \in ConCalls, Waiting(c)
      PROVE  {j \in DOMAIN con_pending : con_pending[j].call = c} # {} \/ break_token = c \/ con_call[c].badge \in con_gone
  <2>1. Known(c) /\ ~InTodo(c)
    BY <1>2 DEF Served, InTodo, Receiving
  <2> QED
    BY <1>2, <2>1 DEF Known, InFifo
<1>3. \A j, k \in DOMAIN con_pending : con_pending[j].call = con_pending[k].call => j = k
  BY DEF Served, FifoOk
<1> QED
  BY <1>1, <1>2, <1>3 DEF ReadersAreServed

\* For any ring, FIFO and line: what was typed and accepted is used once and in order, also when a key
\* goes back into the ring, and finished lines are read completely and in order (unget_key, line_key,
\* serve_ready).
THEOREM InputIsInOrder == ConSpec => []InputInOrder
<1>1. ConInit => ConInv
  BY InitHolds
<1>2. ConInv /\ [ConNext]_con_vars => ConInv'
  <2>1. ASSUME ConInv, ConNext PROVE ConInv'
    <3>1. DeskOk /\ RingOk /\ InputInv
      BY <2>1 DEF ConInv, InputInv
    <3> QED
      BY <2>1, <3>1, NextKeeps, NextInput DEF ConInv, Keeps
  <2> QED
    BY <2>1, StutterHolds
<1>3. ConInv => InputInOrder
  BY InvImplies
<1> QED
  BY <1>1, <1>2, <1>3, PTL DEF ConSpec

\* When every read has room for any character, the service never receives again while the oldest reader
\* could have input, and holds every call that waits until it is answered or its stream is closed
\* (dispatch, take_break, client_gone).
THEOREM EveryReaderIsServed ==
  ASSUME ReadsFit
  PROVE  ConSpec => []ReadersAreServed
<1>1. ConInit => ConInv /\ Served
  BY InitHolds
<1>2. (ConInv /\ Served) /\ [ConNext]_con_vars => (ConInv /\ Served)'
  <2>1. ASSUME ConInv, Served, ConNext PROVE ConInv' /\ Served'
    <3>1. DeskOk /\ RingOk /\ InputInv
      BY <2>1 DEF ConInv, InputInv
    <3> QED
      BY <2>1, <3>1, NextKeeps, NextInput DEF ConInv, Keeps
  <2> QED
    BY <2>1, StutterHolds
<1>3. ConInv /\ Served => ReadersAreServed
  BY ServedImplies
<1> QED
  BY <1>1, <1>2, <1>3, PTL DEF ConSpec
=============================================================================

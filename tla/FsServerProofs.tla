--------------------------- MODULE FsServerProofs ---------------------------
(***************************************************************************)
(* Proofs about FsServer: objects and channels agree, a listing gives every   *)
(* entry once, and what clients hold on to stays, for volumes, tables and       *)
(* paths of any size.                                                          *)
(***************************************************************************)
EXTENDS FsServer, Integers, FiniteSetTheorems, SequenceTheorems, WellFoundedInduction, TLAPS

----------------------------------------------------------------------------
(* Numbers, and functions defined by recursion *)

\* What holds at 0 and passes from each number to the next holds up to n.
LEMMA AllUpTo ==
  ASSUME NEW n \in Nat, NEW S, 0 \in S, \A i \in 0 .. n : i < n /\ i \in S => i + 1 \in S
  PROVE  0 .. n \subseteq S
<1> DEFINE Out == {i \in 0 .. n : i \notin S}
           R == OpToRel(<, Nat)
<1>1. SUFFICES ASSUME Out # {} PROVE FALSE
  OBVIOUS
<1>2. IsWellFoundedOn(R, Nat)
  BY NatLessThanWellFounded
<1>3. \A j, k \in Nat : k < j => <<k, j>> \in R
  BY DEF OpToRel
<1>4. Out \subseteq Nat
  OBVIOUS
<1> HIDE DEF R
<1>5. PICK j \in Out : \A k \in Out : ~(<<k, j>> \in R)
  <2> HIDE DEF Out
  <2>1. QED
    BY <1>1, <1>2, <1>4, WFMin
<1>6. \A k \in Out : ~(k < j)
  <2> HIDE DEF Out
  <2>1. QED
    BY <1>3, <1>4, <1>5
<1>7. j \in 1 .. n /\ j - 1 \in 0 .. n /\ j - 1 \in S
  BY <1>6
<1>8. QED
  BY <1>5, <1>7

\* Min picks the least element of a set of numbers.
LEMMA MinIsLeast ==
  ASSUME NEW S \in SUBSET Nat, S # {}
  PROVE  Min(S) \in S /\ \A x \in S : Min(S) <= x
<1> DEFINE R == OpToRel(<, Nat)
<1>1. IsWellFoundedOn(R, Nat)
  BY NatLessThanWellFounded
<1>2. \A j, k \in Nat : k < j => <<k, j>> \in R
  BY DEF OpToRel
<1> HIDE DEF R
<1>3. PICK j \in S : \A k \in S : ~(<<k, j>> \in R)
  BY <1>1, WFMin
<1>4. ASSUME NEW k \in S PROVE j <= k
  <2>1. j \in Nat /\ k \in Nat
    OBVIOUS
  <2>2. ~(k < j)
    BY <1>2, <1>3, <2>1
  <2>3. QED
    BY <2>1, <2>2
<1>5. QED
  BY <1>4 DEF Min

\* A sequence of values in W, each from the one before by F, exists.
Runs(at, n, W, F, x) == at \in [0 .. n -> W] /\ at[0] = x /\ \A k \in 1 .. n : at[k] = F[k][at[k - 1]]
LEMMA Recursion ==
  ASSUME NEW n \in Nat, NEW W, NEW F \in [1 .. n -> [W -> W]], NEW x \in W
  PROVE  \E at : Runs(at, n, W, F, x)
<1> DEFINE Good(at, m) == at \in [0 .. m -> W] /\ at[0] = x /\ \A k \in 1 .. m : at[k] = F[k][at[k - 1]]
           S == {m \in 0 .. n : \E at : Good(at, m)}
<1>1. 0 \in S
  <2>1. Good([k \in 0 .. 0 |-> x], 0)
    OBVIOUS
  <2>2. \E at : Good(at, 0)
    BY <2>1
  <2>3. QED
    BY <2>2
<1>2. ASSUME NEW m \in 0 .. n, m < n, m \in S PROVE m + 1 \in S
  <2>1. PICK at : Good(at, m)
    BY <1>2
  <2> DEFINE more == [k \in 0 .. m + 1 |-> IF k = m + 1 THEN F[k][at[m]] ELSE at[k]]
  <2>2. F[m + 1][at[m]] \in W
    BY <1>2, <2>1
  <2>3. Good(more, m + 1)
    BY <2>1, <2>2
  <2>4. \E f : Good(f, m + 1)
    BY <2>3
  <2>5. m + 1 \in 0 .. n
    BY <1>2
  <2>6. QED
    BY <2>4, <2>5
<1>3. n \in S
  <2> HIDE DEF S
  <2>1. 0 .. n \subseteq S
    BY <1>1, <1>2, AllUpTo
  <2>2. QED
    BY <2>1
<1>4. PICK at : Good(at, n)
  BY <1>3
<1>5. QED
  BY <1>4 DEF Runs

----------------------------------------------------------------------------
(* Trees *)

Tree == [T!Inodes -> T!InodeRecords]
Entry == (T!Inodes \X Names) \cup {T!NoEntry}

\* What of an inode is not its entries.
SameButSlots(a, b) == a.type = b.type /\ a.parent = b.parent /\ a.mode = b.mode /\ a.data = b.data

\* The inodes of u other than those in D are those of t.
SameElsewhere(t, u, D) == \A x \in T!Inodes \ D : u[x] = t[x]

\* The entries of d in u are those of t, but for slot s.
SameSlotsBut(t, u, d, s) ==
  /\ T!Used(u, d) \ {s} = T!Used(t, d) \ {s}
  /\ \A k \in T!Used(t, d) \ {s} : u[d].slots[k] = t[d].slots[k]

LEMMA UsedAreSlots ==
  ASSUME NEW t \in Tree, NEW d \in T!Inodes
  PROVE  /\ T!Used(t, d) = {k \in 1 .. Len(t[d].slots) : t[d].slots[k] # T!NoEntry}
         /\ t[d].slots \in Seq(Entry) /\ Len(t[d].slots) \in Nat
         /\ T!Used(t, d) \subseteq Nat \ {0}
         /\ \A k \in T!Used(t, d) : /\ t[d].slots[k] \in T!Inodes \X Names
                                    /\ t[d].slots[k][1] \in T!Inodes /\ t[d].slots[k][2] \in Names
<1>1. t[d].slots \in Seq(Entry)
  BY DEF Tree, Entry, T!InodeRecords
<1>2. DOMAIN t[d].slots = 1 .. Len(t[d].slots) /\ Len(t[d].slots) \in Nat
  BY <1>1
<1>3. \A k \in 1 .. Len(t[d].slots) : t[d].slots[k] \in Entry
  BY <1>1
<1>4. T!Used(t, d) = {k \in 1 .. Len(t[d].slots) : t[d].slots[k] # T!NoEntry}
  BY <1>2 DEF T!Used
<1>5. ASSUME NEW k \in T!Used(t, d) PROVE t[d].slots[k] \in T!Inodes \X Names
  BY <1>3, <1>4 DEF Entry
<1>6. QED
  BY <1>1, <1>2, <1>4, <1>5

\* Setting slot s of d to e: s is a slot d has, or the one after.
IsSlot(t, d, s) == s \in 1 .. Len(t[d].slots) + 1
SlotBecomes(t, u, d, s, e) ==
  /\ u \in Tree /\ SameElsewhere(t, u, {d}) /\ SameButSlots(u[d], t[d]) /\ SameSlotsBut(t, u, d, s)
  /\ s \in T!Used(u, d) <=> e # T!NoEntry
  /\ u[d].slots[s] = e

LEMMA SlotSet ==
  ASSUME NEW t \in Tree, NEW d \in T!Inodes, NEW s, IsSlot(t, d, s), NEW e \in Entry
  PROVE  SlotBecomes(t, T!SetSlot(t, d, s, e), d, s, e)
<1> DEFINE old == t[d].slots
           n == IF s > Len(old) THEN s ELSE Len(old)
           new == [k \in 1 .. n |-> IF k = s THEN e ELSE old[k]]
           u == [t EXCEPT ![d] = [t[d] EXCEPT !.slots = new]]
<1>1. old \in Seq(Entry) /\ Len(old) \in Nat /\ s \in 1 .. Len(old) + 1 /\ n \in Nat
  BY UsedAreSlots DEF IsSlot
<1>2. \A k \in 1 .. Len(old) : old[k] \in Entry
  BY <1>1
<1>3. \A k \in 1 .. n : new[k] \in Entry
  BY <1>1, <1>2
<1>4. new \in Seq(Entry) /\ Len(new) = n
  BY <1>1, <1>3, IsASeq
<1>5. T!SetSlot(t, d, s, e) = u
  BY DEF T!SetSlot
<1>6. t[d] \in T!InodeRecords /\ T!InodeRecords = [type : {"free", "file", "dir"}, parent : 0 .. NInodes, mode : {0} \cup {0}, slots : Seq(Entry), data : Seq({1} \cup {0})]
  BY DEF Tree, T!InodeRecords, Entry
<1> HIDE DEF new, n, old
<1>7. [t[d] EXCEPT !.slots = new] \in T!InodeRecords /\ SameButSlots([t[d] EXCEPT !.slots = new], t[d])
      /\ [t[d] EXCEPT !.slots = new].slots = new
  BY <1>4, <1>6 DEF SameButSlots
<1>8. u \in Tree /\ u[d].slots = new /\ SameButSlots(u[d], t[d]) /\ SameElsewhere(t, u, {d})
  BY <1>7 DEF Tree, SameElsewhere
<1> HIDE DEF u
<1>9. T!Used(u, d) = {k \in 1 .. n : new[k] # T!NoEntry}
  BY <1>4, <1>8, UsedAreSlots
<1>10. T!Used(t, d) = {k \in 1 .. Len(old) : old[k] # T!NoEntry}
  BY UsedAreSlots DEF old
<1>11. s \in 1 .. n /\ new[s] = e /\ \A k \in 1 .. n : k # s => k \in 1 .. Len(old) /\ new[k] = old[k]
  BY <1>1 DEF new, n, old, IsSlot
<1>12. \A k \in 1 .. Len(old) : k # s => k \in 1 .. n /\ new[k] = old[k]
  BY <1>1 DEF new, n
<1>13. SameSlotsBut(t, u, d, s)
  BY <1>8, <1>9, <1>10, <1>11, <1>12 DEF SameSlotsBut, old
<1>14. QED
  BY <1>5, <1>8, <1>9, <1>11, <1>13 DEF SlotBecomes

\* Of n + 1 elements of a set of n, two are the same.
LEMMA OneTwice ==
  ASSUME NEW n \in Nat, NEW Z, IsFiniteSet(Z), Cardinality(Z) = n, NEW f \in [0 .. n -> Z]
  PROVE  \E a, b \in 0 .. n : a < b /\ f[a] = f[b]
<1> DEFINE I == 0 .. n
<1>1. IsFiniteSet(I) /\ Cardinality(I) = n + 1
  BY FS_Interval
<1>2. Cardinality(Z) < Cardinality(I) /\ f \in [I -> Z]
  BY <1>1
<1> HIDE DEF I
<1>3. \E i, j \in I : i # j /\ f[i] = f[j]
  BY <1>1, <1>2, FS_PigeonHole
<1>4. PICK i \in 0 .. n, j \in 0 .. n : i # j /\ f[i] = f[j]
  BY <1>3 DEF I
<1>5. i < j \/ j < i
  BY <1>4
<1>6. QED
  BY <1>4, <1>5

\* Going up from inode to inode never takes more steps than there are inodes without passing the root.
LEMMA NoLongChain ==
  ASSUME NEW t, T!IsTree(t), NEW x \in [0 .. NInodes -> T!Inodes],
         \A k \in 0 .. NInodes : x[k] # T!Root, \A k \in 0 .. NInodes - 1 : x[k + 1] = t[x[k]].parent
  PROVE  FALSE
<1>1. NInodes \in Nat \ {0} /\ T!Inodes = 1 .. NInodes
  BY DisksAssumption DEF T!Inodes
<1>2. IsFiniteSet(T!Inodes) /\ Cardinality(T!Inodes) = NInodes
  BY <1>1, FS_Interval
<1>3. PICK a \in 0 .. NInodes, b \in 0 .. NInodes : a < b /\ x[a] = x[b]
  BY <1>1, <1>2, OneTwice
<1> DEFINE S == {x[k] : k \in a + 1 .. b}
<1>4. \A k \in a + 1 .. b : k \in 0 .. NInodes
  BY <1>1, <1>3
<1>5. S \in SUBSET T!Inodes
  BY <1>4
<1>6. S # {}
  <2>1. b \in a + 1 .. b
    BY <1>1, <1>3
  <2>2. QED
    BY <2>1
<1>7. ASSUME NEW k \in a + 1 .. b PROVE x[k] # T!Root /\ t[x[k]].parent \in S
  <2>1. CASE k = b
    <3>1. a + 1 \in a + 1 .. b /\ a \in 0 .. NInodes - 1
      BY <1>1, <1>3
    <3>2. t[x[a]].parent = x[a + 1]
      BY <3>1
    <3>3. QED
      BY <1>3, <1>4, <2>1, <3>1, <3>2
  <2>2. CASE k # b
    <3>1. k + 1 \in a + 1 .. b /\ k \in 0 .. NInodes - 1
      BY <1>1, <1>3, <2>2
    <3>2. QED
      BY <1>4, <3>1
  <2>3. QED
    BY <2>1, <2>2
<1>8. \A S1 \in SUBSET T!Inodes : S1 # {} => \E i1 \in S1 : i1 = T!Root \/ t[i1].parent \notin S1
  BY DEF T!IsTree
<1>9. PICK i1 \in S : i1 = T!Root \/ t[i1].parent \notin S
  <2> HIDE DEF S
  <2>1. QED
    BY <1>5, <1>6, <1>8
<1>10. QED
  BY <1>7, <1>9

\* The way up from an inode, one step at a time, and what is above the inode.
Climb(t, i, up) ==
  /\ up \in [0 .. NInodes -> 0 .. NInodes]
  /\ T!Above(t, i) = {up[k] : k \in 0 .. NInodes}
  /\ up[0] = i
  /\ \A k \in 1 .. NInodes : up[k] = IF up[k - 1] \in {T!Root, 0} THEN up[k - 1] ELSE t[up[k - 1]].parent

\* Every inode of a tree has a way up, and what is above it lies on that way.
LEMMA AboveIs ==
  ASSUME NEW t, T!IsTree(t), NEW i \in T!Inodes
  PROVE  \E up : Climb(t, i, up)
<1>1. NInodes \in Nat \ {0} /\ T!Inodes = 1 .. NInodes
  BY DisksAssumption DEF T!Inodes
<1> DEFINE next(j) == IF j \in {T!Root, 0} THEN j ELSE t[j].parent
           F == [k \in 1 .. NInodes |-> [j \in 0 .. NInodes |-> next(j)]]
           IsUp(up) == up = [k \in 0 .. NInodes |-> IF k = 0 THEN i ELSE next(up[k - 1])]
<1>2. ASSUME NEW j \in 0 .. NInodes PROVE next(j) \in 0 .. NInodes
  <2>1. CASE j = 0
    BY <2>1
  <2>2. CASE j # 0
    <3>1. j \in T!Inodes
      BY <1>1, <2>2
    <3>2. t[j].parent \in 0 .. NInodes
      BY <3>1 DEF T!IsTree, T!InodeRecords
    <3>3. QED
      BY <3>2
  <2>3. QED
    BY <2>1, <2>2
<1>3. F \in [1 .. NInodes -> [0 .. NInodes -> 0 .. NInodes]]
  <2> HIDE DEF next
  <2>1. QED
    BY <1>2
<1>4. PICK at \in [0 .. NInodes -> 0 .. NInodes] : at[0] = i /\ \A k \in 1 .. NInodes : at[k] = F[k][at[k - 1]]
  <2> DEFINE W == 0 .. NInodes
  <2>1. i \in W /\ NInodes \in Nat /\ F \in [1 .. NInodes -> [W -> W]]
    BY <1>1, <1>3
  <2> HIDE DEF F, W
  <2>2. \E at : Runs(at, NInodes, W, F, i)
    BY <2>1, Recursion
  <2>3. QED
    BY <2>2 DEF W, Runs
<1>5. \A k \in 1 .. NInodes : k - 1 \in 0 .. NInodes /\ at[k] = next(at[k - 1])
  <2> HIDE DEF next
  <2>1. \A k \in 1 .. NInodes : k - 1 \in 0 .. NInodes
    BY <1>1
  <2>2. QED
    BY <1>4, <2>1
<1>6. IsUp(at)
  <2> HIDE DEF next
  <2>1. \A k \in 0 .. NInodes : at[k] = IF k = 0 THEN i ELSE next(at[k - 1])
    BY <1>1, <1>4, <1>5
  <2>2. QED
    BY <2>1
<1> DEFINE up == CHOOSE f : IsUp(f)
<1>7. IsUp(up)
  <2> HIDE DEF IsUp
  <2>1. QED
    BY <1>6
<1>8. T!Above(t, i) = {up[k] : k \in 0 .. NInodes}
  BY DEF T!Above
<1> HIDE DEF up
<1>9. up = at
  <2> DEFINE S == {k \in 0 .. NInodes : up[k] = at[k]}
  <2> HIDE DEF next
  <2>1. \A k \in 0 .. NInodes : up[k] = IF k = 0 THEN i ELSE next(up[k - 1])
    BY <1>7
  <2>2. 0 \in S
    <3>1. 0 \in 0 .. NInodes
      BY <1>1
    <3>2. QED
      BY <1>4, <2>1, <3>1
  <2>3. ASSUME NEW k \in 0 .. NInodes, k < NInodes, k \in S PROVE k + 1 \in S
    <3>1. k + 1 \in 1 .. NInodes /\ (k + 1) - 1 = k
      BY <1>1, <2>3
    <3>2. up[k + 1] = next(up[k]) /\ at[k + 1] = next(at[k])
      BY <1>5, <2>1, <3>1
    <3>3. QED
      BY <2>3, <3>1, <3>2
  <2>4. 0 .. NInodes \subseteq S
    <3> HIDE DEF S
    <3>1. QED
      BY <1>1, <2>2, <2>3, AllUpTo
  <2>5. DOMAIN up = 0 .. NInodes /\ up = [k \in DOMAIN up |-> up[k]]
    BY <1>7
  <2>6. QED
    BY <2>4, <2>5
<1>10. /\ T!Above(t, i) = {at[k] : k \in 0 .. NInodes}
       /\ \A k \in 1 .. NInodes : at[k] = IF at[k - 1] \in {T!Root, 0} THEN at[k - 1] ELSE t[at[k - 1]].parent
  BY <1>5, <1>8, <1>9
<1>11. Climb(t, i, at)
  BY <1>4, <1>10 DEF Climb
<1>12. QED
  BY <1>11

\* The slot a new entry takes is free.
LEMMA FreeSlotIs ==
  ASSUME NEW t \in Tree, NEW d \in T!Inodes
  PROVE  IsSlot(t, d, T!FreeSlot(t, d)) /\ T!FreeSlot(t, d) \notin T!Used(t, d)
<1> DEFINE S == (1 .. Len(t[d].slots) + 1) \ T!Used(t, d)
<1>1. Len(t[d].slots) \in Nat /\ Len(t[d].slots) + 1 \in S
  BY UsedAreSlots
<1>2. S \in SUBSET Nat /\ S # {}
  BY <1>1
<1>3. T!FreeSlot(t, d) = Min(S)
  BY DEF T!FreeSlot, T!Min, Min
<1> HIDE DEF S
<1>4. Min(S) \in S
  BY <1>2, MinIsLeast
<1>5. QED
  BY <1>3, <1>4 DEF S, IsSlot

\* Find gives the slot of a name, 0 when there is none.
LEMMA FindIs ==
  ASSUME NEW t \in Tree, NEW d \in T!Inodes, NEW n
  PROVE  /\ T!Find(t, d, n) # 0 => T!Find(t, d, n) \in T!Matches(t, d, n)
         /\ T!Find(t, d, n) = 0 <=> T!Matches(t, d, n) = {}
<1> DEFINE S == T!Matches(t, d, n)
<1>1. S \in SUBSET (Nat \ {0})
  BY UsedAreSlots DEF T!Matches
<1>2. T!Find(t, d, n) = IF S = {} THEN 0 ELSE Min(S)
  BY DEF T!Find, T!Min, Min
<1> HIDE DEF S
<1>3. S # {} => Min(S) \in S
  BY <1>1, MinIsLeast
<1>4. QED
  BY <1>1, <1>2, <1>3 DEF S

\* In a tree there is at most one slot a name matches.
LEMMA OneMatch ==
  ASSUME NEW t, T!IsTree(t), NEW d \in T!Inodes, NEW n, NEW s \in T!Used(t, d), Fold[t[d].slots[s][2]] = Fold[n]
  PROVE  T!Find(t, d, n) = s
<1>1. t \in Tree
  BY DEF T!IsTree, Tree
<1>2. s \in T!Matches(t, d, n)
  BY DEF T!Matches
<1>3. T!Find(t, d, n) \in T!Matches(t, d, n)
  BY <1>1, <1>2, FindIs
<1>4. QED
  BY <1>3 DEF T!Matches, T!IsTree

\* What an update about inode i leaves alone: the kinds of the others, their entries, and where an entry is.
Stays(t, u, i) ==
  /\ \A x \in T!Inodes \ {i} : t[x].type # "free" => u[x].type = t[x].type
  /\ \A d \in T!Inodes : \A s \in T!Used(t, d) :
       t[d].slots[s][1] # i => s \in T!Used(u, d) /\ u[d].slots[s] = t[d].slots[s]
  /\ \A d \in T!Inodes : \A r \in T!Used(t, d), s \in T!Used(u, d) :
       t[d].slots[r][1] = u[d].slots[s][1] => r = s

\* A new file or directory
LEMMA CreateKeeps ==
  ASSUME NEW t, T!IsTree(t), NEW d \in T!Inodes, NEW n \in Names, NEW type \in {"file", "dir"},
         T!CanCreate(t, d, n)
  PROVE  LET i == Min(T!FreeInodes(t))
             u == T!AfterCreate(t, d, n, type, 0)
         IN  /\ i \in T!Inodes /\ t[i].type = "free" /\ u[i].type = type
             /\ T!IsTree(u) /\ Stays(t, u, i)
<1> DEFINE i == Min(T!FreeInodes(t))
           s == T!FreeSlot(t, d)
           v == T!SetSlot(t, d, s, <<i, n>>)
           new == T!NewInode(type, d, 0)
           u == [v EXCEPT ![i] = new]
<1>1. t \in Tree /\ NInodes \in Nat \ {0} /\ T!Inodes = 1 .. NInodes
  BY DisksAssumption DEF T!IsTree, Tree, T!Inodes
<1>2. i \in T!Inodes /\ t[i].type = "free"
  <2> DEFINE S == T!FreeInodes(t)
  <2>1. S \in SUBSET Nat /\ S # {}
    BY <1>1 DEF T!FreeInodes, T!CanCreate
  <2> HIDE DEF S
  <2>2. Min(S) \in S
    BY <2>1, MinIsLeast
  <2>3. QED
    BY <2>2 DEF T!FreeInodes, S
<1>3. t[d].type = "dir" /\ T!Matches(t, d, n) = {} /\ i # d
  BY <1>1, <1>2, FindIs DEF T!CanCreate, T!Dirs
<1>4. IsSlot(t, d, s) /\ s \notin T!Used(t, d)
  BY <1>1, FreeSlotIs
<1>5. <<i, n>> \in Entry /\ <<i, n>> # T!NoEntry
  BY <1>1, <1>2 DEF Entry, T!NoEntry
<1>6. T!AfterCreate(t, d, n, type, 0) = u
  BY DEF T!AfterCreate, T!Min, Min
<1> HIDE DEF i, s
<1>7. /\ v \in Tree /\ SameElsewhere(t, v, {d}) /\ SameButSlots(v[d], t[d])
      /\ SameSlotsBut(t, v, d, s) /\ s \in T!Used(v, d) /\ v[d].slots[s] = <<i, n>>
  <2>1. SlotBecomes(t, v, d, s, <<i, n>>)
    BY <1>1, <1>4, <1>5, SlotSet
  <2>2. QED
    BY <1>5, <2>1 DEF SlotBecomes
<1>8. new \in T!InodeRecords /\ new.type = type /\ new.parent = d /\ new.slots = <<>>
  <2>1. <<>> \in Seq(Entry) /\ <<>> \in Seq({1} \cup {0})
    OBVIOUS
  <2>2. T!FreeInode \in T!InodeRecords /\ T!FreeInode.slots = <<>>
    BY <1>1, <2>1 DEF T!InodeRecords, T!FreeInode, Entry
  <2>3. d \in 0 .. NInodes
    BY <1>1
  <2>4. QED
    BY <2>2, <2>3 DEF T!InodeRecords, T!NewInode
<1> HIDE DEF v, new
<1>9. u \in Tree /\ u[i] = new /\ \A x \in T!Inodes : x # i => u[x] = v[x]
  BY <1>2, <1>7, <1>8 DEF Tree
<1> HIDE DEF u
<1>10. T!Used(u, i) = {} /\ T!Used(t, i) = {}
  <2>1. T!Used(u, i) = {}
    BY <1>8, <1>9 DEF T!Used
  <2>2. QED
    BY <1>2, <2>1 DEF T!IsTree
<1>11. \A x \in T!Inodes : x # i => u[x].type = t[x].type /\ u[x].parent = t[x].parent
  BY <1>7, <1>9 DEF SameElsewhere, SameButSlots
<1>12. \A x \in T!Inodes : x # i /\ x # d => u[x] = t[x] /\ T!Used(u, x) = T!Used(t, x)
  BY <1>7, <1>9 DEF SameElsewhere, T!Used
<1>13. /\ T!Used(u, d) = T!Used(t, d) \cup {s} /\ u[d].slots[s] = <<i, n>>
       /\ \A k \in T!Used(t, d) : u[d].slots[k] = t[d].slots[k]
  <2>1. u[d] = v[d] /\ T!Used(u, d) = T!Used(v, d)
    BY <1>3, <1>9 DEF T!Used
  <2>2. QED
    BY <1>4, <1>7, <2>1 DEF SameSlotsBut
<1>14. \A x \in T!Inodes : \A k \in T!Used(t, x) :
         t[x].slots[k][1] # i /\ k \in T!Used(u, x) /\ u[x].slots[k] = t[x].slots[k]
  BY <1>2, <1>10, <1>12, <1>13 DEF T!IsTree
<1>15. \A x \in T!Inodes : \A k \in T!Used(u, x) :
         \/ k \in T!Used(t, x) /\ u[x].slots[k] = t[x].slots[k]
         \/ x = d /\ k = s
  BY <1>10, <1>12, <1>13
<1>16. T!IsTree(u)
  <2>1. u[T!Root].type = "dir"
    BY <1>1, <1>2, <1>11 DEF T!IsTree, T!Root
  <2>2. ASSUME NEW x \in T!Inodes, u[x].type = "free" PROVE u[x] = T!FreeInode
    BY <1>3, <1>8, <1>9, <1>11, <1>12, <2>2 DEF T!IsTree
  <2>3. ASSUME NEW x \in T!Inodes, NEW k \in T!Used(u, x)
        PROVE  /\ u[x].type = "dir" /\ u[x].slots[k][1] # T!Root
               /\ u[u[x].slots[k][1]].type # "free" /\ u[u[x].slots[k][1]].parent = x
    <3>1. CASE k \in T!Used(t, x) /\ u[x].slots[k] = t[x].slots[k]
      <4>1. t[x].slots[k][1] \in T!Inodes
        BY <1>1, <3>1, UsedAreSlots
      <4>2. x # i
        BY <1>10, <3>1
      <4>3. QED
        BY <1>11, <1>14, <3>1, <4>1, <4>2 DEF T!IsTree
    <3>2. CASE x = d /\ k = s
      BY <1>2, <1>3, <1>8, <1>9, <1>11, <1>13, <3>2 DEF T!IsTree
    <3>3. QED
      BY <1>15, <2>3, <3>1, <3>2
  <2>4. ASSUME NEW x \in T!Inodes, NEW j \in T!Used(u, x), NEW k \in T!Used(u, x),
               u[x].slots[j][1] = u[x].slots[k][1] \/ Fold[u[x].slots[j][2]] = Fold[u[x].slots[k][2]]
        PROVE  j = k
    <3>1. ASSUME NEW a \in T!Used(t, d) PROVE t[d].slots[a][1] # i /\ Fold[t[d].slots[a][2]] # Fold[n]
      BY <1>3, <1>14, <3>1 DEF T!Matches
    <3>2. CASE x = d
      BY <1>13, <2>4, <3>1, <3>2 DEF T!IsTree
    <3>3. CASE x # d
      BY <1>15, <2>4, <3>3 DEF T!IsTree
    <3>4. QED
      BY <3>2, <3>3
  <2>5. ASSUME NEW x \in T!Inodes \ {T!Root}, u[x].type # "free"
        PROVE  u[x].parent \in T!Inodes /\ \E k \in T!Used(u, u[x].parent) : u[u[x].parent].slots[k][1] = x
    <3>1. CASE x = i
      BY <1>8, <1>9, <1>13, <3>1
    <3>2. CASE x # i
      <4>1. PICK k \in T!Used(t, t[x].parent) : t[x].parent \in T!Inodes /\ t[t[x].parent].slots[k][1] = x
        BY <1>11, <2>5, <3>2 DEF T!IsTree
      <4>2. QED
        BY <1>11, <1>14, <3>2, <4>1
    <3>3. QED
      BY <3>1, <3>2
  <2>6. ASSUME NEW S \in SUBSET T!Inodes, S # {} PROVE \E x \in S : x = T!Root \/ u[x].parent \notin S
    <3>1. CASE S = {i}
      BY <1>3, <1>8, <1>9, <3>1
    <3>2. CASE S # {i}
      <4>1. PICK x \in S \ {i} : x = T!Root \/ t[x].parent \notin S \ {i}
        <5>1. S \ {i} \in SUBSET T!Inodes /\ S \ {i} # {}
          BY <2>6, <3>2
        <5>2. QED
          BY <5>1 DEF T!IsTree
      <4>2. CASE x = T!Root
        BY <4>2
      <4>3. CASE x # T!Root
        <5>1. t[x].parent # i
          <6>1. CASE t[x].type = "free"
            <7>1. t[x].parent = 0
              BY <6>1 DEF T!IsTree, T!FreeInode
            <7>2. QED
              BY <1>1, <1>2, <7>1
          <6>2. CASE t[x].type # "free"
            BY <1>10, <4>3, <6>2 DEF T!IsTree
          <6>3. QED
            BY <6>1, <6>2
        <5>2. QED
          BY <1>11, <4>1, <4>3, <5>1
      <4>4. QED
        BY <4>2, <4>3
    <3>3. QED
      BY <3>1, <3>2
  <2>7. QED
    BY <1>9, <2>1, <2>2, <2>3, <2>4, <2>5, <2>6 DEF T!IsTree, Tree
<1>17. Stays(t, u, i)
  <2>1. ASSUME NEW x \in T!Inodes, NEW j \in T!Used(t, x), NEW k \in T!Used(u, x),
               t[x].slots[j][1] = u[x].slots[k][1]
        PROVE  j = k
    BY <1>13, <1>14, <1>15, <2>1 DEF T!IsTree
  <2>2. QED
    BY <1>11, <1>14, <2>1 DEF Stays
<1>18. QED
  BY <1>2, <1>6, <1>8, <1>9, <1>16, <1>17 DEF i

\* No directory is its own parent.
LEMMA NotOwnParent ==
  ASSUME NEW t, T!IsTree(t), NEW i \in T!Inodes, i # T!Root
  PROVE  t[i].parent # i
<1>1. {i} \in SUBSET T!Inodes /\ {i} # {}
  OBVIOUS
<1>2. PICK x \in {i} : x = T!Root \/ t[x].parent \notin {i}
  BY <1>1 DEF T!IsTree
<1>3. QED
  BY <1>2

\* A name that is found names an inode that has this entry only.
LEMMA ChildIs ==
  ASSUME NEW t, T!IsTree(t), NEW d \in T!Inodes, NEW n, T!Find(t, d, n) # 0
  PROVE  LET s == T!Find(t, d, n)
             i == T!Child(t, d, n)
         IN  /\ s \in T!Used(t, d) /\ IsSlot(t, d, s) /\ t[d].slots[s][1] = i /\ Fold[t[d].slots[s][2]] = Fold[n]
             /\ i \in T!Inodes /\ i # T!Root /\ i # d /\ t[i].type # "free" /\ t[i].parent = d /\ t[d].type = "dir"
             /\ \A x \in T!Inodes : \A k \in T!Used(t, x) : t[x].slots[k][1] = i => x = d /\ k = s
<1> DEFINE s == T!Find(t, d, n)
           i == T!Child(t, d, n)
<1>1. t \in Tree
  BY DEF T!IsTree, Tree
<1>2. s \in T!Used(t, d) /\ Fold[t[d].slots[s][2]] = Fold[n]
  BY <1>1, FindIs DEF T!Matches
<1>3. t[d].slots[s][1] = i
  BY DEF T!Child
<1> HIDE DEF s, i
<1>4. i \in T!Inodes /\ IsSlot(t, d, s)
  BY <1>1, <1>2, <1>3, UsedAreSlots DEF IsSlot
<1>5. i # T!Root /\ t[i].type # "free" /\ t[i].parent = d /\ t[d].type = "dir"
  BY <1>2, <1>3 DEF T!IsTree
<1>6. ASSUME NEW x \in T!Inodes, NEW k \in T!Used(t, x), t[x].slots[k][1] = i PROVE x = d /\ k = s
  <2>1. t[i].parent = x
    BY <1>6 DEF T!IsTree
  <2>2. QED
    BY <1>2, <1>3, <1>5, <1>6, <2>1 DEF T!IsTree
<1>7. i # d
  BY <1>4, <1>5, NotOwnParent
<1>8. QED
  BY <1>2, <1>3, <1>4, <1>5, <1>6, <1>7 DEF s, i

\* Removing a name: only its inode goes.
LEMMA RemoveKeeps ==
  ASSUME NEW t, T!IsTree(t), NEW d \in T!Inodes, NEW n, NEW wantDir \in BOOLEAN, T!CanRemove(t, d, n, wantDir)
  PROVE  T!IsTree(T!AfterRemove(t, d, n)) /\ Stays(t, T!AfterRemove(t, d, n), T!Child(t, d, n))
<1> DEFINE s == T!Find(t, d, n)
           i == T!Child(t, d, n)
           v == T!SetSlot(t, d, s, T!NoEntry)
           u == [v EXCEPT ![i] = T!FreeInode]
<1>1. t \in Tree /\ NInodes \in Nat \ {0} /\ T!Inodes = 1 .. NInodes
  BY DisksAssumption DEF T!IsTree, Tree, T!Inodes
<1>2. /\ s \in T!Used(t, d) /\ IsSlot(t, d, s) /\ t[d].slots[s][1] = i
      /\ i \in T!Inodes /\ i # T!Root /\ i # d /\ t[i].type # "free"
      /\ \A x \in T!Inodes : \A k \in T!Used(t, x) : t[x].slots[k][1] = i => x = d /\ k = s
  BY ChildIs DEF T!CanRemove
<1>3. T!Used(t, i) = {}
  BY <1>2 DEF T!CanRemove, T!Dirs, T!IsTree
<1>4. T!AfterRemove(t, d, n) = u
  BY DEF T!AfterRemove
<1> HIDE DEF i, s
<1>5. SlotBecomes(t, v, d, s, T!NoEntry)
  BY <1>1, <1>2, SlotSet DEF Entry
<1> HIDE DEF v
<1>6. T!FreeInode \in T!InodeRecords /\ T!FreeInode.slots = <<>> /\ T!FreeInode.parent = 0 /\ T!FreeInode.type = "free"
  <2>1. <<>> \in Seq(Entry) /\ <<>> \in Seq({1} \cup {0})
    OBVIOUS
  <2>2. QED
    BY <1>1, <2>1 DEF T!InodeRecords, T!FreeInode, Entry
<1>7. u \in Tree /\ u[i] = T!FreeInode /\ \A x \in T!Inodes : x # i => u[x] = v[x]
  BY <1>2, <1>5, <1>6 DEF Tree, SlotBecomes
<1> HIDE DEF u
<1>8. T!Used(u, i) = {}
  BY <1>6, <1>7 DEF T!Used
<1>9. \A x \in T!Inodes : x # i => u[x].type = t[x].type /\ u[x].parent = t[x].parent
  BY <1>5, <1>7 DEF SlotBecomes, SameElsewhere, SameButSlots
<1>10. \A x \in T!Inodes : x # i /\ x # d => u[x] = t[x] /\ T!Used(u, x) = T!Used(t, x)
  BY <1>5, <1>7 DEF SlotBecomes, SameElsewhere, T!Used
<1>11. T!Used(u, d) = T!Used(t, d) \ {s} /\ \A k \in T!Used(t, d) \ {s} : u[d].slots[k] = t[d].slots[k]
  <2>1. u[d] = v[d] /\ T!Used(u, d) = T!Used(v, d)
    BY <1>2, <1>7 DEF T!Used
  <2>2. QED
    BY <1>5, <2>1 DEF SlotBecomes, SameSlotsBut
<1>12. \A x \in T!Inodes : \A k \in T!Used(u, x) :
         x # i /\ k \in T!Used(t, x) /\ u[x].slots[k] = t[x].slots[k] /\ t[x].slots[k][1] # i
  BY <1>2, <1>8, <1>10, <1>11
<1>13. \A x \in T!Inodes : \A k \in T!Used(t, x) :
         t[x].slots[k][1] # i => k \in T!Used(u, x) /\ u[x].slots[k] = t[x].slots[k]
  BY <1>2, <1>3, <1>10, <1>11
<1>14. T!IsTree(u)
  <2>1. u[T!Root].type = "dir"
    BY <1>1, <1>2, <1>9 DEF T!IsTree, T!Root
  <2>2. ASSUME NEW x \in T!Inodes, u[x].type = "free" PROVE u[x] = T!FreeInode
    <3>1. CASE x = i
      BY <1>7, <3>1
    <3>2. CASE x = d
      BY <1>2, <1>9, <2>2, <3>2 DEF T!IsTree
    <3>3. CASE x # i /\ x # d
      BY <1>10, <2>2, <3>3 DEF T!IsTree
    <3>4. QED
      BY <3>1, <3>2, <3>3
  <2>3. ASSUME NEW x \in T!Inodes, NEW k \in T!Used(u, x)
        PROVE  /\ u[x].type = "dir" /\ u[x].slots[k][1] # T!Root
               /\ u[u[x].slots[k][1]].type # "free" /\ u[u[x].slots[k][1]].parent = x
    <3>1. k \in T!Used(t, x) /\ u[x].slots[k] = t[x].slots[k] /\ x # i /\ t[x].slots[k][1] # i
      BY <1>12
    <3>2. t[x].slots[k][1] \in T!Inodes
      BY <1>1, <3>1, UsedAreSlots
    <3>3. QED
      BY <1>9, <3>1, <3>2 DEF T!IsTree
  <2>4. ASSUME NEW x \in T!Inodes, NEW j \in T!Used(u, x), NEW k \in T!Used(u, x),
               u[x].slots[j][1] = u[x].slots[k][1] \/ Fold[u[x].slots[j][2]] = Fold[u[x].slots[k][2]]
        PROVE  j = k
    BY <1>12, <2>4 DEF T!IsTree
  <2>5. ASSUME NEW x \in T!Inodes \ {T!Root}, u[x].type # "free"
        PROVE  u[x].parent \in T!Inodes /\ \E k \in T!Used(u, u[x].parent) : u[u[x].parent].slots[k][1] = x
    <3>1. x # i
      BY <1>6, <1>7, <2>5
    <3>2. PICK k \in T!Used(t, t[x].parent) : t[x].parent \in T!Inodes /\ t[t[x].parent].slots[k][1] = x
      BY <1>9, <2>5, <3>1 DEF T!IsTree
    <3>3. QED
      BY <1>9, <1>13, <3>1, <3>2
  <2>6. ASSUME NEW S \in SUBSET T!Inodes, S # {} PROVE \E x \in S : x = T!Root \/ u[x].parent \notin S
    <3>1. PICK x \in S : x = T!Root \/ t[x].parent \notin S
      BY <2>6 DEF T!IsTree
    <3>2. CASE x = i
      <4>1. 0 \notin S
        BY <1>1
      <4>2. QED
        BY <1>6, <1>7, <3>2, <4>1
    <3>3. CASE x # i
      BY <1>9, <3>1, <3>3
    <3>4. QED
      BY <3>2, <3>3
  <2>7. QED
    BY <1>7, <2>1, <2>2, <2>3, <2>4, <2>5, <2>6 DEF T!IsTree, Tree
<1>15. Stays(t, u, i)
  <2>1. ASSUME NEW x \in T!Inodes, NEW j \in T!Used(t, x), NEW k \in T!Used(u, x),
               t[x].slots[j][1] = u[x].slots[k][1]
        PROVE  j = k
    BY <1>12, <2>1 DEF T!IsTree
  <2>2. QED
    BY <1>9, <1>13, <2>1 DEF Stays
<1>16. QED
  BY <1>4, <1>14, <1>15 DEF i

\* A new name in the same directory: the entry keeps its slot.
LEMMA RenameHereKeeps ==
  ASSUME NEW t, T!IsTree(t), NEW d \in T!Inodes, NEW n, NEW n2 \in Names, T!CanRename(t, d, n, d, n2)
  PROVE  LET u == T!AfterRename(t, d, n, d, n2)
         IN  T!IsTree(u) /\ Stays(t, u, T!Child(t, d, n)) /\ \A x \in T!Inodes : u[x].type = t[x].type
<1> DEFINE s == T!Find(t, d, n)
           i == T!Child(t, d, n)
           u == T!SetSlot(t, d, s, <<i, n2>>)
<1>1. t \in Tree /\ NInodes \in Nat \ {0} /\ T!Inodes = 1 .. NInodes
  BY DisksAssumption DEF T!IsTree, Tree, T!Inodes
<1>2. /\ s \in T!Used(t, d) /\ IsSlot(t, d, s) /\ t[d].slots[s][1] = i
      /\ i \in T!Inodes /\ i # T!Root /\ t[i].type # "free" /\ t[i].parent = d /\ t[d].type = "dir"
      /\ \A x \in T!Inodes : \A k \in T!Used(t, x) : t[x].slots[k][1] = i => x = d /\ k = s
  BY ChildIs DEF T!CanRename
<1>3. \A k \in T!Used(t, d) : Fold[t[d].slots[k][2]] = Fold[n2] => k = s
  <2>1. ASSUME NEW k \in T!Used(t, d), Fold[t[d].slots[k][2]] = Fold[n2] PROVE k = s
    <3>1. T!Find(t, d, n2) = k
      BY <2>1, OneMatch
    <3>2. k # 0
      BY <1>1, UsedAreSlots
    <3>3. QED
      BY <3>1, <3>2 DEF T!CanRename
  <2>2. QED
    BY <2>1
<1>4. T!AfterRename(t, d, n, d, n2) = u
  BY DEF T!AfterRename
<1>5. <<i, n2>> \in Entry /\ <<i, n2>> # T!NoEntry
  BY <1>1, <1>2 DEF Entry, T!NoEntry
<1> HIDE DEF i, s
<1>6. SlotBecomes(t, u, d, s, <<i, n2>>)
  BY <1>1, <1>2, <1>5, SlotSet
<1> HIDE DEF u
<1>7. \A x \in T!Inodes : u[x].type = t[x].type /\ u[x].parent = t[x].parent
  BY <1>6 DEF SlotBecomes, SameElsewhere, SameButSlots
<1>8. \A x \in T!Inodes : x # d => u[x] = t[x]
  BY <1>6 DEF SlotBecomes, SameElsewhere
<1>9. \A x \in T!Inodes : T!Used(u, x) = T!Used(t, x)
  <2>1. T!Used(u, d) = T!Used(t, d)
    <3>1. s \in T!Used(u, d) /\ s \in T!Used(t, d)
      BY <1>2, <1>5, <1>6 DEF SlotBecomes
    <3>2. T!Used(u, d) \ {s} = T!Used(t, d) \ {s}
      BY <1>6 DEF SlotBecomes, SameSlotsBut
    <3>3. QED
      BY <3>1, <3>2
  <2>2. QED
    BY <1>8, <2>1 DEF T!Used
<1>10. u[d].slots[s] = <<i, n2>> /\ \A k \in T!Used(t, d) \ {s} : u[d].slots[k] = t[d].slots[k]
  BY <1>6 DEF SlotBecomes, SameSlotsBut
<1>11. \A x \in T!Inodes : \A k \in T!Used(t, x) :
         u[x].slots[k][1] = t[x].slots[k][1] /\ (t[x].slots[k][1] # i => u[x].slots[k] = t[x].slots[k])
  BY <1>2, <1>8, <1>10
<1>12. T!IsTree(u)
  <2>1. u[T!Root].type = "dir"
    BY <1>1, <1>7 DEF T!IsTree, T!Root
  <2>2. ASSUME NEW x \in T!Inodes, u[x].type = "free" PROVE u[x] = T!FreeInode
    BY <1>2, <1>7, <1>8, <2>2 DEF T!IsTree
  <2>3. ASSUME NEW x \in T!Inodes, NEW k \in T!Used(u, x)
        PROVE  /\ u[x].type = "dir" /\ u[x].slots[k][1] # T!Root
               /\ u[u[x].slots[k][1]].type # "free" /\ u[u[x].slots[k][1]].parent = x
    <3>1. t[x].slots[k][1] \in T!Inodes
      BY <1>1, <1>9, UsedAreSlots
    <3>2. QED
      BY <1>7, <1>9, <1>11, <3>1 DEF T!IsTree
  <2>4. ASSUME NEW x \in T!Inodes, NEW j \in T!Used(u, x), NEW k \in T!Used(u, x),
               u[x].slots[j][1] = u[x].slots[k][1] \/ Fold[u[x].slots[j][2]] = Fold[u[x].slots[k][2]]
        PROVE  j = k
    <3>1. j \in T!Used(t, x) /\ k \in T!Used(t, x)
      BY <1>9
    <3>2. CASE x # d
      BY <1>8, <2>4, <3>1, <3>2 DEF T!IsTree
    <3>3. CASE x = d
      <4>1. \A a \in T!Used(t, d) : a # s => t[d].slots[a][1] # i /\ Fold[t[d].slots[a][2]] # Fold[n2]
        BY <1>2, <1>3
      <4>2. u[d].slots[s][1] = i /\ u[d].slots[s][2] = n2
        BY <1>10
      <4>3. CASE j # s /\ k # s
        BY <1>10, <2>4, <3>1, <3>3, <4>3 DEF T!IsTree
      <4>4. CASE j = s \/ k = s
        BY <1>10, <2>4, <3>1, <3>3, <4>1, <4>2, <4>4
      <4>5. QED
        BY <4>3, <4>4
    <3>4. QED
      BY <3>2, <3>3
  <2>5. ASSUME NEW x \in T!Inodes \ {T!Root}, u[x].type # "free"
        PROVE  u[x].parent \in T!Inodes /\ \E k \in T!Used(u, u[x].parent) : u[u[x].parent].slots[k][1] = x
    <3>1. PICK k \in T!Used(t, t[x].parent) : t[x].parent \in T!Inodes /\ t[t[x].parent].slots[k][1] = x
      BY <1>7, <2>5 DEF T!IsTree
    <3>2. QED
      BY <1>7, <1>9, <1>11, <3>1
  <2>6. ASSUME NEW S \in SUBSET T!Inodes, S # {} PROVE \E x \in S : x = T!Root \/ u[x].parent \notin S
    BY <1>7, <2>6 DEF T!IsTree
  <2>7. QED
    BY <1>6, <2>1, <2>2, <2>3, <2>4, <2>5, <2>6 DEF T!IsTree, Tree, SlotBecomes
<1>13. Stays(t, u, i)
  <2>1. ASSUME NEW x \in T!Inodes, NEW j \in T!Used(t, x), NEW k \in T!Used(u, x),
               t[x].slots[j][1] = u[x].slots[k][1]
        PROVE  j = k
    BY <1>9, <1>11, <2>1 DEF T!IsTree
  <2>2. QED
    BY <1>7, <1>9, <1>11, <2>1 DEF Stays
<1>14. QED
  BY <1>4, <1>7, <1>12, <1>13 DEF i

\* Moving a name to another directory, which is not below what moves.
LEMMA RenameAwayKeeps ==
  ASSUME NEW t, T!IsTree(t), NEW d \in T!Inodes, NEW n, NEW d2 \in T!Inodes, d2 # d, NEW n2 \in Names,
         T!CanRename(t, d, n, d2, n2)
  PROVE  LET u == T!AfterRename(t, d, n, d2, n2)
         IN  T!IsTree(u) /\ Stays(t, u, T!Child(t, d, n)) /\ \A x \in T!Inodes : u[x].type = t[x].type
<1> DEFINE s == T!Find(t, d, n)
           i == T!Child(t, d, n)
           s2 == T!FreeSlot(t, d2)
           v == T!SetSlot(t, d2, s2, <<i, n2>>)
           w == T!SetSlot(v, d, s, T!NoEntry)
           u == [w EXCEPT ![i].parent = d2]
<1>1. t \in Tree /\ NInodes \in Nat \ {0} /\ T!Inodes = 1 .. NInodes
  BY DisksAssumption DEF T!IsTree, Tree, T!Inodes
<1>2. /\ s \in T!Used(t, d) /\ IsSlot(t, d, s) /\ t[d].slots[s][1] = i
      /\ i \in T!Inodes /\ i # T!Root /\ i # d /\ t[i].type # "free" /\ t[i].parent = d /\ t[d].type = "dir"
      /\ \A x \in T!Inodes : \A k \in T!Used(t, x) : t[x].slots[k][1] = i => x = d /\ k = s
  BY ChildIs DEF T!CanRename
<1>3. t[d2].type = "dir" /\ T!Matches(t, d2, n2) = {}
  BY <1>1, FindIs DEF T!CanRename, T!Dirs
<1>4. t[i].type = "dir" => i \notin T!Above(t, d2)
  BY <1>2 DEF T!CanRename, T!Dirs, T!IsUnder
<1>5. T!AfterRename(t, d, n, d2, n2) = u
  BY DEF T!AfterRename
<1>6. IsSlot(t, d2, s2) /\ s2 \notin T!Used(t, d2)
  BY <1>1, FreeSlotIs
<1>7. <<i, n2>> \in Entry /\ <<i, n2>> # T!NoEntry
  BY <1>1, <1>2 DEF Entry, T!NoEntry
<1> HIDE DEF i, s, s2
<1>8. SlotBecomes(t, v, d2, s2, <<i, n2>>)
  BY <1>1, <1>6, <1>7, SlotSet
<1> HIDE DEF v
<1>9. SlotBecomes(v, w, d, s, T!NoEntry)
  <2>1. v \in Tree /\ v[d] = t[d] /\ IsSlot(v, d, s)
    BY <1>2, <1>8 DEF SlotBecomes, SameElsewhere, IsSlot
  <2>2. QED
    BY <2>1, SlotSet DEF Entry
<1> HIDE DEF w
<1>10. i # d2
  <2>1. CASE t[i].type = "dir"
    <3>1. d2 \in T!Above(t, d2)
      <4>1. PICK up : Climb(t, d2, up)
        BY <1>1, AboveIs
      <4>2. T!Above(t, d2) = {up[k] : k \in 0 .. NInodes} /\ up[0] = d2
        BY <4>1 DEF Climb
      <4>3. QED
        BY <1>1, <4>2
    <3>2. QED
      BY <1>4, <2>1, <3>1
  <2>2. QED
    BY <1>3, <2>1
<1>11. /\ u \in Tree /\ \A x \in T!Inodes : x # i => u[x] = w[x]
       /\ u[i].parent = d2 /\ u[i].type = w[i].type /\ u[i].slots = w[i].slots
  <2>1. w \in Tree /\ w[i] \in T!InodeRecords /\ d2 \in 0 .. NInodes
    BY <1>1, <1>2, <1>9 DEF Tree, SlotBecomes
  <2>2. /\ [w[i] EXCEPT !.parent = d2] \in T!InodeRecords
        /\ [w[i] EXCEPT !.parent = d2].parent = d2
        /\ [w[i] EXCEPT !.parent = d2].type = w[i].type
        /\ [w[i] EXCEPT !.parent = d2].slots = w[i].slots
    BY <2>1 DEF T!InodeRecords
  <2>3. QED
    BY <1>2, <2>1, <2>2 DEF Tree
<1> HIDE DEF u
<1>12. \A x \in T!Inodes : u[x].type = t[x].type /\ (x # i => u[x].parent = t[x].parent)
  BY <1>8, <1>9, <1>11 DEF SlotBecomes, SameElsewhere, SameButSlots
<1>13. \A x \in T!Inodes : x # d /\ x # d2 => u[x].slots = t[x].slots /\ T!Used(u, x) = T!Used(t, x)
  <2>1. \A x \in T!Inodes : x # d /\ x # d2 => u[x].slots = t[x].slots
    BY <1>8, <1>9, <1>11 DEF SlotBecomes, SameElsewhere
  <2>2. QED
    BY <2>1 DEF T!Used
<1>14. T!Used(u, d) = T!Used(t, d) \ {s} /\ \A k \in T!Used(t, d) \ {s} : u[d].slots[k] = t[d].slots[k]
  <2>1. u[d] = w[d] /\ T!Used(u, d) = T!Used(w, d)
    BY <1>2, <1>11 DEF T!Used
  <2>2. v[d] = t[d] /\ T!Used(v, d) = T!Used(t, d)
    BY <1>8 DEF SlotBecomes, SameElsewhere, T!Used
  <2>3. QED
    BY <1>9, <2>1, <2>2 DEF SlotBecomes, SameSlotsBut
<1>15. /\ T!Used(u, d2) = T!Used(t, d2) \cup {s2} /\ u[d2].slots[s2] = <<i, n2>>
       /\ \A k \in T!Used(t, d2) : u[d2].slots[k] = t[d2].slots[k]
  <2>1. u[d2] = w[d2] /\ T!Used(u, d2) = T!Used(w, d2)
    BY <1>10, <1>11 DEF T!Used
  <2>2. w[d2] = v[d2] /\ T!Used(w, d2) = T!Used(v, d2)
    BY <1>9 DEF SlotBecomes, SameElsewhere, T!Used
  <2>3. QED
    BY <1>6, <1>7, <1>8, <2>1, <2>2 DEF SlotBecomes, SameSlotsBut
<1>16. \A x \in T!Inodes : \A k \in T!Used(u, x) :
         \/ k \in T!Used(t, x) /\ u[x].slots[k] = t[x].slots[k] /\ t[x].slots[k][1] # i
         \/ x = d2 /\ k = s2
  BY <1>2, <1>13, <1>14, <1>15
<1>17. \A x \in T!Inodes : \A k \in T!Used(t, x) :
         t[x].slots[k][1] # i => k \in T!Used(u, x) /\ u[x].slots[k] = t[x].slots[k]
  BY <1>2, <1>13, <1>14, <1>15
<1>18. T!IsTree(u)
  <2>1. u[T!Root].type = "dir"
    BY <1>1, <1>12 DEF T!IsTree, T!Root
  <2>2. ASSUME NEW x \in T!Inodes, u[x].type = "free" PROVE u[x] = T!FreeInode
    <3>1. x # i /\ x # d /\ x # d2 /\ t[x].type = "free"
      BY <1>2, <1>3, <1>12, <2>2
    <3>2. u[x] = t[x]
      BY <1>8, <1>9, <1>11, <3>1 DEF SlotBecomes, SameElsewhere
    <3>3. QED
      BY <3>1, <3>2 DEF T!IsTree
  <2>3. ASSUME NEW x \in T!Inodes, NEW k \in T!Used(u, x)
        PROVE  /\ u[x].type = "dir" /\ u[x].slots[k][1] # T!Root
               /\ u[u[x].slots[k][1]].type # "free" /\ u[u[x].slots[k][1]].parent = x
    <3>1. CASE k \in T!Used(t, x) /\ u[x].slots[k] = t[x].slots[k] /\ t[x].slots[k][1] # i
      <4>1. t[x].slots[k][1] \in T!Inodes
        BY <1>1, <3>1, UsedAreSlots
      <4>2. QED
        BY <1>12, <3>1, <4>1 DEF T!IsTree
    <3>2. CASE x = d2 /\ k = s2
      BY <1>2, <1>3, <1>11, <1>12, <1>15, <3>2
    <3>3. QED
      BY <1>16, <3>1, <3>2
  <2>4. ASSUME NEW x \in T!Inodes, NEW j \in T!Used(u, x), NEW k \in T!Used(u, x),
               u[x].slots[j][1] = u[x].slots[k][1] \/ Fold[u[x].slots[j][2]] = Fold[u[x].slots[k][2]]
        PROVE  j = k
    <3>1. \A a \in T!Used(t, d2) : t[d2].slots[a][1] # i /\ Fold[t[d2].slots[a][2]] # Fold[n2]
      BY <1>2, <1>3 DEF T!Matches
    <3>2. u[d2].slots[s2][1] = i /\ u[d2].slots[s2][2] = n2
      BY <1>15
    <3>3. CASE x = d2
      BY <1>15, <2>4, <3>1, <3>2, <3>3 DEF T!IsTree
    <3>4. CASE x # d2
      BY <1>16, <2>4, <3>4 DEF T!IsTree
    <3>5. QED
      BY <3>3, <3>4
  <2>5. ASSUME NEW x \in T!Inodes \ {T!Root}, u[x].type # "free"
        PROVE  u[x].parent \in T!Inodes /\ \E k \in T!Used(u, u[x].parent) : u[u[x].parent].slots[k][1] = x
    <3>1. CASE x = i
      BY <1>11, <1>15, <3>1
    <3>2. CASE x # i
      <4>1. PICK k \in T!Used(t, t[x].parent) : t[x].parent \in T!Inodes /\ t[t[x].parent].slots[k][1] = x
        BY <1>12, <2>5 DEF T!IsTree
      <4>2. QED
        BY <1>12, <1>17, <3>2, <4>1
    <3>3. QED
      BY <3>1, <3>2
  <2>6. ASSUME NEW S \in SUBSET T!Inodes, S # {}, \A x \in S : x # T!Root /\ u[x].parent \in S PROVE FALSE
    <3>1. i \in S /\ d2 \in S
      <4>1. PICK x \in S : x = T!Root \/ t[x].parent \notin S
        BY <2>6 DEF T!IsTree
      <4>2. QED
        BY <1>11, <1>12, <2>6, <4>1
    <3>2. CASE t[i].type = "dir"
      <4>1. PICK up \in [0 .. NInodes -> 0 .. NInodes] :
              /\ T!Above(t, d2) = {up[k] : k \in 0 .. NInodes}
              /\ up[0] = d2
              /\ \A k \in 1 .. NInodes : up[k] = IF up[k - 1] \in {T!Root, 0} THEN up[k - 1] ELSE t[up[k - 1]].parent
        <5>1. \E up : Climb(t, d2, up)
          BY <1>1, AboveIs
        <5>2. QED
          BY <5>1 DEF Climb
      <4>2. \A k \in 0 .. NInodes : up[k] # i
        BY <1>4, <3>2, <4>1
      <4>3. ASSUME NEW k \in 0 .. NInodes, k < NInodes, up[k] \in S
            PROVE  up[k + 1] \in S /\ up[k + 1] = t[up[k]].parent
        <5>1. k + 1 \in 1 .. NInodes /\ (k + 1) - 1 = k
          BY <1>1, <4>3
        <5>2. up[k] \in T!Inodes /\ up[k] \notin {T!Root, 0}
          <6>1. up[k] \in T!Inodes /\ up[k] # T!Root
            BY <2>6, <4>3
          <6>2. 0 \notin T!Inodes
            BY <1>1
          <6>3. QED
            BY <6>1, <6>2
        <5>3. up[k + 1] = t[up[k]].parent
          BY <4>1, <5>1, <5>2
        <5>4. QED
          BY <1>12, <2>6, <4>2, <4>3, <5>2, <5>3
      <4> DEFINE Z == {k \in 0 .. NInodes : up[k] \in S}
      <4>4. 0 .. NInodes \subseteq Z
        <5>1. 0 \in Z
          BY <1>1, <3>1, <4>1
        <5>2. \A k \in 0 .. NInodes : k < NInodes /\ k \in Z => k + 1 \in Z
          BY <1>1, <4>3
        <5> HIDE DEF Z
        <5>3. QED
          BY <1>1, <5>1, <5>2, AllUpTo
      <4>5. \A k \in 0 .. NInodes : up[k] \in S
        BY <4>4
      <4>6. up \in [0 .. NInodes -> T!Inodes] /\ \A k \in 0 .. NInodes : up[k] # T!Root
        BY <2>6, <4>1, <4>5
      <4>7. \A k \in 0 .. NInodes - 1 : up[k + 1] = t[up[k]].parent
        <5>1. \A k \in 0 .. NInodes - 1 : k \in 0 .. NInodes /\ k < NInodes
          BY <1>1
        <5>2. QED
          BY <4>3, <4>5, <5>1
      <4>8. QED
        BY <4>6, <4>7, NoLongChain
    <3>3. CASE t[i].type # "dir"
      <4>1. S \ {i} \in SUBSET T!Inodes /\ S \ {i} # {}
        BY <1>10, <3>1
      <4>2. PICK x \in S \ {i} : x = T!Root \/ t[x].parent \notin S \ {i}
        BY <4>1 DEF T!IsTree
      <4>3. t[x].parent = i /\ x \in T!Inodes \ {T!Root}
        BY <1>12, <2>6, <4>2
      <4>4. t[x].type # "free"
        <5>1. t[x].type = "free" => t[x].parent = 0
          BY <4>3 DEF T!IsTree, T!FreeInode
        <5>2. QED
          BY <1>1, <1>2, <4>3, <5>1
      <4>5. QED
        BY <3>3, <4>3, <4>4 DEF T!IsTree
    <3>4. QED
      BY <3>2, <3>3
  <2>7. QED
    BY <1>11, <2>1, <2>2, <2>3, <2>4, <2>5, <2>6 DEF T!IsTree, Tree
<1>19. Stays(t, u, i)
  <2>1. ASSUME NEW x \in T!Inodes, NEW j \in T!Used(t, x), NEW k \in T!Used(u, x),
               t[x].slots[j][1] = u[x].slots[k][1]
        PROVE  j = k
    BY <1>2, <1>15, <1>16, <2>1 DEF T!IsTree
  <2>2. QED
    BY <1>12, <1>17, <2>1 DEF Stays
<1>20. QED
  BY <1>5, <1>12, <1>18, <1>19 DEF i

\* The bytes of a file are nobody's entries.
SameEntries(t, u) == \A x \in T!Inodes : u[x].type = t[x].type /\ u[x].parent = t[x].parent /\ u[x].slots = t[x].slots

LEMMA DataKeeps ==
  ASSUME NEW t, T!IsTree(t), NEW i \in T!Inodes, t[i].type = "file", NEW data \in Seq({0, 1})
  PROVE  T!IsTree([t EXCEPT ![i].data = data]) /\ SameEntries(t, [t EXCEPT ![i].data = data])
<1> DEFINE u == [t EXCEPT ![i].data = data]
<1>1. t \in Tree /\ T!InodeRecords = [type : {"free", "file", "dir"}, parent : 0 .. NInodes, mode : {0} \cup {0},
                                      slots : Seq(Entry), data : Seq({1} \cup {0})]
  BY DEF T!IsTree, Tree, T!InodeRecords, Entry
<1>2. {1} \cup {0} = {0, 1}
  OBVIOUS
<1>3. t[i] \in T!InodeRecords
  BY <1>1 DEF Tree
<1>4. /\ [t[i] EXCEPT !.data = data] \in T!InodeRecords
      /\ [t[i] EXCEPT !.data = data].type = t[i].type
      /\ [t[i] EXCEPT !.data = data].parent = t[i].parent
      /\ [t[i] EXCEPT !.data = data].slots = t[i].slots
  BY <1>1, <1>2, <1>3
<1>5. u \in Tree /\ SameEntries(t, u) /\ \A x \in T!Inodes : x # i => u[x] = t[x]
  BY <1>1, <1>4 DEF Tree, SameEntries
<1> HIDE DEF u
<1>6. \A x \in T!Inodes : T!Used(u, x) = T!Used(t, x)
  BY <1>5 DEF SameEntries, T!Used
<1>7. T!IsTree(u)
  <2>1. u[T!Root].type = "dir"
    <3>1. T!Root \in T!Inodes
      BY DisksAssumption DEF T!Inodes, T!Root
    <3>2. QED
      BY <1>5, <3>1 DEF T!IsTree, SameEntries
  <2>2. ASSUME NEW x \in T!Inodes, u[x].type = "free" PROVE u[x] = T!FreeInode
    BY <1>5, <2>2 DEF T!IsTree, SameEntries
  <2>3. ASSUME NEW x \in T!Inodes, NEW k \in T!Used(u, x)
        PROVE  /\ u[x].type = "dir" /\ u[x].slots[k][1] # T!Root
               /\ u[u[x].slots[k][1]].type # "free" /\ u[u[x].slots[k][1]].parent = x
    <3>1. u[x].slots[k] = t[x].slots[k] /\ t[x].slots[k][1] \in T!Inodes
      BY <1>1, <1>5, <1>6, UsedAreSlots DEF SameEntries
    <3>2. QED
      BY <1>5, <1>6, <3>1 DEF T!IsTree, SameEntries
  <2>4. ASSUME NEW x \in T!Inodes, NEW j \in T!Used(u, x), NEW k \in T!Used(u, x),
               u[x].slots[j][1] = u[x].slots[k][1] \/ Fold[u[x].slots[j][2]] = Fold[u[x].slots[k][2]]
        PROVE  j = k
    BY <1>5, <1>6, <2>4 DEF T!IsTree, SameEntries
  <2>5. ASSUME NEW x \in T!Inodes \ {T!Root}, u[x].type # "free"
        PROVE  u[x].parent \in T!Inodes /\ \E k \in T!Used(u, u[x].parent) : u[u[x].parent].slots[k][1] = x
    BY <1>5, <1>6, <2>5 DEF T!IsTree, SameEntries
  <2>6. ASSUME NEW S \in SUBSET T!Inodes, S # {} PROVE \E x \in S : x = T!Root \/ u[x].parent \notin S
    BY <1>5, <2>6 DEF T!IsTree, SameEntries
  <2>7. QED
    BY <1>5, <2>1, <2>2, <2>3, <2>4, <2>5, <2>6 DEF T!IsTree, Tree
<1>8. QED
  BY <1>5, <1>7 DEF u

LEMMA WriteKeeps ==
  ASSUME NEW t, T!IsTree(t), NEW i \in T!Inodes, t[i].type = "file", NEW off \in Nat, NEW len \in Nat
  PROVE  LET u == T!AfterWrite(t, i, off, [k \in 1 .. len |-> 1]) IN T!IsTree(u) /\ SameEntries(t, u)
<1> DEFINE old == t[i].data
           vals == [k \in 1 .. len |-> 1]
           end == off + Len(vals)
           n == T!Max({end, Len(old)})
           data == [k \in 1 .. n |-> IF k > off /\ k <= end THEN vals[k - off] ELSE IF k <= Len(old) THEN old[k] ELSE 0]
<1>1. old \in Seq({0, 1}) /\ Len(old) \in Nat
  <2>1. t[i] \in T!InodeRecords /\ {1} \cup {0} = {0, 1}
    BY DEF T!IsTree
  <2>2. QED
    BY <2>1 DEF T!InodeRecords
<1>2. Len(vals) = len /\ \A k \in 1 .. len : vals[k] = 1
  OBVIOUS
<1>3. n \in Nat
  <2>1. n = Max({end, Len(old)})
    BY DEF T!Max, Max
  <2>2. end \in Nat
    BY <1>2
  <2>3. \E x \in {end, Len(old)} : \A y \in {end, Len(old)} : x >= y
    BY <1>1, <2>2
  <2>4. QED
    BY <1>1, <2>1, <2>2, <2>3 DEF Max
<1>4. T!AfterWrite(t, i, off, vals) = [t EXCEPT ![i].data = data]
  BY DEF T!AfterWrite
<1>5. \A k \in 1 .. n : data[k] \in {0, 1}
  <2> HIDE DEF vals, old
  <2>1. ASSUME NEW k \in 1 .. n PROVE data[k] \in {0, 1}
    <3>1. CASE k > off /\ k <= end
      BY <1>2, <1>3, <3>1
    <3>2. CASE ~(k > off /\ k <= end) /\ k <= Len(old)
      BY <1>1, <1>3, <3>2
    <3>3. CASE ~(k > off /\ k <= end) /\ ~(k <= Len(old))
      BY <3>3
    <3>4. QED
      BY <3>1, <3>2, <3>3
  <2>2. QED
    BY <2>1
<1>6. data \in Seq({0, 1})
  <2> HIDE DEF n
  <2>1. data = [k \in 1 .. n |-> data[k]]
    OBVIOUS
  <2> HIDE DEF data
  <2>2. QED
    BY <1>3, <1>5, <2>1, IsASeq
<1>7. QED
  <2> HIDE DEF data
  <2>1. QED
    BY <1>4, <1>6, DataKeeps

LEMMA TruncateKeeps ==
  ASSUME NEW t, T!IsTree(t), NEW i \in T!Inodes, t[i].type = "file", NEW size \in Nat
  PROVE  LET u == T!AfterTruncate(t, i, size) IN T!IsTree(u) /\ SameEntries(t, u)
<1> DEFINE old == t[i].data
           data == [k \in 1 .. size |-> IF k <= Len(old) THEN old[k] ELSE 0]
<1>1. old \in Seq({0, 1}) /\ Len(old) \in Nat
  <2>1. t[i] \in T!InodeRecords /\ {1} \cup {0} = {0, 1}
    BY DEF T!IsTree
  <2>2. QED
    BY <2>1 DEF T!InodeRecords
<1>2. T!AfterTruncate(t, i, size) = [t EXCEPT ![i].data = data]
  BY DEF T!AfterTruncate
<1>3. \A k \in 1 .. size : data[k] \in {0, 1}
  BY <1>1
<1>4. data \in Seq({0, 1})
  BY <1>3, IsASeq
<1>5. QED
  <2> HIDE DEF data
  <2> DEFINE u == [t EXCEPT ![i].data = data]
  <2>1. T!IsTree(u) /\ SameEntries(t, u)
    BY <1>4, DataKeeps
  <2>2. T!AfterTruncate(t, i, size) = u
    BY <1>2
  <2> HIDE DEF u
  <2>3. QED
    BY <2>1, <2>2

----------------------------------------------------------------------------
(* Nodes *)

MountsInv == \E m \in Machines : mounts = MountAll(m)
TreesInv == DOMAIN trees = DOMAIN Disks /\ \A v \in DOMAIN Disks : T!IsTree(trees[v])

\* The nodes there may be: inodes of the FS2 volumes, and what is listed in the other mounts.
Nodes == {n \in Present \X Nat : /\ OnFs2(n) => n[2] \in T!Inodes
                                 /\ ~OnFs2(n) => n[2] # 0
                                 /\ Kind(n) = "dev" => n[2] \in 1 .. 3}
At(n, v) == OnFs2(n) /\ mounts[n[1]].vol = v

\* The mounts are those of a machine.
LEMMA MountFacts ==
  ASSUME MountsInv
  PROVE  /\ {"root", "dev", "dd", "os"} \subseteq Present
         /\ Present \subseteq {"root", "dev", "dd", "os", "tmp"} \cup (DriveMounts \cap Names)
         /\ \A x \in Present : mounts[x].kind = "fs2" => mounts[x].vol \in DOMAIN Disks
         /\ mounts["dd"].kind = "virtual" /\ mounts["dev"].kind = "dev"
         /\ \A x \in Present : mounts[x].kind = "dev" <=> x = "dev"
<1>1. DriveMounts = {"0", "1", "2", "3"}
  BY DEF DriveMounts, Digits, ToSet
<1>2. PICK m \in Machines : mounts = MountAll(m)
  BY DEF MountsInv
<1> DEFINE shown == {d \in DOMAIN m.drives : m.drives[d] \in {"fs2", "fs2ro", "dsfs"}}
           fs2 == {d \in shown : m.drives[d] # "dsfs"}
           On(kind, v) == [kind |-> kind, vol |-> v, writable |-> kind = "fs2" /\ (v = "ram" \/ m.drives[v] = "fs2")]
           where == {"root", "dev", "dd", "os"} \cup shown \cup (IF m.tmp THEN {"tmp"} ELSE {})
           what(x) == IF x = "root" /\ m.boot \in fs2 THEN On("fs2", m.boot)
                      ELSE IF x = "tmp" THEN On("fs2", "ram")
                      ELSE IF x \in shown THEN On(IF x \in fs2 THEN "fs2" ELSE "dsfs", x)
                      ELSE On(IF x = "dev" THEN "dev" ELSE "virtual", x)
<1>3. mounts = [x \in where |-> what(x)]
  BY <1>2 DEF MountAll
<1>4. shown \subseteq DriveMounts \cap Names /\ fs2 \subseteq shown /\ Fs2Volumes(m) \subseteq DOMAIN Disks
  BY <1>2, DisksAssumption
<1>5. fs2 \subseteq Fs2Volumes(m) /\ (m.tmp => "ram" \in Fs2Volumes(m))
  BY DEF Fs2Volumes
<1> HIDE DEF shown, fs2
<1>6. Present = where
  BY <1>3 DEF Present
<1>7. ASSUME NEW x \in Present
      PROVE  /\ mounts[x].kind = "fs2" => mounts[x].vol \in DOMAIN Disks
             /\ mounts[x].kind = "dev" <=> x = "dev"
             /\ x = "dd" => mounts[x].kind = "virtual"
  <2>1. mounts[x] = what(x)
    BY <1>3, <1>6
  <2>2. CASE x = "root" /\ m.boot \in fs2
    BY <1>4, <1>5, <2>1, <2>2
  <2>3. CASE x = "tmp"
    BY <1>4, <1>5, <1>6, <2>1, <2>3, <1>1
  <2>4. CASE ~(x = "root" /\ m.boot \in fs2) /\ x # "tmp" /\ x \in shown
    BY <1>1, <1>4, <1>5, <2>1, <2>4
  <2>5. CASE ~(x = "root" /\ m.boot \in fs2) /\ x # "tmp" /\ x \notin shown
    BY <2>1, <2>5
  <2>6. QED
    BY <2>2, <2>3, <2>4, <2>5
<1>8. Present \subseteq {"root", "dev", "dd", "os", "tmp"} \cup (DriveMounts \cap Names)
  BY <1>4, <1>6
<1>9. {"root", "dev", "dd", "os"} \subseteq Present
  BY <1>6
<1>10. QED
  BY <1>7, <1>8, <1>9

\* A node of a volume is an inode of its tree.
LEMMA NodeFacts ==
  ASSUME MountsInv, TreesInv, NEW n \in Nodes
  PROVE  /\ n = <<n[1], n[2]>> /\ n[1] \in Present /\ n[2] \in Nat
         /\ OnFs2(n) => n[2] \in T!Inodes /\ mounts[n[1]].vol \in DOMAIN Disks /\ T!IsTree(TreeOf(n))
         /\ IsDir(n) /\ ~OnFs2(n) => n[2] = DirIno
<1>1. n = <<n[1], n[2]>> /\ n[1] \in Present /\ n[2] \in Nat
  BY DEF Nodes
<1>2. OnFs2(n) => n[2] \in T!Inodes /\ mounts[n[1]].vol \in DOMAIN Disks /\ T!IsTree(TreeOf(n))
  BY <1>1, MountFacts DEF Nodes, OnFs2, Kind, TreesInv, TreeOf
<1>3. ASSUME IsDir(n), ~OnFs2(n), n[2] # DirIno PROVE FALSE
  <2>1. CASE Kind(n) = "dev"
    <3>1. n[2] \in {2, 3}
      BY <1>3, <2>1 DEF Nodes, DirIno
    <3>2. DevNodes[n[2] - 1] \in {"con", "null"}
      BY <3>1 DEF DevNodes
    <3>3. QED
      BY <1>3, <2>1, <3>2 DEF IsDir, TypeOf
  <2>2. CASE Kind(n) # "dev"
    BY <1>3, <2>2 DEF IsDir, TypeOf
  <2>3. QED
    BY <2>1, <2>2
<1>4. QED
  BY <1>1, <1>2, <1>3

\* "/" and the roots of the mounts are directories.
LEMMA MountRoots ==
  ASSUME MountsInv, TreesInv, NEW x \in Present
  PROVE  <<x, DirIno>> \in Nodes /\ IsDir(<<x, DirIno>>)
<1>1. T!Root = 1 /\ DirIno = 1 /\ 1 \in T!Inodes
  BY DisksAssumption DEF T!Root, DirIno, T!Inodes
<1> DEFINE n == <<x, DirIno>>
<1>2. n[1] = x /\ n[2] = 1 /\ n \in Present \X Nat
  BY <1>1
<1> HIDE DEF n
<1>3. n \in Nodes
  BY <1>1, <1>2 DEF Nodes
<1>4. IsDir(n)
  <2>1. CASE OnFs2(n)
    BY <1>1, <1>2, <1>3, <2>1, NodeFacts DEF IsDir, TypeOf, T!IsTree
  <2>2. CASE ~OnFs2(n)
    BY <1>1, <1>2, <2>2 DEF IsDir, TypeOf
  <2>3. QED
    BY <2>1, <2>2
<1>5. QED
  BY <1>3, <1>4 DEF n

LEMMA RootIs ==
  ASSUME MountsInv, TreesInv
  PROVE  RootNode \in Nodes /\ IsDir(RootNode) /\ RootNode[1] = "root" /\ RootNode[2] = 1
BY MountFacts, MountRoots DEF RootNode, DirIno

\* The fixed names are names, and lead to nodes of the directory.
LEMMA FixedFacts ==
  ASSUME MountsInv, TreesInv, NEW dir \in Nodes, IsDir(dir), ~OnFs2(dir), NEW k \in DOMAIN FixedNames(dir)
  PROVE  /\ FixedNames(dir)[k] \in Names /\ k \in Nat \ {0}
         /\ FixedNode(dir, k) \in Nodes /\ ParentOf(FixedNode(dir, k)) = dir
         /\ \A j \in DOMAIN FixedNames(dir) : FixedNode(dir, j) = FixedNode(dir, k) => j = k
<1>1. dir = <<dir[1], 1>> /\ dir[1] \in Present /\ Kind(dir) = mounts[dir[1]].kind
  BY NodeFacts DEF DirIno, Kind
<1>d. DriveMounts = {"0", "1", "2", "3"}
  BY DEF DriveMounts, Digits, ToSet
<1>2. CASE dir[1] = "dd"
  <2>1. FixedNames(dir) = [j \in {i \in DOMAIN Digits : Digits[i] \in Present} |-> Digits[j]]
    <3>1. Kind(dir) = "virtual"
      BY <1>1, <1>2, MountFacts
    <3>2. QED
      BY <1>2, <3>1 DEF FixedNames
  <2>2. DOMAIN Digits = 1 .. 4 /\ \A j \in 1 .. 4 : Digits[j] \in DriveMounts
    BY <1>d DEF Digits
  <2>3. \A j, i \in 1 .. 4 : Digits[j] = Digits[i] => j = i
    BY DEF Digits
  <2>4. \A j \in DOMAIN FixedNames(dir) :
          j \in 1 .. 4 /\ FixedNames(dir)[j] = Digits[j] /\ Digits[j] \in Present /\ FixedNode(dir, j) = <<Digits[j], DirIno>>
    BY <1>2, <2>1, <2>2 DEF FixedNode
  <2>5. Digits[k] \in DriveMounts /\ Digits[k] \in Present
    BY <2>2, <2>4
  <2>6. Digits[k] \in Names
    BY <1>d, <2>5, MountFacts
  <2>7. FixedNode(dir, k) \in Nodes
    BY <2>4, <2>5, MountRoots
  <2>8. ParentOf(FixedNode(dir, k)) = dir
    BY <1>1, <1>2, <1>d, <2>4, <2>5 DEF ParentOf, RootNode, DirIno
  <2>9. \A j \in DOMAIN FixedNames(dir) : FixedNode(dir, j) = FixedNode(dir, k) => j = k
    BY <2>3, <2>4
  <2>10. QED
    BY <2>4, <2>6, <2>7, <2>8, <2>9
<1>3. CASE dir[1] # "dd"
  <2>1. FixedNames(dir) \in Seq(Names)
    <3>1. FixedNames(dir) = IF Kind(dir) = "dev" THEN DevNodes ELSE IF Kind(dir) = "dsfs" THEN DsfsNames ELSE <<>>
      BY <1>3 DEF FixedNames
    <3>2. QED
      BY <3>1, NamesAssumption
  <2>2. DOMAIN FixedNames(dir) = 1 .. Len(FixedNames(dir)) /\ Len(FixedNames(dir)) \in Nat
    BY <2>1
  <2>3. \A j \in DOMAIN FixedNames(dir) : j \in Nat \ {0} /\ FixedNode(dir, j) = <<dir[1], j + 1>>
    BY <1>3, <2>2 DEF FixedNode
  <2>4. Kind(dir) = "dev" => k \in 1 .. 2
    <3>1. Kind(dir) = "dev" => FixedNames(dir) = DevNodes
      BY <1>3 DEF FixedNames
    <3>2. Len(DevNodes) = 2
      BY DEF DevNodes
    <3>3. QED
      BY <2>2, <3>1, <3>2
  <2> DEFINE n == <<dir[1], k + 1>>
  <2>5. n[1] = dir[1] /\ n[2] = k + 1 /\ k \in Nat \ {0} /\ n \in Present \X Nat
    BY <1>1, <2>3
  <2>6. n \in Nodes
    BY <2>4, <2>5 DEF Nodes, OnFs2, Kind
  <2>7. ParentOf(n) = dir
    <3>1. n # RootNode /\ n[2] # DirIno
      BY <2>5 DEF RootNode, DirIno
    <3>2. ~OnFs2(n)
      BY <2>5 DEF OnFs2, Kind
    <3>3. QED
      BY <1>1, <2>5, <3>1, <3>2 DEF ParentOf, DirIno
  <2>8. QED
    BY <2>1, <2>2, <2>3, <2>6, <2>7
<1>4. QED
  BY <1>2, <1>3

\* What a name of a directory leads to is a node below it, whose stored name has the same key.
LEMMA LookupFacts ==
  ASSUME MountsInv, TreesInv, NEW dir \in Nodes, IsDir(dir), NEW c \in Names, NEW l \in VfsLookup(dir, c)
  PROVE  /\ l = [node |-> l.node, name |-> l.name]
         /\ l.node \in Nodes /\ l.name \in Names /\ Fold[l.name] = Fold[c] /\ ParentOf(l.node) = dir
<1>d. DriveMounts = {"0", "1", "2", "3"} /\ ReservedNames = {"dev", "dd", "os", "tmp"}
  BY DEF DriveMounts, Digits, ReservedNames, Reserved, ToSet
<1>f. Fold[c] \in Names /\ Fold[Fold[c]] = Fold[c]
  BY NamesAssumption
<1>1. CASE ReservedIn(dir, c)
  <2>1. Fold[c] \in ReservedNames /\ dir = RootNode
    BY <1>1 DEF ReservedIn
  <2>2. l = [node |-> <<Fold[c], DirIno>>, name |-> Fold[c]] /\ Fold[c] \in Present
    BY <1>1 DEF VfsLookup
  <2>3. l.node = <<Fold[c], DirIno>> /\ l.name = Fold[c]
    BY <2>2
  <2>4. l.node \in Nodes
    BY <2>2, <2>3, MountRoots
  <2>5. ParentOf(l.node) = RootNode
    BY <1>d, <2>1, <2>3 DEF ParentOf, RootNode, DirIno
  <2>6. QED
    BY <1>f, <2>1, <2>2, <2>3, <2>4, <2>5
<1>2. CASE ~ReservedIn(dir, c) /\ OnFs2(dir)
  <2> DEFINE t == TreeOf(dir)
             s == T!Find(t, dir[2], c)
             e == t[dir[2]].slots[s]
  <2>1. T!IsTree(t) /\ dir[2] \in T!Inodes /\ t \in Tree /\ dir = <<dir[1], dir[2]>> /\ dir[1] \in Present
    BY <1>2, NodeFacts DEF T!IsTree, Tree
  <2>2. l = [node |-> <<dir[1], e[1]>>, name |-> e[2]] /\ s # 0
    BY <1>2 DEF VfsLookup
  <2> HIDE DEF t
  <2>3. s \in T!Used(t, dir[2]) /\ Fold[e[2]] = Fold[c]
    BY <2>1, <2>2, FindIs DEF T!Matches
  <2>4. e[1] \in T!Inodes /\ e[2] \in Names /\ e[1] # T!Root /\ t[e[1]].parent = dir[2]
    BY <2>1, <2>3, UsedAreSlots DEF T!IsTree
  <2> HIDE DEF s, e
  <2>5. l.node = <<dir[1], e[1]>> /\ l.name = e[2]
    BY <2>2
  <2>6. l.node[1] = dir[1] /\ l.node[2] = e[1] /\ OnFs2(l.node)
    BY <1>2, <2>5 DEF OnFs2, Kind
  <2>7. e[1] \in Nat /\ T!Root = 1 /\ DirIno = 1
    BY <2>4, DisksAssumption DEF T!Inodes, T!Root, DirIno
  <2>8. l.node \in Nodes
    BY <2>1, <2>4, <2>5, <2>6, <2>7 DEF Nodes, OnFs2
  <2>9. ParentOf(l.node) = dir
    <3>1. l.node # RootNode /\ l.node[2] # DirIno
      BY <2>4, <2>6, <2>7 DEF RootNode
    <3>2. TreeOf(l.node) = t
      BY <2>6 DEF TreeOf, t
    <3>3. QED
      BY <2>1, <2>4, <2>6, <3>1, <3>2 DEF ParentOf
  <2>10. QED
    BY <2>2, <2>3, <2>4, <2>5, <2>8, <2>9 DEF e
<1>3. CASE ~ReservedIn(dir, c) /\ ~OnFs2(dir)
  <2>1. PICK k \in DOMAIN FixedNames(dir) :
          l = [node |-> FixedNode(dir, k), name |-> FixedNames(dir)[k]] /\ Fold[FixedNames(dir)[k]] = Fold[c]
    BY <1>3 DEF VfsLookup
  <2>2. QED
    BY <1>3, <2>1, FixedFacts
<1>4. QED
  BY <1>1, <1>2, <1>3

\* Names with one key lead to the same.
LEMMA SameKeySameLookup ==
  ASSUME NEW dir, NEW a, NEW b, Fold[a] = Fold[b]
  PROVE  VfsLookup(dir, a) = VfsLookup(dir, b)
<1>1. ReservedIn(dir, a) <=> ReservedIn(dir, b)
  BY DEF ReservedIn
<1>2. \A t, d : T!Find(t, d, a) = T!Find(t, d, b)
  BY DEF T!Find, T!Matches
<1>3. QED
  BY <1>1, <1>2 DEF VfsLookup

----------------------------------------------------------------------------
(* Paths *)

\* Name c leads from directory a to b, and is stored as c.
Step(a, c, b) == IsDir(a) /\ VfsLookup(a, c) # {} /\ Found(a, c) = [node |-> b, name |-> c]

\* ns are the nodes along path, from "/" to node.
Along(ns, path, node) ==
  /\ ns \in [0 .. Len(path) -> Nodes] /\ ns[0] = RootNode /\ ns[Len(path)] = node
  /\ \A k \in 1 .. Len(path) : Step(ns[k - 1], path[k], ns[k])
Leads(path, node) == \E ns : Along(ns, path, node)

Walks == {w \in [ok : BOOLEAN, node : Nodes, path : Seq(Names)] : w.ok => Leads(w.path, w.node)}
Components == Names \cup {".", ".."}

\* One name more, one name less.
LEMMA LeadsDown ==
  ASSUME MountsInv, TreesInv, NEW path \in Seq(Names), NEW a, Leads(path, a), NEW c \in Names, NEW b \in Nodes, Step(a, c, b)
  PROVE  Leads(Append(path, c), b)
<1>1. PICK ns : Along(ns, path, a)
  BY DEF Leads
<1> DEFINE n == Len(path)
           more == [k \in 0 .. n + 1 |-> IF k = n + 1 THEN b ELSE ns[k]]
           q == Append(path, c)
<1>2. n \in Nat /\ Len(q) = n + 1 /\ q[n + 1] = c /\ \A k \in 1 .. n : q[k] = path[k]
  OBVIOUS
<1>3. ns \in [0 .. n -> Nodes] /\ ns[0] = RootNode /\ ns[n] = a /\ \A k \in 1 .. n : Step(ns[k - 1], path[k], ns[k])
  BY <1>1 DEF Along
<1> HIDE DEF n, q
<1>4. more \in [0 .. n + 1 -> Nodes] /\ more[0] = RootNode /\ more[n + 1] = b
  BY <1>2, <1>3
<1>5. \A k \in 1 .. n : more[k] = ns[k] /\ more[k - 1] = ns[k - 1]
  BY <1>2
<1>6. more[n] = a
  BY <1>2, <1>3
<1>7. ASSUME NEW k \in 1 .. n + 1 PROVE Step(more[k - 1], q[k], more[k])
  <2> HIDE DEF more
  <2>1. CASE k = n + 1
    <3>1. k - 1 = n
      BY <1>2, <2>1
    <3>2. QED
      BY <1>2, <1>4, <1>6, <2>1, <3>1
  <2>2. CASE k # n + 1
    <3>1. k \in 1 .. n
      BY <1>2, <2>2
    <3>2. QED
      BY <1>2, <1>3, <1>5, <3>1
  <2>3. QED
    BY <2>1, <2>2
<1>8. Along(more, q, b)
  <2> HIDE DEF more
  <2>1. QED
    BY <1>2, <1>4, <1>7 DEF Along
<1>9. QED
  BY <1>8 DEF Leads, q

LEMMA LeadsUp ==
  ASSUME MountsInv, TreesInv, NEW path \in Seq(Names), NEW a, Leads(path, a)
  PROVE  /\ path = <<>> => a = RootNode /\ ParentOf(a) = RootNode
         /\ path # <<>> => Front(path) \in Seq(Names) /\ ParentOf(a) \in Nodes /\ Leads(Front(path), ParentOf(a))
<1>1. PICK ns : Along(ns, path, a)
  BY DEF Leads
<1> DEFINE n == Len(path)
<1>2. /\ n \in Nat /\ \A k \in 1 .. n : path[k] \in Names
      /\ ns \in [0 .. n -> Nodes] /\ ns[0] = RootNode /\ ns[n] = a /\ \A k \in 1 .. n : Step(ns[k - 1], path[k], ns[k])
  BY <1>1 DEF Along
<1>3. CASE path = <<>>
  BY <1>2, <1>3 DEF ParentOf
<1>4. CASE path # <<>>
  <2> DEFINE q == Front(path)
             less == [k \in 0 .. n - 1 |-> ns[k]]
  <2>1. n \in Nat \ {0}
    BY <1>4
  <2>2. q \in Seq(Names) /\ Len(q) = n - 1 /\ \A k \in 1 .. n - 1 : q[k] = path[k]
    <3> DEFINE m == n - 1
    <3>1. m \in Nat /\ n = m + 1 /\ q = SubSeq(path, 1, m)
      BY <2>1 DEF Front
    <3> HIDE DEF q, m, n
    <3>2. \A i \in 1 .. m : path[i] \in Names
      BY <1>2, <3>1
    <3>3. /\ q \in Seq(Names) /\ Len(q) = IF 1 <= m THEN m - 1 + 1 ELSE 0
          /\ \A i \in 1 .. m - 1 + 1 : q[i] = path[1 + i - 1]
      BY <3>1, <3>2, SubSeqProperties
    <3>4. \A i \in 1 .. m : 1 + i - 1 = i
      BY <3>1
    <3>5. QED
      BY <3>1, <3>3, <3>4 DEF m
  <2> HIDE DEF q, n
  <2>3. n \in 1 .. n /\ n - 1 \in 0 .. n /\ ns[n - 1] \in Nodes
    BY <1>2, <2>1
  <2>4. Step(ns[n - 1], path[n], a)
    BY <1>2, <2>3
  <2>5. ParentOf(a) = ns[n - 1]
    <3>1. Found(ns[n - 1], path[n]) \in VfsLookup(ns[n - 1], path[n])
      BY <2>4 DEF Step, Found
    <3>2. Found(ns[n - 1], path[n]).node = a
      BY <2>4 DEF Step
    <3>3. IsDir(ns[n - 1]) /\ path[n] \in Names
      BY <1>2, <2>3, <2>4 DEF Step
    <3>4. QED
      BY <2>3, <3>1, <3>2, <3>3, LookupFacts
  <2>6. less \in [0 .. n - 1 -> Nodes] /\ less[0] = RootNode /\ less[n - 1] = ns[n - 1]
    BY <1>2, <2>1
  <2>7. \A k \in 1 .. n - 1 : k \in 1 .. n /\ less[k] = ns[k] /\ less[k - 1] = ns[k - 1]
    BY <2>1
  <2>8. Along(less, q, ns[n - 1])
    <3> HIDE DEF less
    <3>1. \A k \in 1 .. n - 1 : Step(less[k - 1], q[k], less[k])
      BY <1>2, <2>2, <2>7
    <3>2. QED
      BY <2>2, <2>6, <3>1 DEF Along
  <2>9. QED
    BY <1>4, <2>2, <2>3, <2>5, <2>8 DEF Leads, q
<1>5. QED
  BY <1>3, <1>4

\* A component keeps a walk on the way its path tells.
LEMMA EnterKeeps ==
  ASSUME MountsInv, TreesInv, NEW w \in Walks, NEW c \in Components
  PROVE  Enter(w, c) \in Walks
<1>1. w \in [ok : BOOLEAN, node : Nodes, path : Seq(Names)] /\ (w.ok => Leads(w.path, w.node))
  BY DEF Walks
<1>2. w.ok \in BOOLEAN /\ w.node \in Nodes /\ w.path \in Seq(Names)
  BY <1>1
<1>3. NoWalk \in Walks
  <2>1. <<>> \in Seq(Names)
    OBVIOUS
  <2>2. QED
    BY <2>1, RootIs DEF NoWalk, Walks
<1>4. CASE ~w.ok \/ ~IsDir(w.node)
  BY <1>3, <1>4 DEF Enter
<1>5. CASE w.ok /\ IsDir(w.node) /\ c = "."
  BY <1>5 DEF Enter
<1>6. CASE w.ok /\ IsDir(w.node) /\ c = ".."
  <2> DEFINE node == ParentOf(w.node)
             path == IF w.path = <<>> THEN w.path ELSE Front(w.path)
             x == [w EXCEPT !.node = node, !.path = path]
  <2>1. Enter(w, c) = x
    BY <1>6 DEF Enter
  <2>2. node \in Nodes /\ path \in Seq(Names) /\ Leads(path, node)
    <3>1. CASE w.path = <<>>
      BY <1>1, <1>2, <1>6, <3>1, LeadsUp, RootIs
    <3>2. CASE w.path # <<>>
      BY <1>1, <1>2, <1>6, <3>2, LeadsUp
    <3>3. QED
      BY <3>1, <3>2
  <2> HIDE DEF node, path
  <2>3. x \in [ok : BOOLEAN, node : Nodes, path : Seq(Names)] /\ x.node = node /\ x.path = path
    BY <1>1, <2>2
  <2>4. QED
    BY <2>1, <2>2, <2>3 DEF Walks
<1>7. CASE w.ok /\ IsDir(w.node) /\ c \notin {".", ".."}
  <2>0. c \in Names
    BY <1>7 DEF Components
  <2>1. CASE VfsLookup(w.node, c) = {}
    BY <1>3, <1>7, <2>1 DEF Enter
  <2>2. CASE VfsLookup(w.node, c) # {}
    <3> DEFINE l == Found(w.node, c)
               x == [w EXCEPT !.node = l.node, !.path = Append(w.path, l.name)]
    <3>1. Enter(w, c) = x
      BY <1>7, <2>2 DEF Enter
    <3>2. l \in VfsLookup(w.node, c)
      BY <2>2 DEF Found
    <3> HIDE DEF l
    <3>3. /\ l = [node |-> l.node, name |-> l.name] /\ l.node \in Nodes /\ l.name \in Names
          /\ Fold[l.name] = Fold[c]
      BY <1>2, <1>7, <2>0, <3>2, LookupFacts
    <3>4. VfsLookup(w.node, l.name) = VfsLookup(w.node, c)
      BY <3>3, SameKeySameLookup
    <3>5. Step(w.node, l.name, l.node)
      BY <1>7, <2>2, <3>3, <3>4 DEF Step, Found, l
    <3>6. Leads(Append(w.path, l.name), l.node)
      BY <1>1, <1>2, <1>7, <3>3, <3>5, LeadsDown
    <3>7. Append(w.path, l.name) \in Seq(Names)
      BY <1>2, <3>3
    <3>8. x \in [ok : BOOLEAN, node : Nodes, path : Seq(Names)] /\ x.node = l.node /\ x.path = Append(w.path, l.name)
      BY <1>1, <3>3, <3>7
    <3>9. QED
      BY <3>1, <3>6, <3>8 DEF Walks
  <2>3. QED
    BY <2>1, <2>2
<1>8. QED
  BY <1>4, <1>5, <1>6, <1>7

\* A walk goes on component by component.
WalkSteps(at, s, abs, comps) ==
  /\ at \in [0 .. Len(comps) -> Walks] /\ at[0] = Start(s, abs) /\ at[Len(comps)] = WalkFrom(s, abs, comps)
  /\ \A k \in 1 .. Len(comps) : at[k] = Enter(at[k - 1], comps[k])
LEMMA WalkIs ==
  ASSUME MountsInv, TreesInv, NEW s, NEW abs, Start(s, abs) \in Walks, NEW comps \in Seq(Components)
  PROVE  \E at : WalkSteps(at, s, abs, comps)
<1> DEFINE n == Len(comps)
           F == [k \in 1 .. n |-> [w \in Walks |-> Enter(w, comps[k])]]
           IsWalk(f) == f = [k \in 0 .. n |-> IF k = 0 THEN Start(s, abs) ELSE Enter(f[k - 1], comps[k])]
<1>1. n \in Nat /\ \A k \in 1 .. n : comps[k] \in Components
  OBVIOUS
<1>2. \A k \in 1 .. n, w \in Walks : Enter(w, comps[k]) \in Walks
  BY <1>1, EnterKeeps
<1>3. F \in [1 .. n -> [Walks -> Walks]]
  BY <1>2
<1>4. PICK at \in [0 .. n -> Walks] : at[0] = Start(s, abs) /\ \A k \in 1 .. n : at[k] = F[k][at[k - 1]]
  <2> DEFINE x == Start(s, abs)
  <2>1. x \in Walks
    OBVIOUS
  <2> HIDE DEF F, x, n
  <2>2. \E at : Runs(at, n, Walks, F, x)
    BY <1>1, <1>3, <2>1, Recursion
  <2>3. QED
    BY <2>2 DEF x, Runs
<1> HIDE DEF n
<1>5. \A k \in 1 .. n : k - 1 \in 0 .. n /\ k \in 0 .. n /\ k # 0 /\ at[k] = Enter(at[k - 1], comps[k])
  <2>1. \A k \in 1 .. n : k - 1 \in 0 .. n /\ k \in 0 .. n /\ k # 0
    BY <1>1
  <2>2. QED
    BY <1>4, <2>1
<1>6. IsWalk(at)
  <2>1. \A k \in 0 .. n : k # 0 => k \in 1 .. n
    BY <1>1
  <2>2. \A k \in 0 .. n : at[k] = IF k = 0 THEN Start(s, abs) ELSE Enter(at[k - 1], comps[k])
    BY <1>4, <1>5, <2>1
  <2>3. QED
    BY <1>4, <2>2
<1> DEFINE f == CHOOSE f : IsWalk(f)
<1>7. IsWalk(f)
  <2> HIDE DEF IsWalk
  <2>1. QED
    BY <1>6
<1>8. WalkFrom(s, abs, comps) = f[n]
  BY DEF WalkFrom, Through, n
<1> HIDE DEF f
<1>9. f[n] = at[n]
  <2> DEFINE S == {k \in 0 .. n : f[k] = at[k]}
  <2>1. \A k \in 0 .. n : f[k] = IF k = 0 THEN Start(s, abs) ELSE Enter(f[k - 1], comps[k])
    BY <1>7
  <2>2. 0 \in S
    BY <1>1, <1>4, <2>1
  <2>3. ASSUME NEW k \in 0 .. n, k < n, k \in S PROVE k + 1 \in S
    <3>1. k + 1 \in 1 .. n /\ (k + 1) - 1 = k
      BY <1>1, <2>3
    <3>2. f[k + 1] = Enter(f[k], comps[k + 1]) /\ at[k + 1] = Enter(at[k], comps[k + 1])
      BY <1>5, <2>1, <3>1
    <3>3. k + 1 \in 0 .. n
      BY <1>5, <3>1
    <3>4. QED
      BY <2>3, <3>2, <3>3
  <2>4. 0 .. n \subseteq S
    <3> HIDE DEF S
    <3>1. QED
      BY <1>1, <2>2, <2>3, AllUpTo
  <2>5. n \in S
    <3> HIDE DEF S
    <3>1. QED
      BY <1>1, <2>4
  <2>6. QED
    BY <2>5
<1>10. WalkSteps(at, s, abs, comps)
  BY <1>4, <1>5, <1>8, <1>9 DEF WalkSteps, n
<1>11. QED
  BY <1>10

\* Where a walk of a session or from "/" ends is where its path leads.
LEMMA WalkKeeps ==
  ASSUME MountsInv, TreesInv, NEW s, NEW abs, Start(s, abs) \in Walks, NEW comps \in Seq(Components)
  PROVE  WalkFrom(s, abs, comps) \in Walks
<1>1. PICK at : WalkSteps(at, s, abs, comps)
  BY WalkIs
<1>2. Len(comps) \in 0 .. Len(comps)
  OBVIOUS
<1>3. QED
  BY <1>1, <1>2 DEF WalkSteps

\* The path of a node leads to it when it is walked from "/".
LEMMA Retrace ==
  ASSUME MountsInv, TreesInv, NEW s, NEW path \in Seq(Names), NEW node, Leads(path, node)
  PROVE  WalkFrom(s, TRUE, path) = [ok |-> TRUE, node |-> node, path |-> path]
<1> DEFINE n == Len(path)
           Pre(k) == [i \in 1 .. k |-> path[i]]
           Here(ns, k) == [ok |-> TRUE, node |-> ns[k], path |-> Pre(k)]
<1>1. PICK ns : Along(ns, path, node)
  BY DEF Leads
<1>2. Start(s, TRUE) = [ok |-> TRUE, node |-> RootNode, path |-> <<>>]
  BY DEF Start, NoWalk
<1>3. Start(s, TRUE) \in Walks
  <2>1. <<>> \in Seq(Names)
    OBVIOUS
  <2>2. Along([k \in 0 .. 0 |-> RootNode], <<>>, RootNode)
    BY RootIs DEF Along
  <2>3. Leads(<<>>, RootNode)
    BY <2>2 DEF Leads
  <2> DEFINE w == [ok |-> TRUE, node |-> RootNode, path |-> <<>>]
  <2>4. w \in [ok : BOOLEAN, node : Nodes, path : Seq(Names)] /\ w.path = <<>> /\ w.node = RootNode
    BY <2>1, RootIs
  <2> HIDE DEF w
  <2>5. QED
    BY <1>2, <2>3, <2>4 DEF Walks, w
<1>4. n \in Nat /\ path \in Seq(Components) /\ \A k \in 1 .. n : path[k] \in Names /\ path[k] # "." /\ path[k] # ".."
  BY NamesAssumption DEF Components
<1>5. PICK at : WalkSteps(at, s, TRUE, path)
  BY <1>3, <1>4, WalkIs
<1>6. /\ at[0] = Start(s, TRUE) /\ at[n] = WalkFrom(s, TRUE, path) /\ ns[0] = RootNode /\ ns[n] = node
      /\ \A k \in 1 .. n : at[k] = Enter(at[k - 1], path[k]) /\ Step(ns[k - 1], path[k], ns[k])
  BY <1>1, <1>5 DEF WalkSteps, Along
<1>7. Pre(n) = path
  BY <1>4
<1>8. Pre(0) = <<>>
  OBVIOUS
<1>9. \A k \in Nat : k < n => Append(Pre(k), path[k + 1]) = Pre(k + 1)
  BY <1>4
<1> HIDE DEF n, Pre
<1> DEFINE S == {k \in 0 .. n : at[k] = Here(ns, k)}
<1>10. 0 \in S
  <2>1. 0 \in 0 .. n
    BY <1>4
  <2>2. at[0] = Here(ns, 0)
    BY <1>2, <1>6, <1>8
  <2>3. QED
    BY <2>1, <2>2
<1>11. ASSUME NEW k \in 0 .. n, k < n, k \in S PROVE k + 1 \in S
  <2>1. k \in Nat /\ k + 1 \in 1 .. n /\ k + 1 \in 0 .. n /\ (k + 1) - 1 = k
    BY <1>4, <1>11
  <2>2. at[k + 1] = Enter(Here(ns, k), path[k + 1]) /\ Step(ns[k], path[k + 1], ns[k + 1])
    BY <1>6, <1>11, <2>1
  <2>3. path[k + 1] \notin {".", ".."}
    BY <1>4, <2>1
  <2>4. Enter(Here(ns, k), path[k + 1]) = [Here(ns, k) EXCEPT !.node = ns[k + 1], !.path = Append(Pre(k), path[k + 1])]
    <3> DEFINE w == Here(ns, k)
    <3>1. w.ok /\ w.node = ns[k] /\ w.path = Pre(k)
      OBVIOUS
    <3> HIDE DEF w
    <3>2. /\ IsDir(w.node) /\ VfsLookup(w.node, path[k + 1]) # {}
          /\ Found(w.node, path[k + 1]) = [node |-> ns[k + 1], name |-> path[k + 1]]
      BY <2>2, <3>1 DEF Step
    <3>3. Found(w.node, path[k + 1]).node = ns[k + 1] /\ Found(w.node, path[k + 1]).name = path[k + 1]
      BY <3>2
    <3>4. Enter(w, path[k + 1]) = [w EXCEPT !.node = ns[k + 1], !.path = Append(Pre(k), path[k + 1])]
      BY <2>3, <3>1, <3>2, <3>3 DEF Enter
    <3>5. QED
      BY <3>4 DEF w
  <2>5. QED
    BY <1>9, <1>11, <2>1, <2>2, <2>4
<1>12. n \in S
  <2> HIDE DEF S
  <2>1. 0 .. n \subseteq S
    BY <1>4, <1>10, <1>11, AllUpTo
  <2>2. QED
    BY <1>4, <2>1
<1>13. QED
  BY <1>6, <1>7, <1>12

----------------------------------------------------------------------------
(* What stays when a volume changes *)

\* Volume v changes about inode i, or nothing changes.
Updates(v, i) ==
  /\ MountsInv /\ TreesInv /\ mounts' = mounts /\ TreesInv'
  /\ \A x \in DOMAIN Disks : trees'[x] = trees[x] \/ (x = v /\ Stays(trees[x], trees'[x], i))
Away(n, v, i) == ~(At(n, v) /\ n[2] = i)

LEMMA NodesStay ==
  ASSUME mounts' = mounts
  PROVE  /\ Nodes' = Nodes /\ Present' = Present
         /\ \A n : (OnFs2(n)' <=> OnFs2(n)) /\ Kind(n)' = Kind(n)
BY DEF Nodes, Present, OnFs2, Kind

LEMMA TypeStays ==
  ASSUME NEW v, NEW i, Updates(v, i), NEW n \in Nodes, TypeOf(n) # "free", Away(n, v, i)
  PROVE  TypeOf(n)' = TypeOf(n)
<1>1. mounts' = mounts /\ TreeOf(n)' = trees'[mounts[n[1]].vol] /\ TreeOf(n) = trees[mounts[n[1]].vol]
  BY DEF Updates, TreeOf
<1>2. CASE OnFs2(n)
  <2> DEFINE x == mounts[n[1]].vol
  <2>1. n[2] \in T!Inodes /\ x \in DOMAIN Disks
    BY <1>2, NodeFacts DEF Updates
  <2>2. TypeOf(n) = trees[x][n[2]].type /\ TypeOf(n)' = trees'[x][n[2]].type
    BY <1>1, <1>2 DEF TypeOf, OnFs2, Kind
  <2>3. CASE trees'[x] = trees[x]
    BY <2>2, <2>3
  <2>4. CASE x = v /\ Stays(trees[x], trees'[x], i)
    <3>1. n[2] # i
      BY <1>2, <2>4 DEF Away, At
    <3>2. QED
      BY <2>1, <2>2, <2>4, <3>1 DEF Stays
  <2>5. QED
    BY <2>1, <2>3, <2>4 DEF Updates
<1>3. CASE ~OnFs2(n)
  BY <1>1, <1>3 DEF TypeOf, OnFs2, Kind
<1>4. QED
  BY <1>2, <1>3

\* A step in a tree follows an entry.
LEMMA StepOnTree ==
  ASSUME MountsInv, TreesInv, NEW a \in Nodes, NEW c \in Names, NEW b \in Nodes, Step(a, c, b), OnFs2(a), ~ReservedIn(a, c)
  PROVE  LET t == TreeOf(a)
             s == T!Find(t, a[2], c)
         IN  /\ s \in T!Used(t, a[2]) /\ t[a[2]].slots[s] = <<b[2], c>> /\ b[1] = a[1] /\ s # 0
             /\ b[2] \in T!Inodes \ {T!Root} /\ t[b[2]].parent = a[2] /\ t[b[2]].type # "free"
<1> DEFINE t == TreeOf(a)
           s == T!Find(t, a[2], c)
           e == t[a[2]].slots[s]
<1>1. T!IsTree(t) /\ a[2] \in T!Inodes /\ t \in Tree
  BY NodeFacts DEF T!IsTree, Tree
<1>2. VfsLookup(a, c) # {} /\ Found(a, c) = [node |-> b, name |-> c]
  BY DEF Step
<1>3. VfsLookup(a, c) = {[node |-> <<a[1], t[a[2]].slots[r][1]>>, name |-> t[a[2]].slots[r][2]] : r \in {s} \ {0}}
  BY DEF VfsLookup
<1> HIDE DEF s, t
<1>4. s # 0 /\ Found(a, c) = [node |-> <<a[1], e[1]>>, name |-> e[2]]
  BY <1>2, <1>3 DEF Found
<1>5. s \in T!Used(t, a[2])
  BY <1>1, <1>4, FindIs DEF T!Matches, s
<1>6. e \in T!Inodes \X Names /\ e[1] \in T!Inodes
  BY <1>1, <1>5, UsedAreSlots
<1>7. e[1] # T!Root /\ t[e[1]].type # "free" /\ t[e[1]].parent = a[2]
  BY <1>1, <1>5 DEF T!IsTree
<1> HIDE DEF e
<1>8. b = <<a[1], e[1]>> /\ c = e[2]
  <2>1. [node |-> b, name |-> c].node = b /\ [node |-> b, name |-> c].name = c
    OBVIOUS
  <2>2. [node |-> <<a[1], e[1]>>, name |-> e[2]].node = <<a[1], e[1]>> /\ [node |-> <<a[1], e[1]>>, name |-> e[2]].name = e[2]
    OBVIOUS
  <2>3. QED
    BY <1>2, <1>4, <2>1, <2>2
<1>9. b[1] = a[1] /\ b[2] = e[1]
  BY <1>8
<1>10. e = <<b[2], c>>
  BY <1>6, <1>8, <1>9
<1>11. QED
  BY <1>4, <1>5, <1>6, <1>7, <1>9, <1>10 DEF e, s, t

LEMMA StepStays ==
  ASSUME NEW v, NEW i, Updates(v, i), NEW a \in Nodes, NEW c \in Names, NEW b \in Nodes, Step(a, c, b),
         Away(a, v, i), Away(b, v, i)
  PROVE  Step(a, c, b)'
<1>1. IsDir(a) /\ VfsLookup(a, c) # {} /\ Found(a, c) = [node |-> b, name |-> c]
  BY DEF Step
<1>2. IsDir(a)'
  BY <1>1, TypeStays DEF IsDir
<1>3. mounts' = mounts /\ MountsInv /\ TreesInv
  BY DEF Updates
<1>4. VfsLookup(a, c)' = VfsLookup(a, c)
  <2>1. CASE ReservedIn(a, c)
    BY <1>3, <2>1 DEF VfsLookup, ReservedIn, Present
  <2>2. CASE ~ReservedIn(a, c) /\ ~OnFs2(a)
    BY <1>3, <2>2 DEF VfsLookup, ReservedIn, Present, OnFs2, Kind, FixedNames, FixedNode
  <2>3. CASE ~ReservedIn(a, c) /\ OnFs2(a)
    <3> DEFINE x == mounts[a[1]].vol
               t == trees[x]
               u == trees'[x]
               s == T!Find(t, a[2], c)
    <3>1. TreeOf(a) = t /\ TreeOf(a)' = u /\ x \in DOMAIN Disks /\ a[2] \in T!Inodes
      BY <1>3, <2>3, NodeFacts DEF TreeOf
    <3>2. T!IsTree(t) /\ T!IsTree(u)
      BY <3>1 DEF Updates, TreesInv
    <3>3. s \in T!Used(t, a[2]) /\ t[a[2]].slots[s] = <<b[2], c>> /\ b[1] = a[1] /\ s # 0
      BY <1>3, <2>3, <3>1, StepOnTree
    <3>e. <<b[2], c>>[1] = b[2] /\ <<b[2], c>>[2] = c
      OBVIOUS
    <3>f. trees'[x] = trees[x] \/ (x = v /\ Stays(trees[x], trees'[x], i))
      BY <3>1 DEF Updates
    <3> HIDE DEF s
    <3>4. s \in T!Used(u, a[2]) /\ u[a[2]].slots[s] = t[a[2]].slots[s]
      <4>1. CASE u = t
        BY <3>3, <4>1
      <4>2. CASE x = v /\ Stays(t, u, i)
        <5>1. At(b, v) /\ At(a, v)
          BY <2>3, <3>3, <4>2 DEF At, OnFs2, Kind
        <5>2. t[a[2]].slots[s][1] = b[2] /\ b[2] # i
          BY <3>3, <3>e, <5>1 DEF Away
        <5>3. QED
          BY <3>1, <3>3, <4>2, <5>2 DEF Stays
      <4>3. QED
        BY <3>f, <4>1, <4>2
    <3>5. u[a[2]].slots[s][2] = c
      BY <3>3, <3>4, <3>e
    <3>6. T!Find(u, a[2], c) = s
      BY <3>1, <3>2, <3>4, <3>5, OneMatch DEF s
    <3>7. VfsLookup(a, c) = {[node |-> <<a[1], t[a[2]].slots[r][1]>>, name |-> t[a[2]].slots[r][2]] : r \in {s} \ {0}}
      BY <2>3, <3>1 DEF VfsLookup, s
    <3>8. VfsLookup(a, c)' = {[node |-> <<a[1], u[a[2]].slots[r][1]>>, name |-> u[a[2]].slots[r][2]] : r \in {T!Find(u, a[2], c)} \ {0}}
      BY <1>3, <2>3, <3>1 DEF VfsLookup, ReservedIn, OnFs2, Kind
    <3> HIDE DEF t, u
    <3>9. QED
      BY <3>4, <3>6, <3>7, <3>8 DEF s
  <2>4. QED
    BY <2>1, <2>2, <2>3
<1>5. QED
  BY <1>1, <1>2, <1>4 DEF Step, Found

\* A path stays when all its nodes are away from what changes.
LEMMA LeadsStays ==
  ASSUME NEW v, NEW i, Updates(v, i), NEW path \in Seq(Names), NEW node, NEW ns, Along(ns, path, node),
         \A k \in 0 .. Len(path) : Away(ns[k], v, i)
  PROVE  Leads(path, node)'
<1>1. /\ ns \in [0 .. Len(path) -> Nodes] /\ ns[0] = RootNode /\ ns[Len(path)] = node
      /\ \A k \in 1 .. Len(path) : Step(ns[k - 1], path[k], ns[k])
  BY DEF Along
<1>2. Nodes' = Nodes
  BY NodesStay DEF Updates
<1>3. \A k \in 1 .. Len(path) : k - 1 \in 0 .. Len(path) /\ k \in 0 .. Len(path) /\ path[k] \in Names
  OBVIOUS
<1>4. \A k \in 1 .. Len(path) : Step(ns[k - 1], path[k], ns[k])'
  BY <1>1, <1>3, StepStays
<1>5. Along(ns, path, node)'
  BY <1>1, <1>2, <1>4 DEF Along
<1>6. QED
  BY <1>5 DEF Leads

\* An inode is above itself, and what is above its parent is above it.
LEMMA AboveChild ==
  ASSUME NEW t, T!IsTree(t), NEW x \in T!Inodes
  PROVE  /\ x \in T!Above(t, x)
         /\ x # T!Root /\ t[x].type # "free" =>
              \A i \in T!Inodes \ {T!Root} : i \in T!Above(t, t[x].parent) => i \in T!Above(t, x)
<1> DEFINE N == NInodes
           Up(up, y) == /\ T!Above(t, y) = {up[k] : k \in 0 .. N} /\ up[0] = y
                        /\ \A k \in 1 .. N : up[k] = IF up[k - 1] \in {T!Root, 0} THEN up[k - 1] ELSE t[up[k - 1]].parent
<1>1. N \in Nat \ {0} /\ T!Inodes = 1 .. N /\ T!Root = 1
  BY DisksAssumption DEF T!Inodes, T!Root
<1>2. PICK a \in [0 .. N -> 0 .. N] : Up(a, x)
  <2>1. \E up : Climb(t, x, up)
    BY AboveIs
  <2>2. QED
    BY <2>1 DEF Climb
<1>3. x \in T!Above(t, x)
  <2>1. 0 \in 0 .. N
    BY <1>1
  <2>2. QED
    BY <1>2, <2>1
<1>4. ASSUME x # T!Root, t[x].type # "free", NEW i \in T!Inodes \ {T!Root}, i \in T!Above(t, t[x].parent)
      PROVE  i \in T!Above(t, x)
  <2> DEFINE y == t[x].parent
  <2>1. y \in T!Inodes
    BY <1>4 DEF T!IsTree
  <2>2. PICK b \in [0 .. N -> 0 .. N] : Up(b, y)
    <3> HIDE DEF y, Up
    <3>1. PICK b : Climb(t, y, b)
      BY <2>1, AboveIs
    <3>2. b \in [0 .. N -> 0 .. N] /\ Up(b, y)
      BY <3>1 DEF Climb, Up
    <3>3. QED
      BY <3>2
  <2>3. PICK k \in 0 .. N : b[k] = i
    BY <1>4, <2>2
  <2> DEFINE S == {j \in 0 .. N - 1 : a[j + 1] = b[j]}
  <2>4. 0 \in S
    <3>1. 0 \in 0 .. N - 1 /\ 1 \in 1 .. N /\ 1 - 1 = 0 /\ 0 + 1 = 1
      BY <1>1
    <3>2. a[1] = IF a[0] \in {T!Root, 0} THEN a[0] ELSE t[a[0]].parent
      BY <1>2, <3>1
    <3>3. a[1] = y
      BY <1>1, <1>2, <1>4, <3>2
    <3>4. QED
      BY <2>2, <3>1, <3>3
  <2>5. ASSUME NEW j \in 0 .. N - 1, j < N - 1, j \in S PROVE j + 1 \in S
    <3>1. j + 1 \in 1 .. N /\ (j + 1) + 1 \in 1 .. N /\ (j + 1) - 1 = j /\ ((j + 1) + 1) - 1 = j + 1 /\ j + 1 \in 0 .. N - 1
      BY <1>1, <2>5
    <3>2. a[(j + 1) + 1] = IF a[j + 1] \in {T!Root, 0} THEN a[j + 1] ELSE t[a[j + 1]].parent
      BY <1>2, <3>1
    <3>3. b[j + 1] = IF b[j] \in {T!Root, 0} THEN b[j] ELSE t[b[j]].parent
      BY <2>2, <3>1
    <3>4. QED
      BY <2>5, <3>1, <3>2, <3>3
  <2>6. 0 .. N - 1 \subseteq S
    <3> HIDE DEF S
    <3>1. N - 1 \in Nat
      BY <1>1
    <3>2. QED
      BY <2>4, <2>5, <3>1, AllUpTo
  <2>7. CASE k # N
    <3>1. k \in 0 .. N - 1 /\ k + 1 \in 0 .. N
      BY <1>1, <2>7
    <3>2. a[k + 1] = i
      BY <2>3, <2>6, <3>1
    <3>3. QED
      BY <1>2, <3>1, <3>2
  <2>8. CASE k = N
    <3> DEFINE Z == {j \in 0 .. N : b[N - j] \notin {T!Root, 0}}
    <3>1. 0 \in Z
      BY <1>1, <1>4, <2>3, <2>8
    <3>2. ASSUME NEW j \in 0 .. N, j < N, j \in Z PROVE j + 1 \in Z
      <4>1. N - j \in 1 .. N /\ (N - j) - 1 = N - (j + 1) /\ j + 1 \in 0 .. N
        BY <1>1, <3>2
      <4>2. b[N - j] = IF b[N - (j + 1)] \in {T!Root, 0} THEN b[N - (j + 1)] ELSE t[b[N - (j + 1)]].parent
        BY <2>2, <4>1
      <4>3. QED
        BY <3>2, <4>1, <4>2
    <3>3. 0 .. N \subseteq Z
      <4> HIDE DEF Z
      <4>1. QED
        BY <1>1, <3>1, <3>2, AllUpTo
    <3>4. \A j \in 0 .. N : b[j] \notin {T!Root, 0}
      <4>1. ASSUME NEW j \in 0 .. N PROVE b[j] \notin {T!Root, 0}
        <5>1. N - j \in 0 .. N /\ N - (N - j) = j
          BY <1>1
        <5>2. N - j \in Z
          BY <3>3, <5>1
        <5>3. QED
          BY <5>1, <5>2
      <4>2. QED
        BY <4>1
    <3>5. b \in [0 .. N -> T!Inodes]
      <4>1. \A j \in 0 .. N : b[j] \in 1 .. N
        <5>1. \A j \in 0 .. N : b[j] \in 0 .. N
          BY <2>2
        <5>2. ASSUME NEW j \in 0 .. N PROVE b[j] \in 1 .. N
          <6>1. b[j] \in 0 .. N /\ b[j] # 0
            BY <3>4, <5>1
          <6>2. N \in Nat
            BY <1>1
          <6> HIDE DEF N
          <6>3. QED
            BY <6>1, <6>2
        <5>3. QED
          BY <5>2
      <4>2. QED
        BY <1>1, <2>2, <4>1
    <3>6. \A j \in 0 .. N - 1 : b[j + 1] = t[b[j]].parent
      <4>1. ASSUME NEW j \in 0 .. N - 1 PROVE b[j + 1] = t[b[j]].parent
        <5>1. j + 1 \in 1 .. N /\ (j + 1) - 1 = j /\ j \in 0 .. N
          BY <1>1
        <5>2. b[j + 1] = IF b[j] \in {T!Root, 0} THEN b[j] ELSE t[b[j]].parent
          BY <2>2, <5>1
        <5>3. QED
          BY <3>4, <5>1, <5>2
      <4>2. QED
        BY <4>1
    <3>7. FALSE
      <4>1. \A j \in 0 .. N : b[j] # T!Root
        BY <3>4
      <4>2. QED
        BY <3>5, <3>6, <4>1, NoLongChain
    <3>8. QED
      BY <3>7
  <2>9. QED
    BY <2>7, <2>8
<1>5. QED
  BY <1>3, <1>4

\* The rest of a path from an inode that is not a root is below it, in the same mount.
LEMMA PathBelow ==
  ASSUME MountsInv, TreesInv, NEW path \in Seq(Names), NEW node, NEW ns, Along(ns, path, node),
         NEW k \in 0 .. Len(path), OnFs2(ns[k]), ns[k][2] # T!Root
  PROVE  node[1] = ns[k][1] /\ node \in Nodes /\ ns[k][2] \in T!Above(TreeOf(node), node[2])
<1> DEFINE n == Len(path)
           m == ns[k][1]
           i == ns[k][2]
           t == TreeOf(ns[k])
           S == {j \in 0 .. n : j >= k => ns[j][1] = m /\ ns[j][2] # T!Root /\ i \in T!Above(t, ns[j][2])}
<1>1. /\ n \in Nat /\ ns \in [0 .. n -> Nodes] /\ ns[0] = RootNode /\ ns[n] = node
      /\ \A j \in 1 .. n : Step(ns[j - 1], path[j], ns[j]) /\ path[j] \in Names
  BY DEF Along
<1>2. T!IsTree(t) /\ i \in T!Inodes \ {T!Root} /\ T!Root = 1
  BY <1>1, NodeFacts DEF T!Root
<1>3. ns[k] # RootNode /\ k # 0
  BY <1>1, <1>2, RootIs
<1>4. 0 \in S
  BY <1>1, <1>3
<1>5. ASSUME NEW j \in 0 .. n, j < n, j \in S PROVE j + 1 \in S
  <2>1. j + 1 \in 1 .. n /\ (j + 1) - 1 = j /\ j + 1 \in 0 .. n
    BY <1>1, <1>5
  <2>2. CASE j + 1 < k
    BY <2>1, <2>2
  <2>3. CASE j + 1 = k
    BY <1>2, <2>1, <2>3, AboveChild
  <2>4. CASE j + 1 > k
    <3>1. j >= k
      BY <2>4
    <3>2. ns[j][1] = m /\ ns[j][2] # T!Root /\ i \in T!Above(t, ns[j][2])
      BY <1>5, <3>1
    <3>3. ns[j] \in Nodes /\ ns[j + 1] \in Nodes /\ Step(ns[j], path[j + 1], ns[j + 1]) /\ path[j + 1] \in Names
      BY <1>1, <2>1
    <3>4. OnFs2(ns[j]) /\ TreeOf(ns[j]) = t /\ ~ReservedIn(ns[j], path[j + 1])
      BY <1>2, <3>2, RootIs DEF OnFs2, Kind, TreeOf, ReservedIn
    <3>5. /\ ns[j + 1][1] = m /\ ns[j + 1][2] \in T!Inodes \ {T!Root}
          /\ t[ns[j + 1][2]].parent = ns[j][2] /\ t[ns[j + 1][2]].type # "free"
      BY <3>2, <3>3, <3>4, StepOnTree
    <3>6. i \in T!Above(t, ns[j + 1][2])
      BY <1>2, <3>2, <3>5, AboveChild
    <3>7. QED
      BY <2>1, <3>5, <3>6
  <2>5. QED
    BY <1>1, <2>2, <2>3, <2>4
<1>6. n \in S
  <2> HIDE DEF S
  <2>1. 0 .. n \subseteq S
    BY <1>1, <1>4, <1>5, AllUpTo
  <2>2. QED
    BY <1>1, <2>1
<1>7. n >= k /\ n \in 0 .. n
  BY <1>1
<1>8. node[1] = m /\ i \in T!Above(t, node[2])
  BY <1>1, <1>6, <1>7
<1>9. TreeOf(node) = t
  BY <1>8 DEF TreeOf
<1>10. QED
  BY <1>1, <1>7, <1>8, <1>9

\* A path goes through directories that have entries: what has none is at its end.
LEMMA PathEnds ==
  ASSUME MountsInv, TreesInv, NEW path \in Seq(Names), NEW node, NEW ns, Along(ns, path, node),
         NEW k \in 0 .. Len(path), OnFs2(ns[k]), ns[k][2] # T!Root,
         ~IsDir(ns[k]) \/ T!Used(TreeOf(ns[k]), ns[k][2]) = {}
  PROVE  ns[k] = node
<1> DEFINE n == Len(path)
<1>1. /\ n \in Nat /\ ns \in [0 .. n -> Nodes] /\ ns[n] = node
      /\ \A j \in 1 .. n : Step(ns[j - 1], path[j], ns[j]) /\ path[j] \in Names
  BY DEF Along
<1>2. CASE k = n
  BY <1>1, <1>2
<1>3. CASE k # n
  <2>1. k + 1 \in 1 .. n /\ (k + 1) - 1 = k /\ k + 1 \in 0 .. n
    BY <1>1, <1>3
  <2>2. ns[k] \in Nodes /\ ns[k + 1] \in Nodes /\ Step(ns[k], path[k + 1], ns[k + 1]) /\ path[k + 1] \in Names
    BY <1>1, <2>1
  <2>3. ~ReservedIn(ns[k], path[k + 1])
    BY RootIs DEF ReservedIn, T!Root
  <2>4. T!Used(TreeOf(ns[k]), ns[k][2]) # {}
    BY <2>2, <2>3, StepOnTree
  <2>5. IsDir(ns[k])
    BY <2>2 DEF Step
  <2>6. QED
    BY <2>4, <2>5
<1>4. QED
  BY <1>2, <1>3

----------------------------------------------------------------------------
(* Objects *)

ObjRecords ==
  [kind : {"free", "session", "file", "null", "dir"}, badge : Nat, node : Nodes, path : Seq(Names),
   flags : SUBSET UNION Menu.flags, pos : Nat, phase : {0, 1}, cursor : Nat,
   owed : SUBSET Nodes, given : SUBSET Nodes, wrong : BOOLEAN]

\* What an object refers to is there, and a session's path leads to its cwd.
RefOk(o) ==
  /\ o.kind = "file" => TypeOf(o.node) = "file" /\ ("write" \in o.flags => OnFs2(o.node))
  /\ o.kind \in {"dir", "session"} => IsDir(o.node)
  /\ o.kind = "session" => Leads(o.path, o.node)

\* What o refers to, and the path of its cwd, are not about inode i of volume v.
Avoids(o, v, i) ==
  /\ o.kind \in {"file", "dir", "session"} => Away(o.node, v, i)
  /\ o.kind = "session" => \A ns : Along(ns, o.path, o.node) => \A k \in 0 .. Len(o.path) : Away(ns[k], v, i)

LEMMA RefStays ==
  ASSUME NEW v, NEW i, Updates(v, i), NEW o \in ObjRecords, RefOk(o), Avoids(o, v, i)
  PROVE  RefOk(o)'
<1>1. o.node \in Nodes /\ o.path \in Seq(Names)
  BY DEF ObjRecords
<1>2. mounts' = mounts
  BY DEF Updates
<1>3. ASSUME o.kind = "file" PROVE TypeOf(o.node)' = "file" /\ ("write" \in o.flags => OnFs2(o.node)')
  <2>1. TypeOf(o.node) = "file" /\ Away(o.node, v, i) /\ ("write" \in o.flags => OnFs2(o.node))
    BY <1>3 DEF RefOk, Avoids
  <2>2. TypeOf(o.node)' = TypeOf(o.node)
    BY <1>1, <2>1, TypeStays
  <2>3. QED
    BY <1>2, <2>1, <2>2, NodesStay
<1>4. ASSUME o.kind \in {"dir", "session"} PROVE IsDir(o.node)'
  <2>1. TypeOf(o.node) = "dir" /\ Away(o.node, v, i)
    BY <1>4 DEF RefOk, Avoids, IsDir
  <2>2. TypeOf(o.node)' = TypeOf(o.node)
    BY <1>1, <2>1, TypeStays
  <2>3. QED
    BY <2>1, <2>2 DEF IsDir
<1>5. ASSUME o.kind = "session" PROVE Leads(o.path, o.node)'
  <2>1. PICK ns : Along(ns, o.path, o.node)
    BY <1>5 DEF RefOk, Leads
  <2>2. \A k \in 0 .. Len(o.path) : Away(ns[k], v, i)
    BY <1>5, <2>1 DEF Avoids
  <2>3. QED
    BY <1>1, <2>1, <2>2, LeadsStays
<1>6. QED
  BY <1>3, <1>4, <1>5 DEF RefOk

\* No inode is 0.
LEMMA AvoidsNone ==
  ASSUME MountsInv, TreesInv, NEW o \in ObjRecords, NEW v
  PROVE  Avoids(o, v, 0)
<1>1. ASSUME NEW n \in Nodes PROVE Away(n, v, 0)
  <2>1. OnFs2(n) => n[2] \in 1 .. NInodes
    BY NodeFacts DEF T!Inodes
  <2>2. QED
    BY <2>1 DEF Away, At
<1>2. o.node \in Nodes
  BY DEF ObjRecords
<1>3. QED
  BY <1>1, <1>2 DEF Avoids, Along

\* Nothing refers to a free inode.
LEMMA AvoidsFree ==
  ASSUME MountsInv, TreesInv, NEW o \in ObjRecords, RefOk(o), NEW v, NEW i, trees[v][i].type = "free"
  PROVE  Avoids(o, v, i)
<1>1. ASSUME NEW n, TypeOf(n) # "free" PROVE Away(n, v, i)
  BY <1>1 DEF Away, At, TypeOf, TreeOf
<1>2. o.kind \in {"file", "dir", "session"} => TypeOf(o.node) # "free"
  BY DEF RefOk, IsDir
<1>3. ASSUME o.kind = "session", NEW ns, Along(ns, o.path, o.node), NEW k \in 0 .. Len(o.path)
      PROVE  Away(ns[k], v, i)
  <2>1. o.path \in Seq(Names)
    BY DEF ObjRecords
  <2>2. CASE k = Len(o.path)
    BY <1>1, <1>2, <1>3, <2>2 DEF Along
  <2>3. CASE k # Len(o.path)
    <3>1. k + 1 \in 1 .. Len(o.path) /\ (k + 1) - 1 = k
      BY <2>1, <2>3
    <3>2. Step(ns[k], o.path[k + 1], ns[k + 1])
      BY <1>3, <3>1 DEF Along
    <3>3. QED
      BY <1>1, <3>2 DEF Step, IsDir
  <2>4. QED
    BY <2>2, <2>3
<1>4. QED
  BY <1>1, <1>2, <1>3 DEF Avoids

\* busy keeps an inode that is removed or moves apart from what objects refer to.
LEMMA AvoidsBusy ==
  ASSUME MountsInv, TreesInv, NEW os, NEW j \in LiveObjs(os), os[j] \in ObjRecords, RefOk(os[j]),
         NEW n \in Nodes, NEW subtree \in BOOLEAN, OnFs2(n), n[2] # T!Root, ~Busy(os, n, subtree),
         subtree \/ ~IsDir(n) \/ T!Used(TreeOf(n), n[2]) = {}
  PROVE  Avoids(os[j], mounts[n[1]].vol, n[2])
<1> DEFINE o == os[j]
           v == mounts[n[1]].vol
           i == n[2]
<1>1. /\ T!IsTree(TreeOf(n)) /\ i \in T!Inodes /\ TreeOf(n) = trees[v]
      /\ \A x \in Nodes : At(x, v) => TreeOf(x) = trees[v] /\ OnFs2(x) /\ SameVolume(x, n)
  BY NodeFacts DEF At, TreeOf, SameVolume
<1>2. o.node \in Nodes /\ o.path \in Seq(Names)
  BY DEF ObjRecords
<1>3. ASSUME o.kind \in {"file", "dir", "session"}, At(o.node, v)
      PROVE  o.node[2] # i /\ (subtree => ~(i \in T!Above(trees[v], o.node[2])))
  BY <1>1, <1>2, <1>3 DEF Busy, T!IsUnder
<1>4. ASSUME o.kind = "session", NEW ns, Along(ns, o.path, o.node), NEW k \in 0 .. Len(o.path), At(ns[k], v), ns[k][2] = i
      PROVE  FALSE
  <2>1. ns[k] \in Nodes
    BY <1>4 DEF Along
  <2>2. OnFs2(ns[k]) /\ ns[k][2] # T!Root /\ TreeOf(ns[k]) = trees[v]
    BY <1>1, <1>4, <2>1
  <2>3. CASE subtree
    <3>1. o.node[1] = ns[k][1] /\ i \in T!Above(TreeOf(o.node), o.node[2])
      BY <1>2, <1>4, <2>2, PathBelow
    <3>2. At(o.node, v) /\ TreeOf(o.node) = trees[v]
      BY <1>4, <2>2, <3>1 DEF At, OnFs2, Kind, TreeOf
    <3>3. QED
      BY <1>3, <1>4, <2>3, <3>1, <3>2
  <2>4. CASE ~subtree
    <3>1. IsDir(ns[k]) <=> IsDir(n)
      BY <1>1, <1>4, <2>2 DEF IsDir, TypeOf
    <3>2. ~IsDir(ns[k]) \/ T!Used(TreeOf(ns[k]), ns[k][2]) = {}
      BY <1>1, <1>4, <2>2, <2>4, <3>1
    <3>3. ns[k] = o.node
      BY <1>2, <1>4, <2>2, <3>2, PathEnds
    <3>4. QED
      BY <1>3, <1>4, <3>3
  <2>5. QED
    BY <2>3, <2>4
<1>5. QED
  BY <1>3, <1>4 DEF Avoids, Away

\* Where the paths of a session lead.
LEMMA SessionStarts ==
  ASSUME MountsInv, TreesInv, NEW s \in ObjRecords, s.kind = "session", RefOk(s), NEW abs
  PROVE  Start(s, abs) \in Walks
<1> DEFINE Rec(node, path) == [ok |-> TRUE, node |-> node, path |-> path]
<1>1. ASSUME NEW node \in Nodes, NEW path \in Seq(Names), Leads(path, node)
      PROVE  Rec(node, path) \in Walks
  <2>1. Rec(node, path) \in [ok : BOOLEAN, node : Nodes, path : Seq(Names)] /\ Rec(node, path).node = node /\ Rec(node, path).path = path
    OBVIOUS
  <2> HIDE DEF Rec
  <2>2. QED
    BY <1>1, <2>1 DEF Walks
<1>2. CASE abs
  <2>1. Start(s, abs) = Rec(RootNode, <<>>)
    BY <1>2 DEF Start, NoWalk
  <2>2. Along([k \in 0 .. 0 |-> RootNode], <<>>, RootNode)
    BY RootIs DEF Along
  <2>3. Leads(<<>>, RootNode)
    BY <2>2 DEF Leads
  <2>4. <<>> \in Seq(Names)
    OBVIOUS
  <2> HIDE DEF Rec
  <2>5. QED
    BY <1>1, <2>1, <2>3, <2>4, RootIs
<1>3. CASE ~abs
  <2>1. Start(s, abs) = Rec(s.node, s.path)
    BY <1>3 DEF Start
  <2>2. s.node \in Nodes /\ s.path \in Seq(Names) /\ Leads(s.path, s.node)
    BY DEF ObjRecords, RefOk
  <2> HIDE DEF Rec
  <2>3. QED
    BY <1>1, <2>1, <2>2
<1>4. QED
  BY <1>2, <1>3

LEMMA WalkEnds ==
  ASSUME MountsInv, TreesInv, NEW s \in ObjRecords, s.kind = "session", RefOk(s), NEW p \in Menu.paths, Walk(s, p).ok
  PROVE  LET w == Walk(s, p) IN w.node \in Nodes /\ w.path \in Seq(Names) /\ Leads(w.path, w.node)
<1> DEFINE w == WalkFrom(s, p.abs, p.comps)
<1>1. w \in Walks
  BY SessionStarts, WalkKeeps, NamesAssumption DEF Components
<1> HIDE DEF w
<1>2. Walk(s, p) = w
  BY DEF Walk, NoWalk, w
<1>3. QED
  BY <1>1, <1>2 DEF Walks

LEMMA ParentIs ==
  ASSUME MountsInv, TreesInv, NEW s \in ObjRecords, s.kind = "session", RefOk(s), NEW p \in Menu.paths, WalkParent(s, p).ok
  PROVE  LET w == WalkParent(s, p)
         IN  /\ w.dir \in Nodes /\ IsDir(w.dir) /\ w.name \in Names
             /\ w.node = {l.node : l \in VfsLookup(w.dir, w.name)}
<1> DEFINE w == WalkFrom(s, p.abs, Front(p.comps))
           n == Len(p.comps)
<1>1. p.comps # <<>> /\ Last(p.comps) \notin {".", ".."} /\ w.ok /\ IsDir(w.node)
  BY DEF WalkParent
<1>2. WalkParent(s, p) = [ok |-> TRUE, dir |-> w.node, name |-> Last(p.comps), slash |-> p.slash,
                          node |-> {l.node : l \in VfsLookup(w.node, Last(p.comps))}]
  BY <1>1 DEF WalkParent
<1>3. p.comps \in Seq(Components)
  BY NamesAssumption DEF Components
<1>4. Last(p.comps) \in Names
  <2>1. n \in Nat /\ n # 0 /\ n \in 1 .. n /\ p.comps[n] \in Components
    BY <1>1, <1>3
  <2>2. QED
    BY <1>1, <2>1 DEF Last, Components
<1>5. Front(p.comps) \in Seq(Components)
  <2>1. n - 1 \in Int /\ \A i \in 1 .. n - 1 : p.comps[i] \in Components
    BY <1>3
  <2>2. SubSeq(p.comps, 1, n - 1) \in Seq(Components)
    BY <2>1, SubSeqProperties
  <2>3. QED
    BY <2>2 DEF Front
<1>6. w.node \in Nodes
  <2>1. w \in Walks
    BY <1>5, SessionStarts, WalkKeeps
  <2>2. QED
    BY <2>1 DEF Walks
<1> HIDE DEF w
<1>7. QED
  BY <1>1, <1>2, <1>4, <1>6

\* The node an update of the tree of dir finds under a name.
LEMMA ChangeIs ==
  ASSUME MountsInv, TreesInv, NEW s \in ObjRecords, s.kind = "session", RefOk(s), NEW p \in Menu.paths, WalkChange(s, p).ok
  PROVE  LET w == WalkChange(s, p)
             c == T!Child(TreeOf(w.dir), w.dir[2], w.name)
         IN  /\ w.dir \in Nodes /\ IsDir(w.dir) /\ OnFs2(w.dir) /\ w.name \in Names
             /\ w.node = {<<w.dir[1], c>>} /\ <<w.dir[1], c>> \in Nodes /\ c # T!Root
             /\ T!Find(TreeOf(w.dir), w.dir[2], w.name) # 0
<1> DEFINE w == WalkParent(s, p)
           t == TreeOf(w.dir)
           f == T!Find(t, w.dir[2], w.name)
           c == T!Child(t, w.dir[2], w.name)
<1>1. WalkChange(s, p) = w /\ w.ok /\ w.node # {} /\ (\A n \in w.node : n[1] = w.dir[1]) /\ WritableDir(w.dir)
  BY DEF WalkChange
<1>2. w.dir \in Nodes /\ IsDir(w.dir) /\ w.name \in Names /\ w.node = {l.node : l \in VfsLookup(w.dir, w.name)}
  BY <1>1, ParentIs
<1>3. OnFs2(w.dir)
  BY <1>1 DEF WritableDir
<1>4. w.dir[1] \in Present /\ w.dir[2] \in T!Inodes /\ T!IsTree(t) /\ t \in Tree
  BY <1>2, <1>3, NodeFacts DEF T!IsTree, Tree
<1> HIDE DEF w
<1>5. ~ReservedIn(w.dir, w.name)
  <2>1. ASSUME ReservedIn(w.dir, w.name) PROVE FALSE
    <3> DEFINE k == Fold[w.name]
    <3>1. k \in ReservedNames /\ w.dir[1] = "root"
      BY <2>1, RootIs DEF ReservedIn
    <3>2. VfsLookup(w.dir, w.name) = {[node |-> <<k, DirIno>>, name |-> k] : x \in {k} \cap Present}
      BY <2>1 DEF VfsLookup
    <3>3. w.node \subseteq {<<k, DirIno>>}
      BY <1>2, <3>2
    <3>4. k = "root"
      BY <1>1, <3>1, <3>3
    <3>5. ReservedNames = {"dev", "dd", "os", "tmp"}
      BY DEF ReservedNames, Reserved, ToSet
    <3>6. QED
      BY <3>1, <3>4, <3>5
  <2>2. QED
    BY <2>1
<1>6. VfsLookup(w.dir, w.name) = {[node |-> <<w.dir[1], t[w.dir[2]].slots[r][1]>>, name |-> t[w.dir[2]].slots[r][2]] : r \in {f} \ {0}}
  BY <1>3, <1>5 DEF VfsLookup
<1>7. f # 0
  BY <1>1, <1>2, <1>6
<1>8. w.node = {<<w.dir[1], c>>}
  <2>1. VfsLookup(w.dir, w.name) = {[node |-> <<w.dir[1], c>>, name |-> t[w.dir[2]].slots[f][2]]}
    BY <1>6, <1>7 DEF T!Child
  <2>2. QED
    BY <1>2, <2>1
<1>9. c \in T!Inodes /\ c # T!Root
  <2>1. f \in T!Used(t, w.dir[2])
    BY <1>4, <1>7, FindIs DEF T!Matches
  <2>2. QED
    BY <1>4, <2>1, UsedAreSlots DEF T!IsTree, T!Child
<1>10. <<w.dir[1], c>> \in Nodes
  <2> DEFINE n == <<w.dir[1], c>>
  <2>1. n[1] = w.dir[1] /\ n[2] = c /\ c \in Nat
    BY <1>9, DisksAssumption DEF T!Inodes
  <2>2. OnFs2(n) /\ Kind(n) = "fs2"
    BY <1>3, <2>1 DEF OnFs2, Kind
  <2> HIDE DEF c
  <2>3. n \in Present \X Nat
    BY <1>4, <2>1
  <2> HIDE DEF n
  <2>4. n \in Nodes
    BY <1>9, <2>1, <2>2, <2>3 DEF Nodes
  <2>5. QED
    BY <2>4 DEF n
<1>11. QED
  BY <1>1, <1>2, <1>3, <1>7, <1>8, <1>9, <1>10

----------------------------------------------------------------------------
(* Listings *)

\* Entry n of the directory of o is still to come, or has been passed.
Ahead(o, n) ==
  \/ o.phase = 0 /\ \E s \in Listed(o.node, o.cursor) : n = ListedNode(o.node, s)
  \/ \E k \in MountsListed(o.node, IF o.phase = 0 THEN 0 ELSE o.cursor) : n = <<Reserved[k], DirIno>>
Behind(o, n) ==
  \/ \E s \in Listed(o.node, 0) : n = ListedNode(o.node, s) /\ (o.phase = 0 => s <= o.cursor)
  \/ o.phase = 1 /\ \E k \in MountsListed(o.node, 0) : k <= o.cursor /\ n = <<Reserved[k], DirIno>>
ListOk(o) ==
  /\ ~o.wrong
  /\ o.kind = "dir" => (\A n \in o.owed : Ahead(o, n)) /\ (\A n \in o.given : Behind(o, n))

Objects == {o \in ObjRecords : RefOk(o) /\ ListOk(o)}

\* The places of a directory, and the nodes they list.
LEMMA ListedFacts ==
  ASSUME MountsInv, TreesInv, NEW dir \in Nodes, IsDir(dir)
  PROVE  /\ Listed(dir, 0) \subseteq Nat \ {0}
         /\ \A c \in Nat : Listed(dir, c) = {s \in Listed(dir, 0) : s > c}
         /\ \A s \in Listed(dir, 0) : ListedNode(dir, s) \in Nodes
         /\ \A r, s \in Listed(dir, 0) : ListedNode(dir, r) = ListedNode(dir, s) => r = s
         /\ dir = RootNode => \A s \in Listed(dir, 0) : ListedNode(dir, s)[1] = "root"
<1>1. dir = <<dir[1], dir[2]>> /\ dir[1] \in Present
  BY NodeFacts
<1>2. CASE OnFs2(dir)
  <2> DEFINE t == TreeOf(dir)
             d == dir[2]
             E(s) == t[d].slots[s]
             L == {s \in T!Used(t, d) : ~ReservedIn(dir, E(s)[2])}
  <2>1. T!IsTree(t) /\ t \in Tree /\ d \in T!Inodes
    BY <1>2, NodeFacts DEF T!IsTree, Tree
  <2>2. \A c : Listed(dir, c) = {s \in T!Used(t, d) : s > c /\ ~ReservedIn(dir, E(s)[2])}
    BY <1>2 DEF Listed
  <2>3. \A s : ListedNode(dir, s) = <<dir[1], E(s)[1]>>
    BY <1>2 DEF ListedNode
  <2>4. T!Used(t, d) \subseteq Nat \ {0} /\ \A s \in T!Used(t, d) : E(s)[1] \in T!Inodes
    BY <2>1, UsedAreSlots
  <2>5. \A r, s \in T!Used(t, d) : E(r)[1] = E(s)[1] => r = s
    BY <2>1 DEF T!IsTree
  <2> HIDE DEF t, d, E
  <2>6. Listed(dir, 0) = L
    BY <2>2, <2>4
  <2>7. \A c \in Nat : Listed(dir, c) = {s \in L : s > c}
    BY <2>2, <2>4
  <2>8. ASSUME NEW s \in L PROVE ListedNode(dir, s) \in Nodes /\ ListedNode(dir, s)[1] = dir[1]
    <3> DEFINE n == <<dir[1], E(s)[1]>>
    <3>1. ListedNode(dir, s) = n /\ n[1] = dir[1] /\ n[2] = E(s)[1] /\ n[2] \in T!Inodes /\ n[2] \in Nat
      BY <2>3, <2>4, DisksAssumption DEF T!Inodes
    <3>2. OnFs2(n) /\ Kind(n) = "fs2"
      BY <1>2, <3>1 DEF OnFs2, Kind
    <3>3. n \in Present \X Nat
      BY <1>1, <3>1
    <3> HIDE DEF n
    <3>4. QED
      BY <3>1, <3>2, <3>3 DEF Nodes
  <2>9. \A r, s \in L : ListedNode(dir, r) = ListedNode(dir, s) => r = s
    <3>1. \A x, y : <<dir[1], x>> = <<dir[1], y>> => x = y
      OBVIOUS
    <3>2. QED
      BY <2>3, <2>5, <3>1
  <2>10. dir = RootNode => dir[1] = "root"
    BY RootIs
  <2> HIDE DEF L
  <2>11. L \subseteq Nat \ {0}
    BY <2>4 DEF L
  <2>12. QED
    BY <2>6, <2>7, <2>8, <2>9, <2>10, <2>11
<1>3. CASE ~OnFs2(dir)
  <2> DEFINE K == DOMAIN FixedNames(dir)
  <2>1. \A c : Listed(dir, c) = {k \in K : k > c}
    BY <1>3 DEF Listed
  <2>2. \A k : ListedNode(dir, k) = FixedNode(dir, k)
    BY <1>3 DEF ListedNode
  <2>3. /\ K \subseteq Nat \ {0} /\ \A k \in K : FixedNode(dir, k) \in Nodes
        /\ \A j, k \in K : FixedNode(dir, j) = FixedNode(dir, k) => j = k
    BY <1>3, FixedFacts
  <2>4. dir = RootNode => \A k \in K : FixedNode(dir, k)[1] = "root"
    BY RootIs DEF FixedNode
  <2> HIDE DEF K
  <2>5. Listed(dir, 0) = K
    <3>1. Listed(dir, 0) = {k \in K : k > 0}
      BY <2>1
    <3>2. K \subseteq Nat \ {0}
      BY <2>3
    <3>3. \A k \in K : k > 0
      BY <3>2
    <3>4. QED
      BY <3>1, <3>3, Zenon
  <2>6. \A c \in Nat : Listed(dir, c) = {s \in Listed(dir, 0) : s > c}
    BY <2>1, <2>5
  <2>7. Listed(dir, 0) \subseteq Nat \ {0}
    BY <2>3, <2>5
  <2>8. ASSUME NEW s \in Listed(dir, 0) PROVE ListedNode(dir, s) \in Nodes
    <3>1. s \in K /\ ListedNode(dir, s) = FixedNode(dir, s)
      BY <2>2, <2>5
    <3>2. QED
      BY <2>3, <3>1
  <2>9. \A r, s \in Listed(dir, 0) : ListedNode(dir, r) = ListedNode(dir, s) => r = s
    BY <2>2, <2>3, <2>5
  <2>10. dir = RootNode => \A s \in Listed(dir, 0) : ListedNode(dir, s)[1] = "root"
    BY <2>2, <2>4, <2>5
  <2>11. QED
    BY <2>6, <2>7, <2>8, <2>9, <2>10
<1>4. QED
  BY <1>2, <1>3

\* What phase 1 lists.
LEMMA ReservedFacts ==
  ASSUME MountsInv, TreesInv, NEW dir
  PROVE  /\ MountsListed(dir, 0) \subseteq Nat \ {0}
         /\ \A c \in Nat : MountsListed(dir, c) = {k \in MountsListed(dir, 0) : k > c}
         /\ \A k \in MountsListed(dir, 0) :
              dir = RootNode /\ <<Reserved[k], DirIno>> \in Nodes /\ <<Reserved[k], DirIno>>[1] # "root"
         /\ \A j, k \in MountsListed(dir, 0) : <<Reserved[j], DirIno>> = <<Reserved[k], DirIno>> => j = k
<1>1. DOMAIN Reserved = 1 .. 4
  BY DEF Reserved
<1>2. \A c : MountsListed(dir, c) = IF dir = RootNode THEN {k \in 1 .. 4 : k > c /\ Reserved[k] \in Present} ELSE {}
  BY <1>1 DEF MountsListed
<1>3. \A k \in 1 .. 4 : Reserved[k] # "root" /\ \A j \in 1 .. 4 : Reserved[j] = Reserved[k] => j = k
  BY DEF Reserved
<1>4. \A x, y : <<x, DirIno>> = <<y, DirIno>> => x = y
  OBVIOUS
<1>5. \A x : <<x, DirIno>>[1] = x
  OBVIOUS
<1>6. MountsListed(dir, 0) = IF dir = RootNode THEN {k \in 1 .. 4 : Reserved[k] \in Present} ELSE {}
  BY <1>2
<1>7. \A k \in MountsListed(dir, 0) : k \in 1 .. 4 /\ Reserved[k] \in Present /\ dir = RootNode
  BY <1>6
<1>8. \A c \in Nat : MountsListed(dir, c) = {k \in MountsListed(dir, 0) : k > c}
  BY <1>2, <1>6
<1>9. QED
  BY <1>3, <1>4, <1>5, <1>7, <1>8, MountRoots

\* A new listing owes every entry.
LEMMA BegunIs ==
  ASSUME MountsInv, TreesInv, NEW o \in ObjRecords, o.kind = "dir", IsDir(o.node), ~o.wrong
  PROVE  Begun(o) \in Objects
<1>1. o.node \in Nodes
  BY DEF ObjRecords
<1>2. Entries(o.node) \subseteq Nodes
  BY <1>1, ListedFacts, ReservedFacts DEF Entries
<1> DEFINE new == Begun(o)
<1>3. new \in ObjRecords
  BY <1>2 DEF Begun, ObjRecords
<1>4. /\ new.kind = "dir" /\ new.node = o.node /\ new.phase = 0 /\ new.cursor = 0
      /\ new.owed = Entries(o.node) /\ new.given = {} /\ ~new.wrong
  BY DEF Begun, ObjRecords
<1> HIDE DEF new
<1>5. RefOk(new)
  BY <1>4 DEF RefOk
<1>6. ListOk(new)
  BY <1>4 DEF ListOk, Entries, Ahead
<1>7. QED
  BY <1>3, <1>5, <1>6 DEF Objects, new

\* One entry more of a listing
Passed(o, e) ==
  [o EXCEPT !.phase = e.phase, !.cursor = e.cursor, !.owed = @ \ {e.node},
            !.given = @ \cup ({e.node} \cap o.owed), !.wrong = @ \/ e.node \in o.given]
LEMMA PassedIs ==
  ASSUME NEW o \in ObjRecords, NEW e, e.phase \in {0, 1}, e.cursor \in Nat
  PROVE  LET x == Passed(o, e)
         IN  /\ x \in ObjRecords
             /\ x.kind = o.kind /\ x.badge = o.badge /\ x.node = o.node /\ x.path = o.path /\ x.flags = o.flags
             /\ x.phase = e.phase /\ x.cursor = e.cursor /\ x.owed = o.owed \ {e.node}
             /\ x.given = o.given \cup ({e.node} \cap o.owed) /\ x.wrong = (o.wrong \/ e.node \in o.given)
<1>1. (o.wrong \/ e.node \in o.given) \in BOOLEAN
  BY DEF ObjRecords
<1>2. o.owed \ {e.node} \in SUBSET Nodes /\ o.given \cup ({e.node} \cap o.owed) \in SUBSET Nodes
  BY DEF ObjRecords
<1>3. QED
  BY <1>1, <1>2 DEF Passed, ObjRecords

LEMMA DirNextKeeps ==
  ASSUME MountsInv, TreesInv, NEW o \in Objects, o.kind = "dir", NEW e \in DirPeek(o)
  PROVE  Passed(o, e) \in Objects
<1> DEFINE dir == o.node
           x == Passed(o, e)
           L == Listed(dir, 0)
           M == MountsListed(dir, 0)
           R(k) == <<Reserved[k], DirIno>>
           more == MountsListed(dir, IF o.phase = 0 THEN 0 ELSE o.cursor)
<1>1. /\ o \in ObjRecords /\ RefOk(o) /\ dir \in Nodes /\ IsDir(dir) /\ o.phase \in {0, 1} /\ o.cursor \in Nat /\ ~o.wrong
      /\ (\A n \in o.owed : Ahead(o, n)) /\ (\A n \in o.given : Behind(o, n))
  BY DEF Objects, ObjRecords, RefOk, ListOk
<1>2. /\ L \subseteq Nat \ {0} /\ Listed(dir, o.cursor) = {s \in L : s > o.cursor}
      /\ \A c \in Nat : Listed(dir, c) = {s \in L : s > c}
      /\ \A r, s \in L : ListedNode(dir, r) = ListedNode(dir, s) => r = s
  BY <1>1, ListedFacts
<1>3. /\ M \subseteq Nat \ {0} /\ \A c \in Nat : MountsListed(dir, c) = {k \in M : k > c}
      /\ \A j, k \in M : R(j) = R(k) => j = k
  BY <1>1, ReservedFacts
<1>4. \A s \in L, k \in M : ListedNode(dir, s) # R(k)
  BY <1>1, ListedFacts, ReservedFacts
<1> HIDE DEF L, M, R
<1>5. CASE o.phase = 0 /\ Listed(dir, o.cursor) # {}
  <2> DEFINE s == Min(Listed(dir, o.cursor))
  <2>1. e = [node |-> ListedNode(dir, s), phase |-> 0, cursor |-> s]
    BY <1>5 DEF DirPeek
  <2>2. s \in Listed(dir, o.cursor) /\ \A r \in Listed(dir, o.cursor) : s <= r
    <3> DEFINE S == Listed(dir, o.cursor)
    <3>1. S \in SUBSET Nat /\ S # {}
      BY <1>2, <1>5
    <3> HIDE DEF S
    <3>2. Min(S) \in S /\ \A r \in S : Min(S) <= r
      BY <3>1, MinIsLeast
    <3>3. QED
      BY <3>2 DEF S
  <2> HIDE DEF s
  <2>3. s \in L /\ s > o.cursor /\ s \in Nat /\ e.node = ListedNode(dir, s) /\ e.phase = 0 /\ e.cursor = s
    BY <1>2, <2>1, <2>2
  <2>4. /\ x \in ObjRecords /\ x.kind = "dir" /\ x.node = dir /\ x.path = o.path /\ x.flags = o.flags
        /\ x.phase = 0 /\ x.cursor = s /\ x.owed = o.owed \ {e.node}
        /\ x.given = o.given \cup ({e.node} \cap o.owed) /\ x.wrong = (o.wrong \/ e.node \in o.given)
    BY <1>1, <2>3, PassedIs
  <2> HIDE DEF x
  <2>5. e.node \notin o.given
    <3>1. ASSUME Behind(o, e.node) PROVE FALSE
      <4>1. PICK r \in L : e.node = ListedNode(dir, r) /\ r <= o.cursor
        BY <1>5, <3>1 DEF Behind, L
      <4>2. r = s
        BY <1>2, <2>3, <4>1
      <4>3. QED
        BY <1>1, <2>3, <4>1, <4>2
    <3>2. QED
      BY <1>1, <3>1
  <2>6. ASSUME NEW n \in x.owed PROVE Ahead(x, n)
    <3>1. n # e.node /\ Ahead(o, n)
      BY <1>1, <2>4, <2>6
    <3>2. CASE \E r \in Listed(dir, o.cursor) : n = ListedNode(dir, r)
      <4>1. PICK r \in Listed(dir, o.cursor) : n = ListedNode(dir, r)
        BY <3>2
      <4>2. r # s /\ r \in L /\ s <= r /\ r \in Nat
        BY <1>2, <2>2, <2>3, <3>1, <4>1
      <4>3. r \in Listed(dir, s)
        BY <1>2, <2>3, <4>2
      <4>4. QED
        BY <2>4, <4>1, <4>3 DEF Ahead
    <3>3. CASE \E k \in MountsListed(dir, 0) : n = <<Reserved[k], DirIno>>
      BY <2>4, <3>3 DEF Ahead
    <3>4. QED
      BY <1>5, <3>1, <3>2, <3>3 DEF Ahead
  <2>7. ASSUME NEW n \in x.given PROVE Behind(x, n)
    <3>1. CASE n = e.node
      <4>1. s <= s /\ s \in Listed(dir, 0)
        BY <2>3 DEF L
      <4>2. QED
        BY <2>3, <2>4, <3>1, <4>1 DEF Behind
    <3>2. CASE n \in o.given
      <4>1. PICK r \in Listed(dir, 0) : n = ListedNode(dir, r) /\ r <= o.cursor
        BY <1>1, <1>5, <3>2 DEF Behind
      <4>2. r <= s
        BY <1>1, <1>2, <2>3, <4>1 DEF L
      <4>3. QED
        BY <2>4, <4>1, <4>2 DEF Behind
    <3>3. QED
      BY <2>4, <2>7, <3>1, <3>2
  <2>8. ListOk(x)
    BY <1>1, <2>4, <2>5, <2>6, <2>7 DEF ListOk
  <2>9. RefOk(x)
    BY <1>1, <2>4 DEF RefOk
  <2>10. QED
    BY <2>4, <2>8, <2>9 DEF Objects, x
<1>6. CASE ~(o.phase = 0 /\ Listed(dir, o.cursor) # {})
  <2> DEFINE k == Min(more)
             from == IF o.phase = 0 THEN 0 ELSE o.cursor
  <2>1. e \in {[node |-> <<Reserved[j], DirIno>>, phase |-> 1, cursor |-> j] : j \in IF more = {} THEN {} ELSE {Min(more)}}
    <3>1. DirPeek(o) = {[node |-> <<Reserved[j], DirIno>>, phase |-> 1, cursor |-> j] : j \in IF more = {} THEN {} ELSE {Min(more)}}
      BY <1>6 DEF DirPeek
    <3>2. QED
      BY <3>1
  <2>2. more = {j \in M : j > from} /\ from \in Nat
    BY <1>1, <1>3
  <2> HIDE DEF more
  <2>3. more # {} /\ e = [node |-> R(k), phase |-> 1, cursor |-> k]
    BY <2>1 DEF R
  <2>4. k \in more /\ \A j \in more : k <= j
    <3>1. more \in SUBSET Nat
      BY <1>3, <2>2
    <3>2. QED
      BY <2>3, <3>1, MinIsLeast
  <2> HIDE DEF k, from
  <2>5. k \in M /\ k > from /\ k \in Nat /\ e.node = R(k) /\ e.phase = 1 /\ e.cursor = k
    BY <1>3, <2>2, <2>3, <2>4
  <2>6. /\ x \in ObjRecords /\ x.kind = "dir" /\ x.node = dir /\ x.path = o.path /\ x.flags = o.flags
        /\ x.phase = 1 /\ x.cursor = k /\ x.owed = o.owed \ {e.node}
        /\ x.given = o.given \cup ({e.node} \cap o.owed) /\ x.wrong = (o.wrong \/ e.node \in o.given)
    <3>1. e.phase \in {0, 1} /\ e.cursor \in Nat
      BY <2>5
    <3>2. /\ x \in ObjRecords /\ x.kind = o.kind /\ x.node = o.node /\ x.path = o.path /\ x.flags = o.flags
          /\ x.phase = e.phase /\ x.cursor = e.cursor /\ x.owed = o.owed \ {e.node}
          /\ x.given = o.given \cup ({e.node} \cap o.owed) /\ x.wrong = (o.wrong \/ e.node \in o.given)
      BY <1>1, <3>1, PassedIs
    <3> HIDE DEF x
    <3>3. QED
      BY <2>5, <3>2
  <2> HIDE DEF x
  <2>7. e.node \notin o.given
    <3>1. ASSUME Behind(o, e.node) PROVE FALSE
      <4>1. ~\E r \in L : e.node = ListedNode(dir, r)
        BY <1>4, <2>5
      <4>2. o.phase = 1 /\ \E j \in M : j <= o.cursor /\ e.node = R(j)
        BY <3>1, <4>1 DEF Behind, L, M, R
      <4>3. k <= o.cursor
        BY <1>3, <2>5, <4>2
      <4>4. QED
        BY <1>1, <2>5, <4>2, <4>3 DEF from
    <3>2. QED
      BY <1>1, <3>1
  <2>8. ASSUME NEW n \in x.owed PROVE Ahead(x, n)
    <3>1. n # e.node /\ Ahead(o, n)
      BY <1>1, <2>6, <2>8
    <3>2. PICK j \in more : n = R(j)
      BY <1>6, <3>1 DEF Ahead, more, R
    <3>3. j # k /\ k <= j /\ j \in Nat /\ j \in M
      BY <1>3, <2>2, <2>4, <2>5, <3>1, <3>2
    <3>4. j \in MountsListed(dir, k)
      BY <1>3, <2>5, <3>3
    <3>5. QED
      BY <2>6, <3>2, <3>4 DEF Ahead, R
  <2>9. ASSUME NEW n \in x.given PROVE Behind(x, n)
    <3>1. CASE n = e.node
      <4>1. k <= k
        BY <2>5
      <4>2. QED
        BY <2>5, <2>6, <3>1, <4>1 DEF Behind, M, R
    <3>2. CASE n \in o.given
      <4>1. Behind(o, n)
        BY <1>1, <3>2
      <4>2. CASE \E r \in L : n = ListedNode(dir, r)
        BY <2>6, <4>2 DEF Behind, L
      <4>3. CASE o.phase = 1 /\ \E j \in M : j <= o.cursor /\ n = R(j)
        <5>1. PICK j \in M : j <= o.cursor /\ n = R(j)
          BY <4>3
        <5>2. j <= k
          BY <1>1, <1>3, <2>5, <4>3, <5>1 DEF from
        <5>3. QED
          BY <2>6, <5>1, <5>2 DEF Behind, M, R
      <4>4. QED
        BY <4>1, <4>2, <4>3 DEF Behind, L, M, R
    <3>3. QED
      BY <2>6, <2>9, <3>1, <3>2
  <2>10. ListOk(x)
    BY <1>1, <2>6, <2>7, <2>8, <2>9 DEF ListOk
  <2>11. RefOk(x)
    BY <1>1, <2>6 DEF RefOk
  <2>12. QED
    BY <2>6, <2>10, <2>11 DEF Objects, x
<1>7. QED
  BY <1>5, <1>6

\* At the end of a listing nothing is owed.
LEMMA DirEndKeeps ==
  ASSUME NEW o \in Objects, o.kind = "dir", DirPeek(o) = {}
  PROVE  o.owed = {}
<1> DEFINE more == MountsListed(o.node, IF o.phase = 0 THEN 0 ELSE o.cursor)
           F(s) == [node |-> ListedNode(o.node, s), phase |-> 0, cursor |-> s]
           G(k) == [node |-> <<Reserved[k], DirIno>>, phase |-> 1, cursor |-> k]
<1>1. ~(o.phase = 0 /\ Listed(o.node, o.cursor) # {})
  <2>1. ASSUME o.phase = 0 /\ Listed(o.node, o.cursor) # {} PROVE FALSE
    <3>1. DirPeek(o) = {F(s) : s \in {Min(Listed(o.node, o.cursor))}}
      BY <2>1 DEF DirPeek
    <3> HIDE DEF F
    <3>2. QED
      BY <3>1
  <2>2. QED
    BY <2>1
<1>2. DirPeek(o) = {G(k) : k \in IF more = {} THEN {} ELSE {Min(more)}}
  BY <1>1 DEF DirPeek
<1>3. more = {}
  <2> HIDE DEF G, more
  <2>1. QED
    BY <1>2
<1>4. \A n \in o.owed : Ahead(o, n)
  BY DEF Objects, ListOk
<1>5. QED
  BY <1>1, <1>3, <1>4 DEF Ahead

\* An entry of directory dir that tree t still has
StillThere(dir, n, t) ==
  n[1] # dir[1] \/ \E s \in T!Used(t, dir[2]) : t[dir[2]].slots[s][1] = n[2] /\ ~ReservedIn(dir, t[dir[2]].slots[s][2])

\* An entry keeps its place while it is there.
LEMMA EntryStays ==
  ASSUME NEW v, NEW i, Updates(v, i), NEW dir \in Nodes, IsDir(dir), NEW c, NEW s \in Listed(dir, c),
         At(dir, v) => i = 0 \/ StillThere(dir, ListedNode(dir, s), trees'[v])
  PROVE  s \in Listed(dir, c)' /\ ListedNode(dir, s)' = ListedNode(dir, s)
<1>1. mounts' = mounts /\ MountsInv /\ TreesInv
  BY DEF Updates
<1>2. CASE ~OnFs2(dir)
  BY <1>1, <1>2 DEF Listed, ListedNode, OnFs2, Kind, FixedNames, FixedNode, Present
<1>3. CASE OnFs2(dir)
  <2> DEFINE x == mounts[dir[1]].vol
             t == trees[x]
             u == trees'[x]
             d == dir[2]
  <2>1. TreeOf(dir) = t /\ TreeOf(dir)' = u /\ x \in DOMAIN Disks /\ d \in T!Inodes /\ T!IsTree(t) /\ t \in Tree
    BY <1>1, <1>3, NodeFacts DEF TreeOf, T!IsTree, Tree
  <2>2. u = t \/ (x = v /\ Stays(t, u, i))
    BY <2>1 DEF Updates
  <2>3. s \in T!Used(t, d) /\ s > c /\ ~ReservedIn(dir, t[d].slots[s][2]) /\ ListedNode(dir, s) = <<dir[1], t[d].slots[s][1]>>
    BY <1>3, <2>1 DEF Listed, ListedNode
  <2>4. t[d].slots[s][1] \in 1 .. NInodes
    BY <2>1, <2>3, UsedAreSlots DEF T!Inodes
  <2>5. s \in T!Used(u, d) /\ u[d].slots[s][1] = t[d].slots[s][1] /\ ~ReservedIn(dir, u[d].slots[s][2])
    <3>1. CASE u = t
      BY <2>3, <3>1
    <3>2. CASE x = v /\ Stays(t, u, i) /\ i = 0
      <4>1. t[d].slots[s][1] # i
        BY <2>4, <3>2
      <4>2. QED
        BY <2>1, <2>3, <3>2, <4>1 DEF Stays
    <3>3. CASE x = v /\ Stays(t, u, i) /\ i # 0
      <4> DEFINE n == <<dir[1], t[d].slots[s][1]>>
      <4>1. StillThere(dir, n, u) /\ n[1] = dir[1] /\ n[2] = t[d].slots[s][1]
        BY <1>3, <2>3, <3>3 DEF At
      <4> HIDE DEF n
      <4>2. PICK r \in T!Used(u, d) : u[d].slots[r][1] = t[d].slots[s][1] /\ ~ReservedIn(dir, u[d].slots[r][2])
        BY <4>1 DEF StillThere
      <4>3. s = r
        BY <2>1, <2>3, <3>3, <4>2 DEF Stays
      <4>4. QED
        BY <4>2, <4>3
    <3>4. QED
      BY <2>2, <3>1, <3>2, <3>3
  <2>6. OnFs2(dir)' /\ \A k : ReservedIn(dir, k)' <=> ReservedIn(dir, k)
    BY <1>1, <1>3 DEF OnFs2, Kind, ReservedIn
  <2>7. s \in Listed(dir, c)'
    BY <2>1, <2>3, <2>5, <2>6 DEF Listed
  <2>8. ListedNode(dir, s)' = <<dir[1], u[d].slots[s][1]>>
    BY <2>1, <2>6 DEF ListedNode
  <2>9. QED
    BY <2>3, <2>5, <2>7, <2>8
<1>4. QED
  BY <1>2, <1>3

\* A listing goes on with the entries that are still there.
LEMMA ListStays ==
  ASSUME NEW v, NEW i, Updates(v, i), NEW o \in Objects, NEW x \in ObjRecords,
         x.kind = o.kind, x.node = o.node, x.phase = o.phase, x.cursor = o.cursor, x.wrong = o.wrong,
         x.owed \subseteq o.owed, x.given \subseteq o.given,
         o.kind = "dir" /\ At(o.node, v) => i = 0 \/ \A n \in x.owed \cup x.given : StillThere(o.node, n, trees'[v])
  PROVE  ListOk(x)'
<1> DEFINE dir == o.node
<1>1. mounts' = mounts
  BY DEF Updates
<1>2. \A c : MountsListed(dir, c)' = MountsListed(dir, c)
  BY <1>1 DEF MountsListed, Present
<1>3. ~o.wrong /\ (o.kind = "dir" => (\A n \in o.owed : Ahead(o, n)) /\ (\A n \in o.given : Behind(o, n)))
  BY DEF Objects, ListOk
<1>4. ASSUME o.kind = "dir" PROVE (\A n \in x.owed : Ahead(x, n)') /\ (\A n \in x.given : Behind(x, n)')
  <2>1. dir \in Nodes /\ IsDir(dir)
    BY <1>4 DEF Objects, ObjRecords, RefOk
  <2>2. ASSUME NEW n \in x.owed \cup x.given, NEW c, NEW s \in Listed(dir, c), n = ListedNode(dir, s)
        PROVE  s \in Listed(dir, c)' /\ n = ListedNode(dir, s)'
    <3>1. At(dir, v) => i = 0 \/ StillThere(dir, ListedNode(dir, s), trees'[v])
      BY <1>4, <2>2
    <3> HIDE DEF dir
    <3>2. QED
      BY <2>1, <2>2, <3>1, EntryStays
  <2>3. ASSUME NEW n \in x.owed PROVE Ahead(x, n)'
    <3>1. Ahead(o, n)
      BY <1>3, <1>4, <2>3
    <3>2. CASE o.phase = 0 /\ \E s \in Listed(dir, o.cursor) : n = ListedNode(dir, s)
      <4>1. PICK s \in Listed(dir, o.cursor) : n = ListedNode(dir, s)
        BY <3>2
      <4>2. s \in Listed(dir, o.cursor)' /\ n = ListedNode(dir, s)'
        BY <2>2, <4>1
      <4>3. QED
        BY <3>2, <4>2 DEF Ahead
    <3>3. CASE \E k \in MountsListed(dir, IF o.phase = 0 THEN 0 ELSE o.cursor) : n = <<Reserved[k], DirIno>>
      BY <1>2, <3>3 DEF Ahead
    <3>4. QED
      BY <3>1, <3>2, <3>3 DEF Ahead
  <2>4. ASSUME NEW n \in x.given PROVE Behind(x, n)'
    <3>1. Behind(o, n)
      BY <1>3, <1>4, <2>4
    <3>2. CASE \E s \in Listed(dir, 0) : n = ListedNode(dir, s) /\ (o.phase = 0 => s <= o.cursor)
      <4>1. PICK s \in Listed(dir, 0) : n = ListedNode(dir, s) /\ (o.phase = 0 => s <= o.cursor)
        BY <3>2
      <4>2. s \in Listed(dir, 0)' /\ n = ListedNode(dir, s)'
        BY <2>2, <4>1
      <4>3. QED
        BY <4>1, <4>2 DEF Behind
    <3>3. CASE o.phase = 1 /\ \E k \in MountsListed(dir, 0) : k <= o.cursor /\ n = <<Reserved[k], DirIno>>
      BY <1>2, <3>3 DEF Behind
    <3>4. QED
      BY <3>1, <3>2, <3>3 DEF Behind
  <2>5. QED
    BY <2>3, <2>4
<1>5. QED
  BY <1>3, <1>4 DEF ListOk

\* An object stays as it is when a file is written, or nothing changes at all.
LEMMA ObjectStays ==
  ASSUME NEW v, Updates(v, 0), NEW o \in Objects
  PROVE  o \in Objects'
<1>1. o \in ObjRecords /\ RefOk(o) /\ MountsInv /\ TreesInv
  BY DEF Objects, Updates
<1>2. RefOk(o)'
  BY <1>1, AvoidsNone, RefStays
<1>3. ListOk(o)'
  BY <1>1, ListStays
<1>4. o \in ObjRecords'
  <2>1. Nodes' = Nodes
    BY NodesStay DEF Updates
  <2>2. QED
    BY <1>1, <2>1 DEF ObjRecords
<1>5. QED
  BY <1>2, <1>3, <1>4 DEF Objects

\* Follow takes a table through an update.
LEMMA FollowKeeps ==
  ASSUME NEW v, NEW i, Updates(v, i), NEW t, t = trees'[v], NEW os \in [Slots -> Objects],
         \A j \in LiveObjs(os) : Avoids(os[j], v, i)
  PROVE  Follow(os, v, t) \in [Slots -> Objects']
<1> DEFINE still(o) == {n \in o.owed \cup o.given :
                     n[1] # o.node[1] \/ \E s \in T!Used(t, o.node[2]) :
                       t[o.node[2]].slots[s][1] = n[2] /\ ~ReservedIn(o.node, t[o.node[2]].slots[s][2])}
           new(o) == IF o.kind = "dir" /\ OnFs2(o.node) /\ mounts[o.node[1]].vol = v
                     THEN [o EXCEPT !.owed = o.owed \cap still(o), !.given = o.given \cap still(o)] ELSE o
<1>1. Follow(os, v, t) = [j \in Slots |-> new(os[j])]
  BY DEF Follow
<1>2. mounts' = mounts /\ Nodes' = Nodes /\ MountsInv /\ TreesInv
  BY NodesStay DEF Updates
<1>3. ASSUME NEW j \in Slots PROVE new(os[j]) \in Objects'
  <2> DEFINE o == os[j]
  <2>x. PICK x : x = new(o)
    OBVIOUS
  <2>1. o \in Objects /\ o \in ObjRecords /\ RefOk(o)
    BY DEF Objects
  <2>2. /\ x \in ObjRecords /\ x.kind = o.kind /\ x.node = o.node /\ x.phase = o.phase /\ x.cursor = o.cursor
        /\ x.wrong = o.wrong /\ x.path = o.path /\ x.flags = o.flags
        /\ x.owed \subseteq o.owed /\ x.given \subseteq o.given
        /\ x.badge = o.badge
    <3> HIDE DEF still, o
    <3>1. o.owed \cap still(o) \in SUBSET Nodes /\ o.given \cap still(o) \in SUBSET Nodes
      BY <2>1 DEF ObjRecords
    <3>2. QED
      BY <2>x, <2>1, <3>1 DEF ObjRecords
  <2>3. o.kind = "dir" /\ At(o.node, v) => \A n \in x.owed \cup x.given : StillThere(o.node, n, trees'[v])
    <3>1. ASSUME o.kind = "dir", At(o.node, v) PROVE x.owed \cup x.given \subseteq still(o)
      <4>1. x = [o EXCEPT !.owed = o.owed \cap still(o), !.given = o.given \cap still(o)]
        BY <2>x, <3>1 DEF At
      <4> HIDE DEF still, o
      <4>2. x.owed = o.owed \cap still(o) /\ x.given = o.given \cap still(o)
        BY <2>1, <4>1 DEF ObjRecords
      <4>3. QED
        BY <4>2
    <3>2. \A n \in still(o) : StillThere(o.node, n, trees'[v])
      BY DEF StillThere
    <3> HIDE DEF still, o
    <3>3. QED
      BY <3>1, <3>2
  <2> HIDE DEF new
  <2>4. ListOk(x)'
    <3> HIDE DEF o
    <3>1. QED
      BY <2>1, <2>2, <2>3, ListStays
  <2>5. RefOk(x)'
    <3>1. CASE o.kind = "free"
      <4> HIDE DEF o
      <4>1. QED
        BY <2>2, <3>1 DEF RefOk
    <3>2. CASE o.kind # "free"
      <4>1. Avoids(o, v, i)
        BY <3>2 DEF LiveObjs
      <4> HIDE DEF o
      <4>2. RefOk(o)'
        BY <2>1, <4>1, RefStays
      <4>3. QED
        BY <2>2, <4>2 DEF RefOk
    <3>3. QED
      BY <3>1, <3>2
  <2>6. x \in ObjRecords'
    BY <1>2, <2>2 DEF ObjRecords
  <2>7. x \in Objects'
    BY <2>4, <2>5, <2>6 DEF Objects
  <2>8. QED
    BY <2>x, <2>7
<1>4. QED
  BY <1>1, <1>3

----------------------------------------------------------------------------
(* Tables *)

LEMMA ModIs ==
  ASSUME NEW m \in Nat \ {0}, NEW q \in Nat, NEW r \in 0 .. m - 1
  PROVE  (q * m + r) % m = r
<1> DEFINE x == q * m + r
           d == x \div m
           e == x % m
<1>1. x \in Nat
  OBVIOUS
<1>2. d \in Int /\ e \in 0 .. m - 1 /\ x = d * m + e
  BY <1>1
<1>3. (q - d) * m = e - r
  BY <1>2
<1> HIDE DEF x, d, e
<1>4. q - d = 0
  <2>1. CASE q - d >= 1
    <3>1. (q - d) * m >= m
      BY <1>2, <2>1
    <3>2. QED
      BY <1>2, <1>3, <3>1
  <2>2. CASE q - d <= -1
    <3>1. (q - d) * m <= -m
      BY <1>2, <2>2
    <3>2. QED
      BY <1>2, <1>3, <3>1
  <2>3. QED
    BY <1>2, <2>1, <2>2
<1>5. e = r
  BY <1>2, <1>3, <1>4
<1>6. QED
  BY <1>5 DEF e, x

\* There are more badges than objects, so that there is one to give.
LEMMA NextBadgeIs ==
  ASSUME next_badge \in Nat, NEW os
  PROVE  NextBadge(os) \in 1 .. MaxBadge /\ NextBadge(os) \notin Badges(os)
<1> DEFINE B == 1 .. MaxBadge
           f == [b \in B |-> CHOOSE i \in LiveObjs(os) : os[i].badge = b]
           After(k) == ((next_badge + k - 1) % MaxBadge) + 1
           Some == {k \in B : After(k) \notin Badges(os)}
<1>1. MaxBadge \in Nat \ {0} /\ FS_OBJECTS \in Nat /\ MaxBadge > FS_OBJECTS
  BY ServerAssumption
<1>2. \E b \in B : b \notin Badges(os)
  <2>1. SUFFICES ASSUME \A b \in B : b \in Badges(os) PROVE FALSE
    OBVIOUS
  <2>2. \A b \in B : f[b] \in Slots /\ os[f[b]].badge = b
    BY <2>1 DEF Badges, LiveObjs
  <2>3. f \in [B -> Slots]
    BY <2>2
  <2>4. IsFiniteSet(B) /\ Cardinality(B) = MaxBadge /\ IsFiniteSet(Slots) /\ Cardinality(Slots) = FS_OBJECTS
    <3>1. 1 \in Int /\ MaxBadge \in Int /\ FS_OBJECTS \in Int
      BY <1>1
    <3>2. Cardinality(B) = IF 1 > MaxBadge THEN 0 ELSE MaxBadge - 1 + 1
      BY <3>1, FS_Interval
    <3>3. Cardinality(Slots) = IF 1 > FS_OBJECTS THEN 0 ELSE FS_OBJECTS - 1 + 1
      BY <3>1, FS_Interval DEF Slots
    <3>4. IsFiniteSet(B) /\ IsFiniteSet(Slots)
      BY <3>1, FS_Interval DEF Slots
    <3> HIDE DEF B
    <3>5. QED
      BY <1>1, <3>2, <3>3, <3>4
  <2> HIDE DEF B, f
  <2>5. Cardinality(Slots) < Cardinality(B)
    BY <1>1, <2>4
  <2>6. \E x, y \in B : x # y /\ f[x] = f[y]
    BY <2>3, <2>4, <2>5, FS_PigeonHole
  <2>7. QED
    BY <2>2, <2>6
<1>3. Some # {}
  <2>1. PICK b \in B : b \notin Badges(os)
    BY <1>2
  <2> DEFINE a == next_badge % MaxBadge
             k == IF b > a THEN b - a ELSE b - a + MaxBadge
  <2>2. a \in 0 .. MaxBadge - 1 /\ a \in Nat
    BY <1>1
  <2>3. PICK q \in Nat : next_badge = q * MaxBadge + a
    <3>1. next_badge = (next_badge \div MaxBadge) * MaxBadge + a /\ next_badge \div MaxBadge \in Nat
      BY <1>1
    <3>2. QED
      BY <3>1
  <2> HIDE DEF a
  <2>4. k \in B
    BY <1>1, <2>1, <2>2
  <2>5. After(k) = b
    <3>1. CASE b > a
      <4>1. next_badge + k - 1 = q * MaxBadge + (b - 1) /\ b - 1 \in 0 .. MaxBadge - 1
        BY <1>1, <2>1, <2>2, <2>3, <3>1
      <4>2. (q * MaxBadge + (b - 1)) % MaxBadge = b - 1
        BY <1>1, <4>1, ModIs
      <4>3. QED
        BY <2>1, <4>1, <4>2
    <3>2. CASE ~(b > a)
      <4>1. next_badge + k - 1 = (q + 1) * MaxBadge + (b - 1) /\ b - 1 \in 0 .. MaxBadge - 1
        BY <1>1, <2>1, <2>2, <2>3, <3>2
      <4>2. ((q + 1) * MaxBadge + (b - 1)) % MaxBadge = b - 1
        <5>1. q + 1 \in Nat
          OBVIOUS
        <5>2. QED
          BY <1>1, <4>1, <5>1, ModIs
      <4>3. QED
        BY <2>1, <4>1, <4>2
    <3>3. QED
      BY <3>1, <3>2
  <2>6. QED
    BY <2>1, <2>4, <2>5
<1>4. NextBadge(os) = After(Min(Some))
  BY DEF NextBadge
<1>5. Min(Some) \in Some
  <2>1. Some \in SUBSET Nat
    OBVIOUS
  <2> HIDE DEF Some
  <2>2. QED
    BY <1>3, <2>1, MinIsLeast
<1>6. Min(Some) \in B /\ After(Min(Some)) \notin Badges(os)
  <2> DEFINE m == Min(Some)
  <2>1. m \in Some
    BY <1>5
  <2> HIDE DEF m
  <2>2. m \in B /\ After(m) \notin Badges(os)
    BY <2>1
  <2>3. QED
    BY <2>2 DEF m
<1>7. \A k \in B : After(k) \in B
  <2>1. ASSUME NEW k \in B PROVE After(k) \in B
    <3>1. next_badge + k - 1 \in Nat
      BY <1>1
    <3>2. (next_badge + k - 1) % MaxBadge \in 0 .. MaxBadge - 1
      BY <1>1, <3>1
    <3>3. QED
      BY <1>1, <3>2
  <2>2. QED
    BY <2>1
<1> HIDE DEF Some, After
<1>8. QED
  BY <1>4, <1>6, <1>7

\* Mounts and volumes are well formed, and every object's node and listing are as the client may expect.
ServiceInv == MountsInv /\ TreesInv /\ objs \in [Slots -> Objects] /\ next_badge \in Nat

\* What a new object starts with
Blank(o) == ~o.wrong /\ o.owed = {} /\ o.given = {}
LEMMA BlankIs ==
  ASSUME NEW o \in ObjRecords, Blank(o), RefOk(o)
  PROVE  o \in Objects
BY DEF Objects, ListOk, Blank

LEMMA FreeIs ==
  ASSUME MountsInv, TreesInv
  PROVE  /\ FreeObj \in Objects /\ FreeObj \in ObjRecords /\ Blank(FreeObj) /\ FreeObj.kind = "free"
         /\ FreeObj.node = RootNode /\ FreeObj.path = <<>> /\ FreeObj.flags = {}
<1>1. FreeObj \in ObjRecords /\ Blank(FreeObj)
  <2>1. RootNode \in Nodes /\ <<>> \in Seq(Names)
    BY RootIs
  <2>2. QED
    BY <2>1 DEF FreeObj, ObjRecords, Blank
<1>2. FreeObj.kind = "free" /\ FreeObj.node = RootNode /\ FreeObj.path = <<>> /\ FreeObj.flags = {}
  BY DEF FreeObj
<1>3. RefOk(FreeObj)
  BY <1>2 DEF RefOk
<1>4. QED
  BY <1>1, <1>2, <1>3, BlankIs

LEMMA FreshIs ==
  ASSUME MountsInv, TreesInv, next_badge \in Nat, NEW os, NEW kind \in {"session", "file", "null", "dir"}
  PROVE  LET o == Fresh(os, kind)
         IN  /\ o \in ObjRecords /\ Blank(o) /\ o.kind = kind /\ o.badge = NextBadge(os)
             /\ o.node = RootNode /\ o.path = <<>> /\ o.flags = {}
<1>1. NextBadge(os) \in Nat
  BY NextBadgeIs
<1>2. Fresh(os, kind) = [FreeObj EXCEPT !.kind = kind, !.badge = NextBadge(os)]
  BY DEF Fresh
<1>3. QED
  BY <1>1, <1>2, FreeIs DEF ObjRecords, Blank

\* The session of a new kernel badge starts in "/".
LEMMA OpenedKeeps ==
  ASSUME ServiceInv, NEW b \in Nat
  PROVE  Opened(b) \in [Slots -> Objects] /\ \A i \in Slots : Opened(b)[i] \in ObjRecords /\ RefOk(Opened(b)[i])
<1> DEFINE o == [FreeObj EXCEPT !.kind = "session", !.badge = b]
<1>1. MountsInv /\ TreesInv /\ objs \in [Slots -> Objects]
  BY DEF ServiceInv
<1>2. o \in ObjRecords /\ Blank(o) /\ o.kind = "session" /\ o.node = RootNode /\ o.path = <<>>
  BY <1>1, FreeIs DEF ObjRecords, Blank
<1> HIDE DEF o
<1>3. RefOk(o)
  <2>1. Along([k \in 0 .. 0 |-> RootNode], <<>>, RootNode)
    BY <1>1, RootIs DEF Along
  <2>2. Leads(<<>>, RootNode)
    BY <2>1 DEF Leads
  <2>3. QED
    BY <1>1, <1>2, <2>2, RootIs DEF RefOk
<1>4. o \in Objects
  BY <1>2, <1>3, BlankIs
<1>5. Opened(b) \in {objs, ObjNew(objs, o)}
  BY DEF Opened, o
<1>6. ObjNew(objs, o) \in [Slots -> Objects]
  BY <1>1, <1>4 DEF ObjNew
<1>7. Opened(b) \in [Slots -> Objects]
  BY <1>1, <1>5, <1>6
<1>8. QED
  BY <1>7 DEF Objects

\* An object that is not a session was there before.
LEMMA OpenedSlot ==
  ASSUME ServiceInv, NEW b \in Nat, NEW i \in Slots, Opened(b)[i].kind # "session"
  PROVE  objs[i] = Opened(b)[i]
<1> DEFINE o == [FreeObj EXCEPT !.kind = "session", !.badge = b]
<1>1. o.kind = "session"
  BY FreeIs DEF ServiceInv, ObjRecords
<1>2. objs \in [Slots -> Objects]
  BY DEF ServiceInv
<1>3. Opened(b) \in {objs, ObjNew(objs, o)}
  BY DEF Opened
<1> HIDE DEF o
<1>4. ObjNew(objs, o)[i] \in {objs[i], o}
  BY <1>2 DEF ObjNew
<1>5. QED
  BY <1>1, <1>3, <1>4

LEMMA SessionIs ==
  ASSUME ServiceInv, NEW b \in Nat, NEW i \in Session(b)
  PROVE  i \in Slots /\ Opened(b)[i] \in ObjRecords /\ Opened(b)[i].kind = "session" /\ RefOk(Opened(b)[i])
BY OpenedKeeps DEF Session, ObjFind, LiveObjs

\* Handing out a channel for o puts o in the table, or not.
LEMMA HandTable ==
  ASSUME NEW X, NEW os \in [Slots -> X], NEW o \in X, Hand(os, o)
  PROVE  objs' \in [Slots -> X] /\ next_badge' = o.badge
BY DEF Hand, ObjNew

\* The ways the trees change
LEMMA NothingUpdates ==
  ASSUME MountsInv, TreesInv, mounts' = mounts, trees' = trees, NEW v
  PROVE  Updates(v, 0)
BY DEF Updates, TreesInv

LEMMA TreeUpdates ==
  ASSUME MountsInv, TreesInv, mounts' = mounts, NEW v \in DOMAIN Disks, NEW t, trees' = [trees EXCEPT ![v] = t],
         T!IsTree(t), NEW i, Stays(trees[v], t, i)
  PROVE  Updates(v, i) /\ trees'[v] = t
<1>1. DOMAIN trees = DOMAIN Disks
  BY DEF TreesInv
<1>2. trees'[v] = t /\ \A x \in DOMAIN Disks \ {v} : trees'[x] = trees[x]
  BY <1>1
<1>3. TreesInv'
  BY <1>1, <1>2 DEF TreesInv
<1>4. QED
  BY <1>2, <1>3 DEF Updates

LEMMA DataUpdates ==
  ASSUME MountsInv, TreesInv, mounts' = mounts, NEW v \in DOMAIN Disks, NEW t, trees' = [trees EXCEPT ![v] = t],
         T!IsTree(t), SameEntries(trees[v], t)
  PROVE  Updates(v, 0)
<1>1. T!IsTree(trees[v]) /\ trees[v] \in Tree
  BY DEF TreesInv, T!IsTree, Tree
<1>2. \A d \in T!Inodes : T!Used(t, d) = T!Used(trees[v], d)
  BY DEF SameEntries, T!Used
<1>3. Stays(trees[v], t, 0)
  <2>1. \A x \in T!Inodes \ {0} : trees[v][x].type # "free" => t[x].type = trees[v][x].type
    BY DEF SameEntries
  <2>2. \A d \in T!Inodes : \A s \in T!Used(trees[v], d) :
          trees[v][d].slots[s][1] # 0 => s \in T!Used(t, d) /\ t[d].slots[s] = trees[v][d].slots[s]
    BY <1>2 DEF SameEntries
  <2>3. \A d \in T!Inodes : \A r \in T!Used(trees[v], d), s \in T!Used(t, d) :
          trees[v][d].slots[r][1] = t[d].slots[s][1] => r = s
    BY <1>1, <1>2 DEF SameEntries, T!IsTree
  <2>4. QED
    BY <2>1, <2>2, <2>3 DEF Stays
<1>4. QED
  BY <1>3, TreeUpdates

\* A table with nothing changed, or only the bytes of a file
LEMMA TableStays ==
  ASSUME NEW v, Updates(v, 0), NEW os \in [Slots -> Objects]
  PROVE  os \in [Slots -> Objects']
BY ObjectStays

----------------------------------------------------------------------------
(* Every step keeps ServiceInv. *)

\* What a step has to show: the trees are updated, and the objects follow.
LEMMA Established ==
  ASSUME NEW v, NEW i, Updates(v, i), objs' \in [Slots -> Objects'], next_badge' \in Nat
  PROVE  ServiceInv'
<1>1. MountsInv' /\ TreesInv'
  BY DEF Updates, MountsInv
<1>2. QED
  BY <1>1 DEF ServiceInv

\* No entry of a directory changes, and the table becomes one of objects that hold now.
LEMMA Rewritten ==
  ASSUME NEW v, Updates(v, 0), NEW os \in [Slots -> Objects], objs' = os, next_badge' \in Nat
  PROVE  ServiceInv'
<1>1. os \in [Slots -> Objects']
  BY TableStays
<1>2. QED
  BY <1>1, Established

LEMMA HandedOut ==
  ASSUME NEW v, Updates(v, 0), NEW os \in [Slots -> Objects], NEW o \in Objects, Hand(os, o)
  PROVE  ServiceInv'
<1> DEFINE X == Objects'
<1>1. os \in [Slots -> X] /\ o \in X
  BY TableStays, ObjectStays
<1>2. o.badge \in Nat
  BY DEF Objects, ObjRecords
<1>3. objs' \in [Slots -> X] /\ next_badge' = o.badge
  <2> HIDE DEF X
  <2>1. QED
    BY <1>1, HandTable
<1>4. QED
  BY <1>2, <1>3, Established

LEMMA RefusedKeeps ==
  ASSUME ServiceInv, NEW b \in Nat, Refused(b)
  PROVE  ServiceInv'
<1>1. MountsInv /\ TreesInv /\ objs \in [Slots -> Objects] /\ next_badge' \in Nat
  BY DEF ServiceInv, Refused
<1>2. Updates("ram", 0)
  BY <1>1, NothingUpdates DEF Refused
<1>3. PICK os \in [Slots -> Objects] : objs' = os
  BY <1>1, OpenedKeeps DEF Refused
<1>4. QED
  BY <1>1, <1>2, <1>3, Rewritten

\* op_open of a name that exists: the file is emptied when the flags ask for it, and they ask for write then.
LEMMA OpenFoundKeeps ==
  ASSUME ServiceInv, NEW b \in Nat, NEW p \in Menu.paths, NEW flags \in Menu.flags, OpenFound(b, p, flags)
  PROVE  ServiceInv'
<1> DEFINE os == Opened(b)
<1>1. MountsInv /\ TreesInv /\ mounts' = mounts /\ next_badge \in Nat
  BY DEF ServiceInv, OpenFound
<1>2. os \in [Slots -> Objects]
  BY OpenedKeeps
<1>3. PICK i \in Session(b) :
        LET w == WalkParent(os[i], p)
        IN  /\ w.ok /\ w.node # {} /\ ~({"create", "excl"} \subseteq flags) /\ FreeSlots(os) # {}
            /\ \E n \in w.node :
                 \/ /\ TypeOf(n) = "file" /\ ~p.slash
                    /\ "write" \in flags => WritableDir(n)
                    /\ LET t == T!AfterTruncate(TreeOf(n), n[2], 0)
                       IN  \/ /\ trees' = IF "trunc" \in flags THEN [trees EXCEPT ![mounts[n[1]].vol] = t] ELSE trees
                              /\ Hand(os, [Fresh(os, "file") EXCEPT !.node = n, !.flags = flags])
                           \/ /\ "trunc" \in flags
                              /\ objs' = os /\ next_badge' = NextBadge(os) /\ UNCHANGED <<trees, port>>
                 \/ /\ TypeOf(n) = "null" /\ ~p.slash /\ "exec" \notin flags /\ UNCHANGED trees
                    /\ Hand(os, [Fresh(os, "null") EXCEPT !.flags = flags \cap {"read", "write"}])
  BY DEF OpenFound
<1> HIDE DEF os
<1> DEFINE w == WalkParent(os[i], p)
<1>4. os[i] \in ObjRecords /\ os[i].kind = "session" /\ RefOk(os[i])
  BY SessionIs DEF os
<1>5. w.ok
  BY <1>3
<1>6. w.dir \in Nodes /\ IsDir(w.dir) /\ w.name \in Names /\ w.node = {l.node : l \in VfsLookup(w.dir, w.name)}
  BY <1>1, <1>4, <1>5, ParentIs
<1>7. \A n \in w.node : n \in Nodes
  <2> HIDE DEF w
  <2>1. QED
    BY <1>1, <1>6, LookupFacts
<1>8. CASE \E n \in w.node :
             /\ TypeOf(n) = "file" /\ ("write" \in flags => WritableDir(n))
             /\ LET t == T!AfterTruncate(TreeOf(n), n[2], 0)
                IN  \/ /\ trees' = IF "trunc" \in flags THEN [trees EXCEPT ![mounts[n[1]].vol] = t] ELSE trees
                       /\ Hand(os, [Fresh(os, "file") EXCEPT !.node = n, !.flags = flags])
                    \/ /\ "trunc" \in flags
                       /\ objs' = os /\ next_badge' = NextBadge(os) /\ UNCHANGED <<trees, port>>
  <2>1. PICK n \in w.node :
             /\ TypeOf(n) = "file" /\ ("write" \in flags => WritableDir(n))
             /\ LET t == T!AfterTruncate(TreeOf(n), n[2], 0)
                IN  \/ /\ trees' = IF "trunc" \in flags THEN [trees EXCEPT ![mounts[n[1]].vol] = t] ELSE trees
                       /\ Hand(os, [Fresh(os, "file") EXCEPT !.node = n, !.flags = flags])
                    \/ /\ "trunc" \in flags
                       /\ objs' = os /\ next_badge' = NextBadge(os) /\ UNCHANGED <<trees, port>>
    BY <1>8
  <2> HIDE DEF w
  <2>2. n \in Nodes
    BY <1>7
  <2>3. "write" \in flags => OnFs2(n)
    BY <2>1 DEF WritableDir
  <2> DEFINE v == mounts[n[1]].vol
             t == T!AfterTruncate(TreeOf(n), n[2], 0)
             f == Fresh(os, "file")
             o == [f EXCEPT !.node = n, !.flags = flags]
  <2>4. o \in Objects
    <3>1. f \in ObjRecords /\ Blank(f) /\ f.kind = "file"
      BY <1>1, FreshIs
    <3> HIDE DEF f
    <3>2. o \in ObjRecords /\ Blank(o) /\ o.kind = "file" /\ o.node = n /\ o.flags = flags
      <4>1. flags \in SUBSET UNION Menu.flags
        OBVIOUS
      <4>2. QED
        BY <2>2, <3>1, <4>1 DEF ObjRecords, Blank
    <3> HIDE DEF o
    <3>3. RefOk(o)
      BY <2>1, <2>3, <3>2 DEF RefOk
    <3>4. QED
      BY <3>2, <3>3, BlankIs
  <2>5. ASSUME trees' = trees PROVE Updates(v, 0)
    BY <1>1, <2>5, NothingUpdates
  <2>6. ASSUME trees' = [trees EXCEPT ![v] = t], "trunc" \in flags PROVE Updates(v, 0)
    <3>1. FlagsOk(flags)
      BY DEF OpenFound
    <3>2. "write" \in flags
      BY <2>6, <3>1 DEF FlagsOk
    <3>3. n[2] \in T!Inodes /\ v \in DOMAIN Disks /\ T!IsTree(TreeOf(n)) /\ TreeOf(n) = trees[v]
      BY <1>1, <2>2, <2>3, <3>2, NodeFacts DEF TreeOf
    <3>4. TreeOf(n)[n[2]].type = "file"
      BY <2>1, <2>3, <3>2 DEF TypeOf
    <3>5. T!IsTree(t) /\ SameEntries(trees[v], t)
      BY <3>3, <3>4, TruncateKeeps
    <3> HIDE DEF t
    <3>6. QED
      BY <1>1, <2>6, <3>3, <3>5, DataUpdates
  <2>7. CASE Hand(os, o) /\ trees' = IF "trunc" \in flags THEN [trees EXCEPT ![v] = t] ELSE trees
    <3> HIDE DEF t, o
    <3>1. Updates(v, 0)
      BY <2>5, <2>6, <2>7
    <3>2. QED
      BY <1>2, <2>4, <2>7, <3>1, HandedOut
  <2>8. CASE objs' = os /\ next_badge' = NextBadge(os) /\ trees' = trees
    <3>1. next_badge' \in Nat
      BY <1>1, <2>8, NextBadgeIs
    <3>2. QED
      BY <1>2, <2>5, <2>8, <3>1, Rewritten
  <2>9. QED
    BY <2>1, <2>7, <2>8
<1>9. CASE \E n \in w.node :
             /\ trees' = trees
             /\ Hand(os, [Fresh(os, "null") EXCEPT !.flags = flags \cap {"read", "write"}])
  <2> HIDE DEF w
  <2> DEFINE f == Fresh(os, "null")
             o == [f EXCEPT !.flags = flags \cap {"read", "write"}]
  <2>1. o \in Objects
    <3>1. f \in ObjRecords /\ Blank(f) /\ f.kind = "null"
      BY <1>1, FreshIs
    <3> HIDE DEF f
    <3>2. o \in ObjRecords /\ Blank(o) /\ o.kind = "null"
      <4>1. flags \cap {"read", "write"} \in SUBSET UNION Menu.flags
        OBVIOUS
      <4>2. QED
        BY <3>1, <4>1 DEF ObjRecords, Blank
    <3> HIDE DEF o
    <3>3. RefOk(o)
      BY <3>2 DEF RefOk
    <3>4. QED
      BY <3>2, <3>3, BlankIs
  <2>2. Updates("ram", 0)
    BY <1>1, <1>9, NothingUpdates
  <2>3. Hand(os, o)
    BY <1>9
  <2> HIDE DEF o
  <2>4. QED
    BY <1>2, <2>1, <2>2, <2>3, HandedOut
<1>10. QED
  BY <1>3, <1>8, <1>9

\* What a new entry leaves: the objects follow, for nothing refers to a free inode, and the new inode is there.
LEMMA Created ==
  ASSUME ServiceInv, NEW b \in Nat, NEW dir \in Nodes, OnFs2(dir), NEW n \in Names, NEW type \in {"file", "dir"},
         T!CanCreate(TreeOf(dir), dir[2], n), mounts' = mounts,
         trees' = [trees EXCEPT ![mounts[dir[1]].vol] = T!AfterCreate(TreeOf(dir), dir[2], n, type, 0)]
  PROVE  LET v == mounts[dir[1]].vol
             i == Min(T!FreeInodes(TreeOf(dir)))
         IN  /\ Updates(v, i)
             /\ Follow(Opened(b), v, T!AfterCreate(TreeOf(dir), dir[2], n, type, 0)) \in [Slots -> Objects']
             /\ \E m \in Nodes : m = <<dir[1], i>> /\ OnFs2(m) /\ TypeOf(m)' = type
<1> DEFINE v == mounts[dir[1]].vol
           t == TreeOf(dir)
           u == T!AfterCreate(t, dir[2], n, type, 0)
           i == Min(T!FreeInodes(t))
           os == Opened(b)
<1>1. MountsInv /\ TreesInv
  BY DEF ServiceInv
<1>2. v \in DOMAIN Disks /\ T!IsTree(t) /\ t = trees[v] /\ dir[2] \in T!Inodes /\ dir[1] \in Present
  BY <1>1, NodeFacts DEF TreeOf
<1>3. i \in T!Inodes /\ t[i].type = "free" /\ u[i].type = type /\ T!IsTree(u) /\ Stays(t, u, i)
  <2>1. T!CanCreate(t, dir[2], n)
    OBVIOUS
  <2> HIDE DEF t
  <2>2. QED
    BY <1>2, <2>1, CreateKeeps
<1>4. os \in [Slots -> Objects] /\ \A j \in Slots : os[j] \in ObjRecords /\ RefOk(os[j])
  BY OpenedKeeps
<1>x. trees' = [trees EXCEPT ![v] = u]
  OBVIOUS
<1> HIDE DEF os, i, u, t, v
<1>5. Updates(v, i) /\ trees'[v] = u
  BY <1>1, <1>2, <1>3, <1>x, TreeUpdates
<1>6. \A j \in LiveObjs(os) : Avoids(os[j], v, i)
  BY <1>1, <1>2, <1>3, <1>4, AvoidsFree DEF LiveObjs
<1>7. Follow(os, v, u) \in [Slots -> Objects']
  BY <1>4, <1>5, <1>6, FollowKeeps
<1>8. PICK m : m = <<dir[1], i>>
  OBVIOUS
<1>9. m[1] = dir[1] /\ m[2] = i /\ OnFs2(m)
  BY <1>8 DEF OnFs2, Kind
<1>10. m \in Nodes
  <2>1. i \in Nat
    BY <1>3 DEF T!Inodes
  <2>2. Kind(m) # "dev"
    BY <1>9 DEF OnFs2
  <2>3. m \in Present \X Nat
    BY <1>2, <1>8, <2>1
  <2>4. QED
    BY <1>3, <1>9, <2>2, <2>3 DEF Nodes
<1>11. TypeOf(m)' = type
  <2>1. OnFs2(m)'
    BY <1>9 DEF OnFs2, Kind
  <2>2. mounts'[m[1]].vol = v
    BY <1>9 DEF v
  <2>3. TreeOf(m)' = u
    BY <1>5, <2>2 DEF TreeOf
  <2>4. TypeOf(m)' = u[i].type
    BY <1>9, <2>1, <2>3 DEF TypeOf
  <2>5. QED
    BY <1>3, <2>4
<1>12. QED
  BY <1>5, <1>7, <1>8, <1>9, <1>10, <1>11 DEF os, i, u, t, v

\* op_mkdir
LEMMA OpMkdirKeeps ==
  ASSUME ServiceInv, NEW b \in Nat, NEW p \in Menu.paths, OpMkdir(b, p)
  PROVE  ServiceInv'
<1>1. MountsInv /\ TreesInv /\ mounts' = mounts /\ next_badge' \in Nat
  BY DEF ServiceInv, OpMkdir
<1>2. PICK i \in Session(b) :
        LET w == WalkParent(Opened(b)[i], p)
        IN  /\ w.ok /\ WritableDir(w.dir) /\ T!CanCreate(TreeOf(w.dir), w.dir[2], w.name)
            /\ Change(Opened(b), mounts[w.dir[1]].vol, T!AfterCreate(TreeOf(w.dir), w.dir[2], w.name, "dir", 0))
  BY DEF OpMkdir
<1> DEFINE w == WalkParent(Opened(b)[i], p)
<1>3. w.dir \in Nodes /\ w.name \in Names
  <2>1. Opened(b)[i] \in ObjRecords /\ Opened(b)[i].kind = "session" /\ RefOk(Opened(b)[i])
    BY SessionIs
  <2>2. w.ok
    BY <1>2
  <2>3. QED
    BY <1>1, <2>1, <2>2, ParentIs
<1> HIDE DEF w
<1>x. /\ WritableDir(w.dir) /\ T!CanCreate(TreeOf(w.dir), w.dir[2], w.name)
      /\ Change(Opened(b), mounts[w.dir[1]].vol, T!AfterCreate(TreeOf(w.dir), w.dir[2], w.name, "dir", 0))
  BY <1>2 DEF w
<1> DEFINE v == mounts[w.dir[1]].vol
           j == Min(T!FreeInodes(TreeOf(w.dir)))
           u == T!AfterCreate(TreeOf(w.dir), w.dir[2], w.name, "dir", 0)
<1>4. trees' = [trees EXCEPT ![v] = u] /\ objs' = Follow(Opened(b), v, u) /\ OnFs2(w.dir)
  BY <1>x DEF Change, WritableDir
<1>5. Updates(v, j) /\ Follow(Opened(b), v, u) \in [Slots -> Objects']
  BY <1>1, <1>x, <1>3, <1>4, Created
<1> HIDE DEF v, j, u
<1>6. QED
  BY <1>1, <1>4, <1>5, Established

\* op_open of a new name
LEMMA OpenNewKeeps ==
  ASSUME ServiceInv, NEW b \in Nat, NEW p \in Menu.paths, NEW flags \in Menu.flags, OpenNew(b, p, flags)
  PROVE  ServiceInv'
<1>1. MountsInv /\ TreesInv /\ mounts' = mounts /\ next_badge \in Nat
  BY DEF ServiceInv, OpenNew
<1>2. PICK i \in Session(b) :
        LET w == WalkParent(Opened(b)[i], p)
        IN  /\ w.ok /\ WritableDir(w.dir)
            /\ T!CanCreate(TreeOf(w.dir), w.dir[2], w.name)
            /\ LET t == T!AfterCreate(TreeOf(w.dir), w.dir[2], w.name, "file", 0)
                   n == <<w.dir[1], Min(T!FreeInodes(TreeOf(w.dir)))>>
                   os == Follow(Opened(b), mounts[n[1]].vol, t)
               IN  /\ trees' = [trees EXCEPT ![mounts[n[1]].vol] = t]
                   /\ IF FreeSlots(os) = {} THEN objs' = os /\ UNCHANGED <<next_badge, port>>
                      ELSE Hand(os, [Fresh(os, "file") EXCEPT !.node = n, !.flags = flags \ {"trunc"}])
  BY DEF OpenNew
<1> DEFINE w == WalkParent(Opened(b)[i], p)
<1>3. w.dir \in Nodes /\ w.name \in Names
  <2>1. Opened(b)[i] \in ObjRecords /\ Opened(b)[i].kind = "session" /\ RefOk(Opened(b)[i])
    BY SessionIs
  <2>2. w.ok
    BY <1>2
  <2>3. QED
    BY <1>1, <2>1, <2>2, ParentIs
<1> HIDE DEF w
<1> DEFINE v == mounts[w.dir[1]].vol
           j == Min(T!FreeInodes(TreeOf(w.dir)))
           n == <<w.dir[1], j>>
           u == T!AfterCreate(TreeOf(w.dir), w.dir[2], w.name, "file", 0)
           os == Follow(Opened(b), v, u)
           f == Fresh(os, "file")
           o == [f EXCEPT !.node = n, !.flags = flags \ {"trunc"}]
<1>x. /\ WritableDir(w.dir) /\ T!CanCreate(TreeOf(w.dir), w.dir[2], w.name)
      /\ trees' = [trees EXCEPT ![v] = u]
      /\ IF FreeSlots(os) = {} THEN objs' = os /\ next_badge' = next_badge ELSE Hand(os, o)
  BY <1>2 DEF w
<1>4. OnFs2(w.dir)
  BY <1>x DEF WritableDir
<1>5. Updates(v, j) /\ os \in [Slots -> Objects'] /\ \E m \in Nodes : m = n /\ OnFs2(m) /\ TypeOf(m)' = "file"
  BY <1>1, <1>x, <1>3, <1>4, Created
<1>6. PICK x : x = o
  OBVIOUS
<1>7. x \in Objects'
  <2>1. f \in ObjRecords /\ Blank(f) /\ f.kind = "file"
    BY <1>1, FreshIs
  <2>2. PICK m \in Nodes : m = n /\ OnFs2(m) /\ TypeOf(m)' = "file"
    BY <1>5
  <2> HIDE DEF f, n
  <2>4. x \in ObjRecords /\ Blank(x) /\ x.kind = "file" /\ x.node = m
    <3>1. flags \ {"trunc"} \in SUBSET UNION Menu.flags
      OBVIOUS
    <3>2. QED
      BY <1>6, <2>1, <2>2, <3>1 DEF ObjRecords, Blank
  <2>5. Nodes' = Nodes /\ OnFs2(m)'
    BY <1>1, <2>2, NodesStay
  <2>6. x \in ObjRecords'
    BY <2>4, <2>5 DEF ObjRecords
  <2>7. RefOk(x)'
    BY <2>2, <2>4, <2>5 DEF RefOk
  <2>8. ListOk(x)'
    BY <2>4 DEF ListOk, Blank
  <2>9. QED
    BY <2>6, <2>7, <2>8 DEF Objects
<1> HIDE DEF o, os, v, j, n, f, u
<1>8. CASE Hand(os, o)
  <2> DEFINE X == Objects'
  <2>1. x.badge \in Nat
    BY <1>7 DEF Objects, ObjRecords
  <2> HIDE DEF X
  <2>2. os \in [Slots -> X] /\ x \in X
    BY <1>5, <1>7 DEF X
  <2>3. objs' \in [Slots -> X] /\ next_badge' = x.badge
    BY <1>6, <1>8, <2>2, HandTable
  <2>4. QED
    BY <1>5, <2>1, <2>3, Established DEF X
<1>9. CASE objs' = os /\ next_badge' = next_badge
  BY <1>1, <1>5, <1>9, Established
<1>10. QED
  BY <1>x, <1>8, <1>9

\* An update of a volume that no object refers to, but for its new tree
LEMMA ChangeKeeps ==
  ASSUME ServiceInv, NEW b \in Nat, NEW dir \in Nodes, OnFs2(dir), NEW c, NEW u, T!IsTree(u), Stays(TreeOf(dir), u, c),
         mounts' = mounts, next_badge' \in Nat, Change(Opened(b), mounts[dir[1]].vol, u),
         \A j \in LiveObjs(Opened(b)) : Avoids(Opened(b)[j], mounts[dir[1]].vol, c)
  PROVE  ServiceInv'
<1> DEFINE v == mounts[dir[1]].vol
<1>1. MountsInv /\ TreesInv
  BY DEF ServiceInv
<1>2. v \in DOMAIN Disks /\ TreeOf(dir) = trees[v]
  BY <1>1, NodeFacts DEF TreeOf
<1>3. trees' = [trees EXCEPT ![v] = u] /\ objs' = Follow(Opened(b), v, u)
  BY DEF Change
<1>4. Opened(b) \in [Slots -> Objects] /\ \A j \in LiveObjs(Opened(b)) : Avoids(Opened(b)[j], v, c)
  BY OpenedKeeps
<1> HIDE DEF v
<1>5. Updates(v, c) /\ trees'[v] = u
  BY <1>1, <1>2, <1>3, TreeUpdates
<1>6. Follow(Opened(b), v, u) \in [Slots -> Objects']
  BY <1>4, <1>5, FollowKeeps
<1>7. QED
  BY <1>3, <1>5, <1>6, Established

\* op_remove
LEMMA OpRemoveKeeps ==
  ASSUME ServiceInv, NEW b \in Nat, NEW p \in Menu.paths, NEW wantDir \in BOOLEAN, OpRemove(b, p, wantDir)
  PROVE  ServiceInv'
<1>1. MountsInv /\ TreesInv /\ mounts' = mounts /\ next_badge' \in Nat
  BY DEF ServiceInv, OpRemove
<1>2. PICK i \in Session(b) :
        LET w == WalkChange(Opened(b)[i], p)
        IN  /\ w.ok /\ \A n \in w.node : ~Busy(Opened(b), n, FALSE)
            /\ T!CanRemove(TreeOf(w.dir), w.dir[2], w.name, wantDir)
            /\ Change(Opened(b), mounts[w.dir[1]].vol, T!AfterRemove(TreeOf(w.dir), w.dir[2], w.name))
  BY DEF OpRemove
<1> DEFINE w == WalkChange(Opened(b)[i], p)
           t == TreeOf(w.dir)
           c == T!Child(t, w.dir[2], w.name)
           u == T!AfterRemove(t, w.dir[2], w.name)
           n == <<w.dir[1], c>>
<1>3. /\ w.dir \in Nodes /\ IsDir(w.dir) /\ OnFs2(w.dir) /\ w.name \in Names
      /\ w.node = {n} /\ n \in Nodes /\ c # T!Root
  <2>1. Opened(b)[i] \in ObjRecords /\ Opened(b)[i].kind = "session" /\ RefOk(Opened(b)[i])
    BY SessionIs
  <2>2. WalkChange(Opened(b)[i], p).ok
    BY <1>2
  <2>3. QED
    BY <1>1, <2>1, <2>2, ChangeIs
<1>4. /\ \A m \in w.node : ~Busy(Opened(b), m, FALSE)
      /\ T!CanRemove(t, w.dir[2], w.name, wantDir)
      /\ Change(Opened(b), mounts[w.dir[1]].vol, u)
  BY <1>2
<1> HIDE DEF w
<1>5. w.dir[2] \in T!Inodes /\ T!IsTree(t)
  BY <1>1, <1>3, NodeFacts
<1>6. T!IsTree(u) /\ Stays(t, u, c)
  <2> HIDE DEF t
  <2>1. QED
    BY <1>4, <1>5, RemoveKeeps
<1>7. n[1] = w.dir[1] /\ n[2] = c /\ OnFs2(n) /\ TreeOf(n) = t /\ mounts[n[1]].vol = mounts[w.dir[1]].vol
  BY <1>3 DEF OnFs2, Kind, TreeOf
<1>8. ~IsDir(n) \/ T!Used(TreeOf(n), n[2]) = {}
  <2>1. c \in T!Inodes
    BY <1>1, <1>3, <1>7, NodeFacts
  <2>2. TypeOf(n) = t[c].type
    BY <1>7 DEF TypeOf
  <2> HIDE DEF t, c, n
  <2>3. (c \in T!Dirs(t) /\ T!Used(t, c) = {}) \/ c \notin T!Dirs(t)
    BY <1>4 DEF T!CanRemove, c
  <2>4. QED
    BY <1>7, <2>1, <2>2, <2>3 DEF T!Dirs, IsDir
<1> HIDE DEF t, c, u, n
<1>9. \A j \in LiveObjs(Opened(b)) : Avoids(Opened(b)[j], mounts[w.dir[1]].vol, c)
  <2>1. ASSUME NEW j \in LiveObjs(Opened(b)) PROVE Avoids(Opened(b)[j], mounts[w.dir[1]].vol, c)
    <3>1. Opened(b)[j] \in ObjRecords /\ RefOk(Opened(b)[j])
      BY OpenedKeeps DEF LiveObjs
    <3>2. ~Busy(Opened(b), n, FALSE)
      BY <1>3, <1>4
    <3>3. Avoids(Opened(b)[j], mounts[n[1]].vol, n[2])
      BY <1>1, <1>3, <1>7, <1>8, <3>1, <3>2, AvoidsBusy
    <3>4. QED
      BY <1>7, <3>3
  <2>2. QED
    BY <2>1
<1>10. QED
  BY <1>1, <1>3, <1>4, <1>6, <1>9, ChangeKeeps DEF t

\* op_rename
LEMMA OpRenameKeeps ==
  ASSUME ServiceInv, NEW b \in Nat, NEW p \in Menu.paths, NEW q \in Menu.paths, OpRename(b, p, q)
  PROVE  ServiceInv'
<1>1. MountsInv /\ TreesInv /\ mounts' = mounts /\ next_badge' \in Nat
  BY DEF ServiceInv, OpRename
<1>2. PICK i \in Session(b) :
        LET w == WalkChange(Opened(b)[i], p)
            z == WalkParent(Opened(b)[i], q)
        IN  /\ w.ok /\ z.ok /\ w.dir[1] = z.dir[1]
            /\ \A n \in w.node : ~Busy(Opened(b), n, IsDir(n))
            /\ T!CanRename(TreeOf(w.dir), w.dir[2], w.name, z.dir[2], z.name)
            /\ Change(Opened(b), mounts[w.dir[1]].vol,
                      T!AfterRename(TreeOf(w.dir), w.dir[2], w.name, z.dir[2], z.name))
  BY DEF OpRename
<1> DEFINE w == WalkChange(Opened(b)[i], p)
           z == WalkParent(Opened(b)[i], q)
           t == TreeOf(w.dir)
           c == T!Child(t, w.dir[2], w.name)
           u == T!AfterRename(t, w.dir[2], w.name, z.dir[2], z.name)
           n == <<w.dir[1], c>>
<1>x. Opened(b)[i] \in ObjRecords /\ Opened(b)[i].kind = "session" /\ RefOk(Opened(b)[i])
  BY SessionIs
<1>3. /\ w.dir \in Nodes /\ IsDir(w.dir) /\ OnFs2(w.dir) /\ w.name \in Names
      /\ w.node = {n} /\ n \in Nodes /\ c # T!Root
  <2>1. WalkChange(Opened(b)[i], p).ok
    BY <1>2
  <2>2. QED
    BY <1>1, <1>x, <2>1, ChangeIs
<1>y. z.name \in Names
  <2>1. WalkParent(Opened(b)[i], q).ok
    BY <1>2
  <2>2. QED
    BY <1>1, <1>x, <2>1, ParentIs
<1>4. /\ \A m \in w.node : ~Busy(Opened(b), m, IsDir(m))
      /\ T!CanRename(t, w.dir[2], w.name, z.dir[2], z.name)
      /\ Change(Opened(b), mounts[w.dir[1]].vol, u)
  BY <1>2
<1> HIDE DEF w, z
<1>5. w.dir[2] \in T!Inodes /\ T!IsTree(t)
  BY <1>1, <1>3, NodeFacts
<1>6. T!IsTree(u) /\ Stays(t, u, c)
  <2> HIDE DEF t
  <2>1. z.dir[2] \in T!Inodes
    BY <1>4 DEF T!CanRename, T!Dirs
  <2>2. CASE z.dir[2] = w.dir[2]
    BY <1>4, <1>5, <1>y, <2>2, RenameHereKeeps
  <2>3. CASE z.dir[2] # w.dir[2]
    BY <1>4, <1>5, <1>y, <2>1, <2>3, RenameAwayKeeps
  <2>4. QED
    BY <2>2, <2>3
<1>7. n[1] = w.dir[1] /\ n[2] = c /\ OnFs2(n) /\ mounts[n[1]].vol = mounts[w.dir[1]].vol
  BY <1>3 DEF OnFs2, Kind
<1> HIDE DEF t, c, u, n
<1>9. \A j \in LiveObjs(Opened(b)) : Avoids(Opened(b)[j], mounts[w.dir[1]].vol, c)
  <2>1. ASSUME NEW j \in LiveObjs(Opened(b)) PROVE Avoids(Opened(b)[j], mounts[w.dir[1]].vol, c)
    <3>1. Opened(b)[j] \in ObjRecords /\ RefOk(Opened(b)[j])
      BY OpenedKeeps DEF LiveObjs
    <3>2. ~Busy(Opened(b), n, IsDir(n)) /\ IsDir(n) \in BOOLEAN
      BY <1>3, <1>4 DEF IsDir
    <3>3. Avoids(Opened(b)[j], mounts[n[1]].vol, n[2])
      <4>1. CASE IsDir(n)
        <5>1. ~Busy(Opened(b), n, TRUE)
          BY <3>2, <4>1
        <5>2. QED
          BY <1>1, <1>3, <1>7, <3>1, <5>1, AvoidsBusy
      <4>2. CASE ~IsDir(n)
        <5>1. ~Busy(Opened(b), n, FALSE)
          BY <3>2, <4>2
        <5>2. QED
          BY <1>1, <1>3, <1>7, <3>1, <4>2, <5>1, AvoidsBusy
      <4>3. QED
        BY <4>1, <4>2
    <3>4. QED
      BY <1>7, <3>3
  <2>2. QED
    BY <2>1
<1>10. QED
  BY <1>1, <1>3, <1>4, <1>6, <1>9, ChangeKeeps DEF t

\* op_dir_open: the listing begins with every entry owed.
LEMMA OpDirOpenKeeps ==
  ASSUME ServiceInv, NEW b \in Nat, NEW p \in Menu.paths, OpDirOpen(b, p)
  PROVE  ServiceInv'
<1> DEFINE os == Opened(b)
<1>1. MountsInv /\ TreesInv /\ mounts' = mounts /\ trees' = trees /\ next_badge \in Nat
  BY DEF ServiceInv, OpDirOpen
<1>2. PICK i \in Session(b) :
        LET w == Walk(os[i], p)
        IN  /\ w.ok /\ IsDir(w.node)
            /\ Hand(os, Begun([Fresh(os, "dir") EXCEPT !.node = w.node]))
  BY DEF OpDirOpen
<1> DEFINE w == Walk(os[i], p)
<1>3. w.node \in Nodes
  BY <1>1, <1>2, SessionIs, WalkEnds
<1>4. os \in [Slots -> Objects]
  BY OpenedKeeps
<1>5. IsDir(w.node) /\ Hand(os, Begun([Fresh(os, "dir") EXCEPT !.node = w.node]))
  BY <1>2
<1> HIDE DEF w, os
<1> DEFINE f == Fresh(os, "dir")
           o == [f EXCEPT !.node = w.node]
<1>6. o \in ObjRecords /\ o.kind = "dir" /\ o.node = w.node /\ ~o.wrong
  <2>1. f \in ObjRecords /\ Blank(f) /\ f.kind = "dir"
    BY <1>1, FreshIs
  <2> HIDE DEF f
  <2>2. QED
    BY <1>3, <2>1 DEF ObjRecords, Blank
<1>7. Hand(os, Begun(o))
  BY <1>5
<1> HIDE DEF o
<1>8. Begun(o) \in Objects
  BY <1>1, <1>5, <1>6, BegunIs
<1>9. Updates("ram", 0)
  BY <1>1, NothingUpdates
<1>10. QED
  BY <1>4, <1>7, <1>8, <1>9, HandedOut

\* FS_SESSION_NEW
LEMMA SessionNewKeeps ==
  ASSUME ServiceInv, NEW b \in Nat, SessionNew(b)
  PROVE  ServiceInv'
<1> DEFINE os == Opened(b)
<1>1. MountsInv /\ TreesInv /\ mounts' = mounts /\ trees' = trees /\ next_badge \in Nat
  BY DEF ServiceInv, SessionNew
<1>2. PICK i \in Session(b) : Hand(os, [Fresh(os, "session") EXCEPT !.node = os[i].node, !.path = os[i].path])
  BY DEF SessionNew
<1> DEFINE s == os[i]
<1>3. s \in ObjRecords /\ s.kind = "session" /\ RefOk(s)
  BY SessionIs
<1>4. os \in [Slots -> Objects]
  BY OpenedKeeps
<1> HIDE DEF s, os
<1> DEFINE f == Fresh(os, "session")
           o == [f EXCEPT !.node = s.node, !.path = s.path]
<1>5. Hand(os, o)
  BY <1>2 DEF s
<1>6. o \in ObjRecords /\ Blank(o) /\ o.kind = "session" /\ o.node = s.node /\ o.path = s.path
  <2>1. f \in ObjRecords /\ Blank(f) /\ f.kind = "session"
    BY <1>1, FreshIs
  <2> HIDE DEF f
  <2>2. QED
    BY <1>3, <2>1 DEF ObjRecords, Blank
<1> HIDE DEF o
<1>7. RefOk(o)
  BY <1>3, <1>6 DEF RefOk
<1>8. o \in Objects
  BY <1>6, <1>7, BlankIs
<1>9. Updates("ram", 0)
  BY <1>1, NothingUpdates
<1>10. QED
  BY <1>4, <1>5, <1>8, <1>9, HandedOut

\* One object of the table becomes another.
LEMMA OneChanged ==
  ASSUME NEW v, Updates(v, 0), NEW os \in [Slots -> Objects], NEW i, NEW x \in Objects, objs' = [os EXCEPT ![i] = x],
         next_badge' \in Nat
  PROVE  ServiceInv'
<1>1. PICK new \in [Slots -> Objects] : new = [os EXCEPT ![i] = x]
  OBVIOUS
<1>2. QED
  BY <1>1, Rewritten

\* FS_CWD_SET
LEMMA CwdSetKeeps ==
  ASSUME ServiceInv, NEW b \in Nat, NEW p \in Menu.paths, CwdSet(b, p)
  PROVE  ServiceInv'
<1> DEFINE os == Opened(b)
<1>1. MountsInv /\ TreesInv /\ mounts' = mounts /\ trees' = trees /\ next_badge' \in Nat
  BY DEF ServiceInv, CwdSet
<1>2. PICK i \in Session(b) :
        LET w == Walk(os[i], p)
        IN  w.ok /\ IsDir(w.node) /\ objs' = [os EXCEPT ![i].node = w.node, ![i].path = w.path]
  BY DEF CwdSet
<1> DEFINE w == Walk(os[i], p)
           s == os[i]
<1>3. w.ok /\ IsDir(w.node)
  BY <1>2
<1>4. i \in Slots /\ s \in ObjRecords /\ s.kind = "session" /\ RefOk(s)
  BY SessionIs
<1>5. w.node \in Nodes /\ w.path \in Seq(Names) /\ Leads(w.path, w.node)
  BY <1>1, <1>3, <1>4, WalkEnds
<1>6. os \in [Slots -> Objects]
  BY OpenedKeeps
<1>7. objs' = [os EXCEPT ![i].node = w.node, ![i].path = w.path]
  BY <1>2
<1> HIDE DEF w, os
<1> DEFINE o == [s EXCEPT !.node = w.node, !.path = w.path]
<1>8. objs' = [os EXCEPT ![i] = o]
  BY <1>4, <1>6, <1>7
<1>9. s \in Objects
  BY <1>4, <1>6
<1> HIDE DEF s
<1>10. /\ o \in ObjRecords /\ o.kind = "session" /\ o.node = w.node /\ o.path = w.path /\ o.wrong = s.wrong
  BY <1>4, <1>5 DEF ObjRecords
<1> HIDE DEF o
<1>11. RefOk(o)
  BY <1>3, <1>5, <1>10 DEF RefOk
<1>12. ListOk(o)
  BY <1>9, <1>10 DEF Objects, ListOk
<1>13. o \in Objects
  BY <1>10, <1>11, <1>12 DEF Objects
<1>14. Updates("ram", 0)
  BY <1>1, NothingUpdates
<1>15. QED
  BY <1>1, <1>6, <1>8, <1>13, <1>14, OneChanged

\* A stream or a listing that a request is for was in the table before it.
LEMMA HandleIs ==
  ASSUME ServiceInv, NEW b \in Nat, NEW i \in Stream(b) \cup Listing(b)
  PROVE  /\ i \in Slots /\ objs[i] = Opened(b)[i] /\ objs[i] \in Objects /\ objs[i] \in ObjRecords /\ RefOk(objs[i])
         /\ i \in Listing(b) => objs[i].kind = "dir"
         /\ i \in Stream(b) => objs[i].kind \in {"file", "null"}
<1>1. i \in Slots /\ Opened(b)[i].kind \in {"file", "null", "dir"}
  BY DEF Stream, Listing, ObjFind, LiveObjs
<1>2. objs[i] = Opened(b)[i]
  BY <1>1, OpenedSlot
<1>3. objs[i] \in Objects
  BY <1>1 DEF ServiceInv
<1>4. QED
  BY <1>1, <1>2, <1>3 DEF Objects, Stream, Listing

\* dir_op
LEMMA DirOpKeeps ==
  ASSUME ServiceInv, NEW b \in Nat, DirNext(b) \/ DirRewind(b)
  PROVE  ServiceInv'
<1>1. /\ MountsInv /\ TreesInv /\ mounts' = mounts /\ trees' = trees /\ next_badge' \in Nat
      /\ objs \in [Slots -> Objects]
  BY DEF ServiceInv, DirNext, DirRewind
<1>2. Updates("ram", 0)
  BY <1>1, NothingUpdates
<1>3. ASSUME NEW i \in Listing(b), NEW x \in Objects, objs' = [objs EXCEPT ![i] = x] PROVE ServiceInv'
  BY <1>1, <1>2, <1>3, OneChanged
<1>4. CASE DirRewind(b)
  <2>1. PICK i \in Listing(b) : objs' = [objs EXCEPT ![i] = Begun(objs[i])]
    BY <1>4 DEF DirRewind
  <2>2. i \in Slots /\ objs[i].kind = "dir" /\ objs[i] \in Objects
    BY HandleIs
  <2>3. Begun(objs[i]) \in Objects
    BY <1>1, <2>2, BegunIs DEF Objects, RefOk, ListOk
  <2>4. QED
    BY <1>3, <2>1, <2>3
<1>5. CASE DirNext(b)
  <2>1. PICK i \in Listing(b) :
          IF DirPeek(objs[i]) = {} THEN objs' = [objs EXCEPT ![i].wrong = @ \/ objs[i].owed # {}]
          ELSE \E e \in DirPeek(objs[i]) : objs' = [objs EXCEPT ![i] = Passed(objs[i], e)]
    BY <1>5 DEF DirNext, Passed
  <2> DEFINE o == objs[i]
  <2>2. i \in Slots /\ o.kind = "dir" /\ o \in Objects /\ o \in ObjRecords
    BY HandleIs
  <2>3. CASE DirPeek(o) = {}
    <3>1. o.owed = {}
      BY <2>2, <2>3, DirEndKeeps
    <3>2. o.wrong = FALSE
      BY <2>2 DEF Objects, ListOk, ObjRecords
    <3>3. objs' = [objs EXCEPT ![i].wrong = FALSE]
      BY <2>1, <2>3, <3>1, <3>2
    <3>4. objs' = [objs EXCEPT ![i] = [o EXCEPT !.wrong = FALSE]]
      BY <3>3
    <3>5. [o EXCEPT !.wrong = FALSE] = o
      <4> HIDE DEF o
      <4>1. QED
        BY <2>2, <3>2 DEF ObjRecords
    <3>6. QED
      BY <1>3, <2>2, <3>4, <3>5
  <2>4. CASE DirPeek(o) # {}
    <3>1. PICK e \in DirPeek(o) : objs' = [objs EXCEPT ![i] = Passed(o, e)]
      BY <2>1, <2>4
    <3>2. Passed(o, e) \in Objects
      BY <1>1, <2>2, DirNextKeeps
    <3>3. QED
      BY <1>3, <3>1, <3>2
  <2>5. QED
    BY <2>3, <2>4
<1>6. QED
  BY <1>4, <1>5

\* The position of a stream is free.
LEMMA SoughtIs ==
  ASSUME NEW o \in Objects, NEW n \in Nat
  PROVE  [o EXCEPT !.pos = n] \in Objects
<1> DEFINE x == [o EXCEPT !.pos = n]
<1>1. o \in ObjRecords /\ RefOk(o) /\ ListOk(o)
  BY DEF Objects
<1>2. /\ x \in ObjRecords /\ x.kind = o.kind /\ x.node = o.node /\ x.path = o.path /\ x.flags = o.flags
      /\ x.phase = o.phase /\ x.cursor = o.cursor /\ x.owed = o.owed /\ x.given = o.given /\ x.wrong = o.wrong
  BY <1>1 DEF ObjRecords
<1> HIDE DEF x
<1>3. RefOk(x)
  BY <1>1, <1>2 DEF RefOk
<1>4. ListOk(x)
  BY <1>1, <1>2 DEF ListOk, Ahead, Behind
<1>5. QED
  BY <1>2, <1>3, <1>4 DEF Objects, x

LEMMA SizeIs ==
  ASSUME MountsInv, TreesInv, NEW o \in ObjRecords
  PROVE  SizeOf(o) \in Nat
<1>1. CASE OnFs2(o.node)
  <2>1. o.node \in Nodes
    BY DEF ObjRecords
  <2>2. o.node[2] \in T!Inodes /\ T!IsTree(TreeOf(o.node))
    BY <1>1, <2>1, NodeFacts
  <2>3. TreeOf(o.node)[o.node[2]] \in T!InodeRecords
    BY <2>2 DEF T!IsTree
  <2>4. TreeOf(o.node)[o.node[2]].data \in Seq({1} \cup {0})
    BY <2>3 DEF T!InodeRecords
  <2>5. QED
    BY <1>1, <2>4 DEF SizeOf
<1>2. CASE ~OnFs2(o.node)
  BY <1>2 DEF SizeOf
<1>3. QED
  BY <1>1, <1>2

\* stream_op: a read and a seek
LEMMA StMoveKeeps ==
  ASSUME ServiceInv, NEW b \in Nat, StRead(b) \/ StSeek(b)
  PROVE  ServiceInv'
<1>1. /\ MountsInv /\ TreesInv /\ mounts' = mounts /\ trees' = trees /\ next_badge' \in Nat
      /\ objs \in [Slots -> Objects]
  BY DEF ServiceInv, StRead, StSeek
<1>2. Updates("ram", 0)
  BY <1>1, NothingUpdates
<1>3. ASSUME NEW i \in Stream(b), NEW n \in Nat, objs' = [objs EXCEPT ![i].pos = n] PROVE ServiceInv'
  <2>1. i \in Slots /\ objs[i] \in Objects
    BY HandleIs
  <2>2. [objs[i] EXCEPT !.pos = n] \in Objects
    BY <2>1, SoughtIs
  <2>3. objs' = [objs EXCEPT ![i] = [objs[i] EXCEPT !.pos = n]]
    BY <1>3
  <2>4. QED
    BY <1>1, <1>2, <2>2, <2>3, OneChanged
<1>4. CASE StSeek(b)
  <2>1. PICK i \in Stream(b), pos \in 0 .. MaxSize : objs' = [objs EXCEPT ![i].pos = pos]
    BY <1>4 DEF StSeek
  <2>2. pos \in Nat
    BY ServerAssumption
  <2>3. QED
    BY <1>3, <2>1, <2>2
<1>5. CASE StRead(b)
  <2>1. PICK i \in Stream(b), len \in 1 .. MaxSize :
          objs' = [objs EXCEPT ![i].pos = Min({@ + len, SizeOf(objs[i])})]
    BY <1>5 DEF StRead
  <2>2. objs[i] \in ObjRecords
    BY HandleIs
  <2>3. objs[i].pos \in Nat /\ len \in Nat /\ SizeOf(objs[i]) \in Nat
    BY <1>1, <2>2, SizeIs, ServerAssumption DEF ObjRecords
  <2> DEFINE S == {objs[i].pos + len, SizeOf(objs[i])}
  <2>4. S \in SUBSET Nat /\ S # {}
    BY <2>3
  <2> HIDE DEF S
  <2>5. Min(S) \in Nat
    BY <2>4, MinIsLeast
  <2>6. objs' = [objs EXCEPT ![i].pos = Min(S)]
    BY <2>1 DEF S
  <2>7. QED
    BY <1>3, <2>5, <2>6
<1>6. QED
  BY <1>4, <1>5

\* stream_op: a write and a truncation change the bytes of a live file, on an FS2 volume.
LEMMA StChangeKeeps ==
  ASSUME ServiceInv, NEW b \in Nat, StWrite(b) \/ StTruncate(b)
  PROVE  ServiceInv'
<1>1. /\ MountsInv /\ TreesInv /\ mounts' = mounts /\ next_badge' \in Nat
      /\ objs \in [Slots -> Objects]
  BY DEF ServiceInv, StWrite, StTruncate
<1>2. ASSUME NEW i \in Stream(b), objs[i].kind = "file", "write" \in objs[i].flags
      PROVE  LET n == objs[i].node
                 v == mounts[n[1]].vol
             IN  v \in DOMAIN Disks /\ T!IsTree(trees[v]) /\ n[2] \in T!Inodes /\ trees[v][n[2]].type = "file"
  <2>1. RefOk(objs[i]) /\ objs[i] \in ObjRecords
    BY HandleIs
  <2>2. objs[i].node \in Nodes /\ OnFs2(objs[i].node) /\ TypeOf(objs[i].node) = "file"
    BY <1>2, <2>1 DEF RefOk, ObjRecords
  <2>3. QED
    BY <1>1, <2>2, NodeFacts DEF TypeOf, TreeOf
<1>3. ASSUME NEW i \in Stream(b), NEW n \in Nat, objs' = [objs EXCEPT ![i].pos = n], NEW v, Updates(v, 0) PROVE ServiceInv'
  <2>1. i \in Slots /\ objs[i] \in Objects
    BY HandleIs
  <2>2. [objs[i] EXCEPT !.pos = n] \in Objects
    BY <2>1, SoughtIs
  <2>3. objs' = [objs EXCEPT ![i] = [objs[i] EXCEPT !.pos = n]]
    BY <1>3
  <2>4. QED
    BY <1>1, <1>3, <2>2, <2>3, OneChanged
<1>4. CASE StTruncate(b)
  <2>1. PICK i \in Stream(b), size \in 0 .. MaxSize :
          /\ objs[i].kind = "file" /\ "write" \in objs[i].flags
          /\ trees' = [trees EXCEPT ![mounts[objs[i].node[1]].vol] = T!AfterTruncate(@, objs[i].node[2], size)]
    BY <1>4 DEF StTruncate
  <2> DEFINE n == objs[i].node
             v == mounts[n[1]].vol
             u == T!AfterTruncate(trees[v], n[2], size)
  <2>2. v \in DOMAIN Disks /\ T!IsTree(trees[v]) /\ n[2] \in T!Inodes /\ trees[v][n[2]].type = "file"
    BY <1>2, <2>1
  <2>3. size \in Nat
    BY ServerAssumption
  <2>4. trees' = [trees EXCEPT ![v] = u]
    BY <2>1
  <2> HIDE DEF n, v
  <2>5. T!IsTree(u) /\ SameEntries(trees[v], u)
    BY <2>2, <2>3, TruncateKeeps
  <2> HIDE DEF u
  <2>6. Updates(v, 0)
    BY <1>1, <2>2, <2>4, <2>5, DataUpdates
  <2>7. objs' = objs
    BY <1>4 DEF StTruncate
  <2>8. QED
    BY <1>1, <2>6, <2>7, Rewritten
<1>5. CASE StWrite(b)
  <2>1. PICK i \in Stream(b), len \in 1 .. MaxSize :
          LET o == objs[i]
              at == IF "append" \in o.flags THEN SizeOf(o) ELSE o.pos
          IN  /\ o.kind = "file" /\ "write" \in o.flags /\ at + len <= MaxSize
              /\ \/ /\ objs' = [objs EXCEPT ![i].pos = at + len]
                    /\ trees' = [trees EXCEPT ![mounts[o.node[1]].vol] =
                                   T!AfterWrite(@, o.node[2], at, [k \in 1 .. len |-> 1])]
                 \/ objs' = [objs EXCEPT ![i].pos = at] /\ UNCHANGED trees
    BY <1>5 DEF StWrite
  <2> DEFINE n == objs[i].node
             v == mounts[n[1]].vol
             at == IF "append" \in objs[i].flags THEN SizeOf(objs[i]) ELSE objs[i].pos
             u == T!AfterWrite(trees[v], n[2], at, [k \in 1 .. len |-> 1])
  <2>2. v \in DOMAIN Disks /\ T!IsTree(trees[v]) /\ n[2] \in T!Inodes /\ trees[v][n[2]].type = "file"
    BY <1>2, <2>1
  <2>3. at \in Nat /\ len \in Nat
    <3>1. objs[i] \in ObjRecords
      BY HandleIs
    <3>2. SizeOf(objs[i]) \in Nat /\ objs[i].pos \in Nat
      BY <1>1, <3>1, SizeIs DEF ObjRecords
    <3>3. QED
      BY <3>2, ServerAssumption
  <2>4. \/ objs' = [objs EXCEPT ![i].pos = at + len] /\ trees' = [trees EXCEPT ![v] = u]
        \/ objs' = [objs EXCEPT ![i].pos = at] /\ trees' = trees
    BY <2>1
  <2> HIDE DEF n, v, at
  <2>5. T!IsTree(u) /\ SameEntries(trees[v], u)
    BY <2>2, <2>3, WriteKeeps
  <2> HIDE DEF u
  <2>6. CASE objs' = [objs EXCEPT ![i].pos = at + len] /\ trees' = [trees EXCEPT ![v] = u]
    <3>1. Updates(v, 0)
      BY <1>1, <2>2, <2>5, <2>6, DataUpdates
    <3>2. at + len \in Nat
      BY <2>3
    <3>3. QED
      BY <1>3, <2>6, <3>1, <3>2
  <2>7. CASE objs' = [objs EXCEPT ![i].pos = at] /\ trees' = trees
    <3>1. Updates(v, 0)
      BY <1>1, <2>7, NothingUpdates
    <3>2. QED
      BY <1>3, <2>3, <2>7, <3>1
  <2>8. QED
    BY <2>4, <2>6, <2>7
<1>6. QED
  BY <1>4, <1>5

\* svc_lookup, the end of a channel and its notice
LEMMA ClientKeeps ==
  ASSUME ServiceInv, NEW b \in Nat, SvcLookup \/ Close(b) \/ Gone(b)
  PROVE  ServiceInv'
<1>1. /\ MountsInv /\ TreesInv /\ mounts' = mounts /\ trees' = trees /\ next_badge' \in Nat
      /\ objs \in [Slots -> Objects]
  BY DEF ServiceInv, SvcLookup, Close, Gone
<1>2. Updates("ram", 0)
  BY <1>1, NothingUpdates
<1>3. ServerGone(objs, b) \in [Slots -> Objects]
  BY <1>1, FreeIs DEF ServerGone
<1>4. objs' \in {objs, ServerGone(objs, b)}
  BY DEF SvcLookup, Close, Gone
<1>5. QED
  BY <1>1, <1>2, <1>3, <1>4, Rewritten

\* A request of the menu
LEMMA RequestKeeps ==
  ASSUME ServiceInv, NEW b \in Nat, Request(b, Menu)
  PROVE  ServiceInv'
<1>1. ASSUME NEW p \in Menu.paths, NEW f \in Menu.flags, OpenFound(b, p, f) \/ OpenNew(b, p, f) PROVE ServiceInv'
  BY <1>1, OpenFoundKeeps, OpenNewKeeps
<1>2. ASSUME NEW p \in Menu.paths, OpMkdir(b, p) \/ \E d \in BOOLEAN : OpRemove(b, p, d) PROVE ServiceInv'
  BY <1>2, OpMkdirKeeps, OpRemoveKeeps
<1>3. ASSUME NEW p \in Menu.paths, NEW q \in Menu.paths, OpRename(b, p, q) PROVE ServiceInv'
  BY <1>3, OpRenameKeeps
<1>4. ASSUME NEW p \in Menu.paths, OpDirOpen(b, p) \/ CwdSet(b, p) PROVE ServiceInv'
  BY <1>4, OpDirOpenKeeps, CwdSetKeeps
<1>5. \/ Refused(b)
      \/ \E p \in Menu.paths, f \in Menu.flags : OpenFound(b, p, f) \/ OpenNew(b, p, f)
      \/ DirNext(b) \/ DirRewind(b) \/ \E p \in Menu.paths : OpDirOpen(b, p)
      \/ \E p \in Menu.paths : OpMkdir(b, p) \/ \E d \in BOOLEAN : OpRemove(b, p, d)
      \/ \E p, q \in Menu.paths : OpRename(b, p, q)
      \/ SessionNew(b) \/ \E p \in Menu.paths : CwdSet(b, p)
      \/ StRead(b) \/ StWrite(b) \/ StSeek(b) \/ StTruncate(b)
  BY DEF Request
<1>6. QED
  BY <1>1, <1>2, <1>3, <1>4, <1>5, RefusedKeeps, SessionNewKeeps, DirOpKeeps, StMoveKeeps, StChangeKeeps

LEMMA BadgesAreNat == AllBadges \subseteq Nat
BY ServerAssumption DEF AllBadges

LEMMA ServiceInit ==
  ASSUME Init
  PROVE  ServiceInv
<1>1. MountsInv /\ TreesInv
  BY DisksAssumption DEF Init, MountsInv, TreesInv
<1>2. objs \in [Slots -> Objects]
  BY <1>1, FreeIs DEF Init
<1>3. QED
  BY <1>1, <1>2 DEF Init, ServiceInv

LEMMA ServiceStep ==
  ASSUME ServiceInv, [Next]_vars
  PROVE  ServiceInv'
<1>1. CASE Next
  <2>1. CASE SvcLookup
    BY <2>1, ClientKeeps
  <2>2. ASSUME NEW b \in AllBadges, Close(b) \/ Gone(b) \/ Request(b, Menu) PROVE ServiceInv'
    <3>1. b \in Nat
      BY BadgesAreNat
    <3>2. QED
      BY <2>2, <3>1, ClientKeeps, RequestKeeps
  <2>3. QED
    BY <1>1, <2>1, <2>2 DEF Next
<1>2. CASE UNCHANGED vars
  <2>1. mounts' = mounts /\ trees' = trees /\ objs' = objs /\ next_badge' = next_badge
    BY <1>2 DEF vars
  <2>2. MountsInv /\ TreesInv /\ objs \in [Slots -> Objects] /\ next_badge' \in Nat
    BY <2>1 DEF ServiceInv
  <2>3. Updates("ram", 0)
    BY <2>1, <2>2, NothingUpdates
  <2>4. QED
    BY <2>1, <2>2, <2>3, Rewritten
<1>3. QED
  BY <1>1, <1>2

\* The mounts are those of a machine, the volumes are trees, and every object refers to what is there: an open
\* file to a file, a directory and a cwd to a directory, the path of a cwd to its node along directories and
\* stored names; and a listing owes what lies ahead of it and has given what lies behind (server.c, vfs.c).
THEOREM ServiceInvariant == Spec => []ServiceInv
<1>1. Init => ServiceInv
  BY ServiceInit
<1>2. ServiceInv /\ [Next]_vars => ServiceInv'
  BY ServiceStep
<1>3. QED
  BY <1>1, <1>2, PTL DEF Spec

LEMMA LiveRefs ==
  ASSUME ServiceInv
  PROVE  RefsAreLive
<1>1. MountsInv /\ TreesInv
  BY DEF ServiceInv
<1>2. ASSUME NEW i \in LiveObjs(objs)
      PROVE  LET o == objs[i]
             IN  /\ o.kind = "file" => TypeOf(o.node) = "file"
                 /\ o.kind \in {"dir", "session"} => IsDir(o.node)
                 /\ o.kind = "session" => WalkFrom(o, TRUE, o.path) = [ok |-> TRUE, node |-> o.node, path |-> o.path]
  <2>1. objs[i] \in ObjRecords /\ RefOk(objs[i])
    BY DEF ServiceInv, LiveObjs, Objects
  <2>2. ASSUME objs[i].kind = "session"
        PROVE  WalkFrom(objs[i], TRUE, objs[i].path) = [ok |-> TRUE, node |-> objs[i].node, path |-> objs[i].path]
    <3>1. objs[i].path \in Seq(Names) /\ Leads(objs[i].path, objs[i].node)
      BY <2>1, <2>2 DEF RefOk, ObjRecords
    <3>2. QED
      BY <1>1, <3>1, Retrace
  <2>3. QED
    BY <2>1, <2>2 DEF RefOk
<1>3. QED
  BY <1>2 DEF RefsAreLive

\* What clients hold on to stays: no removal or rename, through whichever alias of a volume, takes an open file,
\* an open directory or a cwd away, or makes the path of a cwd lead elsewhere (op_remove, op_rename, busy).
THEOREM LiveReferences == Spec => []RefsAreLive
<1>1. ServiceInv => RefsAreLive
  BY LiveRefs
<1>2. QED
  BY <1>1, ServiceInvariant, PTL

\* A listing neither repeats nor leaves out an entry that is there from its beginning to its end, whatever is
\* made, removed and renamed between two of its requests (dir_peek, dir_op).
THEOREM OnceListed == Spec => []ListedOnce
<1>1. ServiceInv => ListedOnce
  BY DEF ServiceInv, ListedOnce, Objects, ListOk
<1>2. QED
  BY <1>1, ServiceInvariant, PTL

----------------------------------------------------------------------------
(* Objects and channels *)

\* ObjectsAreOwned with what makes it inductive: a channel is not open and owed its notice at once, and no badge
\* is above the last one svc_lookup gave, so that the next one is new.
Given == 1 .. MaxBadge + lookups
OwnInv ==
  /\ ObjectsAreOwned
  /\ lookups \in Nat /\ chans \cap gone = {}
  /\ chans \cup gone \cup late \cup revived \subseteq Given

\* Two tables with the same badges in the same slots
SameBadges(os, x) ==
  \A i \in Slots : (os[i].kind = "free" <=> x[i].kind = "free") /\ os[i].badge = x[i].badge
OneEach(os) == \A i, j \in LiveObjs(os) : os[i].badge = os[j].badge => i = j

LEMMA SameBadgesIs ==
  ASSUME NEW os, NEW x, SameBadges(os, x)
  PROVE  /\ LiveObjs(os) = LiveObjs(x) /\ Badges(os) = Badges(x) /\ FreeSlots(os) = FreeSlots(x)
         /\ OneEach(x) => OneEach(os)
<1>1. LiveObjs(os) = LiveObjs(x) /\ \A i \in LiveObjs(os) : os[i].badge = x[i].badge
  BY DEF SameBadges, LiveObjs
<1>2. QED
  BY <1>1 DEF Badges, FreeSlots, OneEach

LEMMA FreeSlotsAre ==
  ASSUME NEW os, FreeSlots(os) # {}
  PROVE  Min(FreeSlots(os)) \in Slots \ LiveObjs(os)
<1>1. FreeSlots(os) \in SUBSET Nat
  BY DEF FreeSlots, Slots
<1>2. QED
  BY <1>1, MinIsLeast DEF FreeSlots

\* A new object takes a free slot.
LEMMA ObjNewIs ==
  ASSUME NEW os, DOMAIN os = Slots, FreeSlots(os) # {}, NEW o, o.kind # "free", OneEach(os), o.badge \notin Badges(os)
  PROVE  OneEach(ObjNew(os, o)) /\ Badges(ObjNew(os, o)) = Badges(os) \cup {o.badge}
<1> DEFINE s == Min(FreeSlots(os))
<1>1. s \in Slots \ LiveObjs(os)
  BY FreeSlotsAre
<1> HIDE DEF s
<1> DEFINE new == [os EXCEPT ![s] = o]
<1>2. new[s] = o /\ \A i \in Slots \ {s} : new[i] = os[i]
  BY <1>1
<1> HIDE DEF new
<1>3. LiveObjs(new) = LiveObjs(os) \cup {s}
  BY <1>1, <1>2 DEF LiveObjs
<1>4. \A i \in LiveObjs(os) : new[i] = os[i] /\ os[i].badge \in Badges(os)
  BY <1>1, <1>2 DEF LiveObjs, Badges
<1>5. OneEach(new)
  BY <1>2, <1>3, <1>4 DEF OneEach
<1>6. Badges(new) = Badges(os) \cup {o.badge}
  BY <1>2, <1>3, <1>4 DEF Badges
<1>7. QED
  BY <1>5, <1>6 DEF ObjNew, s, new

\* The table a request starts with: a kernel badge that was closed has been marked when its session is made.
LEMMA OpenedBadges ==
  ASSUME ServiceInv, OwnInv, NEW b \in Nat, Receive(b)
  PROVE  /\ DOMAIN Opened(b) = Slots /\ OneEach(Opened(b))
         /\ Badges(objs) \subseteq Badges(Opened(b)) /\ Badges(Opened(b)) \subseteq chans \cup revived'
<1> DEFINE o == [FreeObj EXCEPT !.kind = "session", !.badge = b]
<1>1. DOMAIN objs = Slots /\ MountsInv /\ TreesInv
  BY DEF ServiceInv
<1>2. o.kind = "session" /\ o.badge = b
  BY <1>1, FreeIs DEF ObjRecords
<1>3. OneEach(objs) /\ Badges(objs) \subseteq chans \cup revived'
  BY DEF OwnInv, ObjectsAreOwned, OneEach, Receive
<1>4. CASE Opened(b) = objs
  BY <1>1, <1>3, <1>4
<1>5. CASE Opened(b) # objs
  <2>1. /\ ObjFind(objs, b) = {} /\ IsKernelBadge(b) /\ FreeSlots(objs) # {} /\ Opened(b) = ObjNew(objs, o)
    BY <1>5 DEF Opened
  <2> HIDE DEF o
  <2>2. b \notin Badges(objs)
    BY <2>1 DEF ObjFind, Badges
  <2>3. OneEach(Opened(b)) /\ Badges(Opened(b)) = Badges(objs) \cup {b}
    BY <1>1, <1>2, <1>3, <2>1, <2>2, ObjNewIs
  <2>4. DOMAIN Opened(b) = Slots
    BY <1>1, <2>1 DEF ObjNew
  <2>5. b \in chans \cup revived'
    BY <1>5, <2>1 DEF Receive
  <2>6. QED
    BY <1>3, <2>3, <2>4, <2>5
<1>6. QED
  BY <1>4, <1>5

\* What a request leaves of the badges it does not touch
LEMMA ReceivedIs ==
  ASSUME OwnInv, NEW b \in Nat, Receive(b)
  PROVE  /\ gone = {} /\ late' \subseteq late /\ revived \subseteq revived' /\ revived' \subseteq Given
         /\ \A x \in revived' : IsKernelBadge(x) /\ x \notin chans
BY DEF Receive, OwnInv, ObjectsAreOwned

\* A request that makes no channel
LEMMA QuietOwns ==
  ASSUME ServiceInv, OwnInv, NEW b \in Nat, Receive(b), UNCHANGED port,
         NEW os, os \in {objs, Opened(b)}, NEW x, objs' = x, SameBadges(x, os)
  PROVE  OwnInv'
<1>1. /\ OneEach(os) /\ Badges(objs) \subseteq Badges(os) /\ Badges(os) \subseteq chans \cup revived'
  <2>1. OneEach(objs)
    BY DEF OwnInv, ObjectsAreOwned, OneEach
  <2>2. QED
    BY <2>1, OpenedBadges
<1>2. OneEach(x) /\ Badges(x) = Badges(os)
  BY <1>1, SameBadgesIs
<1>3. chans' = chans /\ gone' = gone /\ lookups' = lookups
  BY DEF port
<1>4. /\ gone = {} /\ late' \subseteq late /\ revived \subseteq revived' /\ revived' \subseteq Given
      /\ \A y \in revived' : IsKernelBadge(y) /\ y \notin chans
  BY ReceivedIs
<1>5. (chans \cup gone) \cap 1 .. MaxBadge \subseteq Badges(objs)
  BY DEF OwnInv, ObjectsAreOwned
<1>6. ObjectsAreOwned'
  <2>1. OneEach(objs)' /\ Badges(objs)' = Badges(x)
    BY <1>2 DEF OneEach, LiveObjs, Badges
  <2>2. QED
    BY <1>1, <1>2, <1>3, <1>4, <1>5, <2>1 DEF ObjectsAreOwned, OneEach
<1>7. QED
  BY <1>3, <1>4, <1>6 DEF OwnInv, Given

\* A request whose answer carries a channel: its badge is no object's, so it was nobody's channel.
LEMMA HandOwns ==
  ASSUME ServiceInv, OwnInv, NEW b \in Nat, Receive(b),
         NEW os, DOMAIN os = Slots, SameBadges(os, Opened(b)), FreeSlots(os) # {},
         NEW o, o.kind # "free", o.badge = NextBadge(os), Hand(os, o)
  PROVE  OwnInv'
<1>1. /\ OneEach(os) /\ Badges(objs) \subseteq Badges(os) /\ Badges(os) \subseteq chans \cup revived'
  BY OpenedBadges, SameBadgesIs
<1>2. o.badge \in 1 .. MaxBadge /\ o.badge \notin Badges(os)
  BY NextBadgeIs DEF ServiceInv
<1>3. /\ gone = {} /\ late' \subseteq late /\ revived \subseteq revived' /\ revived' \subseteq Given
      /\ \A y \in revived' : IsKernelBadge(y) /\ y \notin chans
  BY ReceivedIs
<1>4. (chans \cup gone) \cap 1 .. MaxBadge \subseteq Badges(objs) /\ chans \cup late \subseteq Given /\ lookups \in Nat
  BY DEF OwnInv, ObjectsAreOwned
<1>5. o.badge \notin chans /\ o.badge \in Given /\ ~IsKernelBadge(o.badge)
  BY <1>1, <1>2, <1>4, ServerAssumption DEF Given, IsKernelBadge
<1>6. lookups' = lookups /\ Given' = Given
  BY DEF Hand, port, Given
<1>7. CASE objs' = os /\ UNCHANGED port
  <2>1. chans' = chans /\ gone' = gone
    BY <1>7 DEF port
  <2>2. OneEach(objs)' /\ Badges(objs)' = Badges(os)
    BY <1>1, <1>7 DEF OneEach, LiveObjs, Badges
  <2>3. ObjectsAreOwned'
    BY <1>1, <1>3, <1>4, <2>1, <2>2 DEF ObjectsAreOwned, OneEach
  <2>4. QED
    BY <1>3, <1>4, <1>6, <2>1, <2>3 DEF OwnInv
<1>8. ASSUME objs' = ObjNew(os, o), chans' \cup gone' = chans \cup {o.badge}, chans' \in {chans, chans \cup {o.badge}},
             gone' \in {{}, {o.badge}}, chans' \cap gone' = {}
      PROVE  OwnInv'
  <2>1. PICK x : x = ObjNew(os, o)
    OBVIOUS
  <2>2. OneEach(x) /\ Badges(x) = Badges(os) \cup {o.badge}
    BY <1>1, <1>2, <2>1, ObjNewIs
  <2>3. OneEach(objs)' /\ Badges(objs)' = Badges(x)
    BY <1>8, <2>1, <2>2 DEF OneEach, LiveObjs, Badges
  <2>4. \A y \in revived' : IsKernelBadge(y) /\ y \notin chans'
    BY <1>3, <1>5, <1>8
  <2>5. (chans' \cup gone') \cap 1 .. MaxBadge \subseteq Badges(x)
    BY <1>1, <1>3, <1>4, <1>8, <2>2
  <2>6. Badges(x) \subseteq chans' \cup gone' \cup revived'
    BY <1>1, <1>8, <2>2
  <2>7. ObjectsAreOwned'
    BY <2>2, <2>3, <2>4, <2>5, <2>6 DEF ObjectsAreOwned, OneEach
  <2>8. chans' \cup gone' \cup late' \cup revived' \subseteq Given
    BY <1>3, <1>4, <1>5, <1>8
  <2>9. QED
    BY <1>4, <1>6, <1>8, <2>7, <2>8 DEF OwnInv
<1>9. CASE objs' = ObjNew(os, o) /\ chans' = chans \cup {o.badge} /\ gone' = gone
  BY <1>3, <1>8, <1>9
<1>10. CASE objs' = ObjNew(os, o) /\ gone' = gone \cup {o.badge} /\ chans' = chans
  BY <1>3, <1>5, <1>8, <1>10
<1>11. QED
  BY <1>7, <1>9, <1>10 DEF Hand

\* Tables that keep their badges
LEMMA OneSame ==
  ASSUME NEW os, DOMAIN os = Slots, NEW i, NEW x, x.kind = os[i].kind, x.badge = os[i].badge
  PROVE  SameBadges([os EXCEPT ![i] = x], os)
BY DEF SameBadges

LEMMA FollowSame ==
  ASSUME NEW os, \A i \in Slots : os[i] \in ObjRecords, NEW v, NEW t
  PROVE  DOMAIN Follow(os, v, t) = Slots /\ SameBadges(Follow(os, v, t), os)
<1>1. DOMAIN Follow(os, v, t) = Slots
  BY DEF Follow
<1>2. ASSUME NEW i \in Slots
      PROVE  Follow(os, v, t)[i].kind = os[i].kind /\ Follow(os, v, t)[i].badge = os[i].badge
  <2>1. \/ Follow(os, v, t)[i] = os[i]
        \/ \E A, B : Follow(os, v, t)[i] = [os[i] EXCEPT !.owed = A, !.given = B]
    BY DEF Follow
  <2>2. \A A, B : [os[i] EXCEPT !.owed = A, !.given = B].kind = os[i].kind
               /\ [os[i] EXCEPT !.owed = A, !.given = B].badge = os[i].badge
    BY DEF ObjRecords
  <2>3. CASE Follow(os, v, t)[i] = os[i]
    BY <2>3
  <2>4. ASSUME NEW A, NEW B, Follow(os, v, t)[i] = [os[i] EXCEPT !.owed = A, !.given = B]
        PROVE  Follow(os, v, t)[i].kind = os[i].kind /\ Follow(os, v, t)[i].badge = os[i].badge
    <3> DEFINE x == [os[i] EXCEPT !.owed = A, !.given = B]
    <3>1. x.kind = os[i].kind /\ x.badge = os[i].badge
      BY <2>2
    <3> HIDE DEF x
    <3>2. Follow(os, v, t)[i] = x
      BY <2>4 DEF x
    <3>3. QED
      BY <3>1, <3>2
  <2>5. QED
    BY <2>1, <2>3, <2>4
<1>3. QED
  BY <1>1, <1>2 DEF SameBadges

LEMMA SameAsItself == ASSUME NEW os PROVE SameBadges(os, os)
BY DEF SameBadges

LEMMA OpenedIs ==
  ASSUME ServiceInv, NEW b \in Nat
  PROVE  /\ DOMAIN Opened(b) = Slots /\ \A i \in Slots : Opened(b)[i] \in ObjRecords
         /\ DOMAIN objs = Slots /\ \A i \in Slots : objs[i] \in ObjRecords
<1>1. Opened(b) \in [Slots -> Objects] /\ objs \in [Slots -> Objects]
  BY OpenedKeeps DEF ServiceInv
<1>2. QED
  BY <1>1 DEF Objects

\* A fresh object that is given its fields is still fresh.
IsNew(o, os) == o.kind # "free" /\ o.badge = NextBadge(os)
LEMMA FreshIsNew ==
  ASSUME ServiceInv, NEW os, NEW kind \in {"session", "file", "null", "dir"}, NEW n, NEW f, NEW path
  PROVE  /\ IsNew([Fresh(os, kind) EXCEPT !.node = n, !.flags = f], os)
         /\ IsNew([Fresh(os, kind) EXCEPT !.flags = f], os)
         /\ IsNew([Fresh(os, kind) EXCEPT !.node = n, !.path = path], os)
         /\ IsNew(Begun([Fresh(os, kind) EXCEPT !.node = n]), os)
<1> DEFINE o == Fresh(os, kind)
<1>1. o \in ObjRecords /\ o.kind = kind /\ o.badge = NextBadge(os)
  BY FreshIs DEF ServiceInv
<1> HIDE DEF o
<1>2. kind # "free"
  OBVIOUS
<1>3. IsNew([o EXCEPT !.node = n, !.flags = f], os)
  BY <1>1, <1>2 DEF IsNew, ObjRecords
<1>4. IsNew([o EXCEPT !.flags = f], os)
  BY <1>1, <1>2 DEF IsNew, ObjRecords
<1>5. IsNew([o EXCEPT !.node = n, !.path = path], os)
  BY <1>1, <1>2 DEF IsNew, ObjRecords
<1>6. IsNew(Begun([o EXCEPT !.node = n]), os)
  <2>1. PICK x : x = [o EXCEPT !.node = n]
    OBVIOUS
  <2>2. x.kind = kind /\ x.badge = NextBadge(os) /\ {"kind", "badge"} \subseteq DOMAIN x
    BY <1>1, <2>1 DEF ObjRecords
  <2>3. Begun(x).kind = x.kind /\ Begun(x).badge = x.badge
    BY <2>2 DEF Begun
  <2>4. QED
    BY <1>2, <2>1, <2>2, <2>3 DEF IsNew
<1>7. QED
  BY <1>3, <1>4, <1>5, <1>6 DEF o

LEMMA NewOwns ==
  ASSUME ServiceInv, OwnInv, NEW b \in Nat, Receive(b), FreeSlots(Opened(b)) # {},
         NEW o, IsNew(o, Opened(b)), Hand(Opened(b), o)
  PROVE  OwnInv'
<1>1. DOMAIN Opened(b) = Slots /\ SameBadges(Opened(b), Opened(b))
  BY OpenedIs, SameAsItself
<1>2. QED
  BY <1>1, HandOwns DEF IsNew

\* The requests that carry a channel
LEMMA OpenFoundOwns ==
  ASSUME ServiceInv, OwnInv, NEW b \in Nat, NEW p, NEW flags, OpenFound(b, p, flags)
  PROVE  OwnInv'
<1> DEFINE os == Opened(b)
<1>1. Receive(b)
  BY DEF OpenFound
<1>2. \E n : /\ FreeSlots(os) # {}
             /\ \/ Hand(os, [Fresh(os, "file") EXCEPT !.node = n, !.flags = flags])
                \/ objs' = os /\ UNCHANGED port
                \/ Hand(os, [Fresh(os, "null") EXCEPT !.flags = flags \cap {"read", "write"}])
  BY DEF OpenFound
<1>3. PICK n : /\ FreeSlots(os) # {}
               /\ \/ Hand(os, [Fresh(os, "file") EXCEPT !.node = n, !.flags = flags])
                  \/ objs' = os /\ UNCHANGED port
                  \/ Hand(os, [Fresh(os, "null") EXCEPT !.flags = flags \cap {"read", "write"}])
  BY <1>2
<1>4. ASSUME objs' = os, UNCHANGED port PROVE OwnInv'
  BY <1>1, <1>4, QuietOwns, SameAsItself
<1>5. /\ IsNew([Fresh(os, "file") EXCEPT !.node = n, !.flags = flags], os)
      /\ IsNew([Fresh(os, "null") EXCEPT !.flags = flags \cap {"read", "write"}], os)
  BY FreshIsNew
<1>6. QED
  BY <1>1, <1>3, <1>4, <1>5, NewOwns

LEMMA OpenNewOwns ==
  ASSUME ServiceInv, OwnInv, NEW b \in Nat, NEW p, NEW flags, OpenNew(b, p, flags)
  PROVE  OwnInv'
<1>1. Receive(b)
  BY DEF OpenNew
<1>2. \E v, t, n : LET os == Follow(Opened(b), v, t)
                   IN  IF FreeSlots(os) = {} THEN objs' = os /\ UNCHANGED port
                       ELSE Hand(os, [Fresh(os, "file") EXCEPT !.node = n, !.flags = flags \ {"trunc"}])
  BY DEF OpenNew
<1>3. PICK v, t, n : LET os == Follow(Opened(b), v, t)
                     IN  IF FreeSlots(os) = {} THEN objs' = os /\ UNCHANGED port
                         ELSE Hand(os, [Fresh(os, "file") EXCEPT !.node = n, !.flags = flags \ {"trunc"}])
  BY <1>2
<1> DEFINE os == Follow(Opened(b), v, t)
           o == [Fresh(os, "file") EXCEPT !.node = n, !.flags = flags \ {"trunc"}]
<1>4. DOMAIN os = Slots /\ SameBadges(os, Opened(b))
  BY OpenedIs, FollowSame
<1>5. IsNew(o, os)
  BY FreshIsNew
<1>6. IF FreeSlots(os) = {} THEN objs' = os /\ UNCHANGED port ELSE Hand(os, o)
  BY <1>3
<1> HIDE DEF o, os
<1>7. CASE objs' = os /\ UNCHANGED port
  BY <1>1, <1>4, <1>7, QuietOwns
<1>8. CASE FreeSlots(os) # {} /\ Hand(os, o)
  BY <1>1, <1>4, <1>5, <1>8, HandOwns DEF IsNew
<1>9. QED
  BY <1>6, <1>7, <1>8

LEMMA OtherHandOwns ==
  ASSUME ServiceInv, OwnInv, NEW b \in Nat, NEW p, OpDirOpen(b, p) \/ SessionNew(b)
  PROVE  OwnInv'
<1> DEFINE os == Opened(b)
<1>1. Receive(b)
  BY DEF OpDirOpen, SessionNew
<1>2. CASE OpDirOpen(b, p)
  <2>1. \E n : FreeSlots(os) # {} /\ Hand(os, Begun([Fresh(os, "dir") EXCEPT !.node = n]))
    BY <1>2 DEF OpDirOpen
  <2>2. \A n : IsNew(Begun([Fresh(os, "dir") EXCEPT !.node = n]), os)
    BY FreshIsNew
  <2>3. QED
    BY <1>1, <2>1, <2>2, NewOwns
<1>3. CASE SessionNew(b)
  <2>1. \E n, path : FreeSlots(os) # {} /\ Hand(os, [Fresh(os, "session") EXCEPT !.node = n, !.path = path])
    BY <1>3 DEF SessionNew
  <2>2. \A n, path : IsNew([Fresh(os, "session") EXCEPT !.node = n, !.path = path], os)
    BY FreshIsNew
  <2>3. QED
    BY <1>1, <2>1, <2>2, NewOwns
<1>4. QED
  BY <1>2, <1>3

\* The requests that carry none
LEMMA ChangeOwns ==
  ASSUME ServiceInv, OwnInv, NEW b \in Nat, Receive(b), UNCHANGED port, NEW v, NEW t, Change(Opened(b), v, t)
  PROVE  OwnInv'
<1>1. SameBadges(Follow(Opened(b), v, t), Opened(b))
  BY OpenedIs, FollowSame
<1>2. PICK x : x = Follow(Opened(b), v, t)
  OBVIOUS
<1>3. objs' = x
  BY <1>2 DEF Change
<1>4. QED
  BY <1>1, <1>2, <1>3, QuietOwns

\* One object of the table changes, not its kind and not its badge.
LEMMA EditOwns ==
  ASSUME ServiceInv, OwnInv, NEW b \in Nat, Receive(b), UNCHANGED port,
         NEW os, os \in {objs, Opened(b)}, NEW i, NEW o, o.kind = os[i].kind, o.badge = os[i].badge,
         objs' = [os EXCEPT ![i] = o]
  PROVE  OwnInv'
<1>1. PICK x : x = [os EXCEPT ![i] = o]
  OBVIOUS
<1>2. DOMAIN os = Slots
  BY OpenedIs
<1>3. SameBadges(x, os)
  BY <1>1, <1>2, OneSame
<1>4. QED
  BY <1>1, <1>3, QuietOwns

LEMMA PosOwns ==
  ASSUME ServiceInv, OwnInv, NEW b \in Nat, Receive(b), UNCHANGED port, NEW i \in Stream(b), NEW n,
         objs' = [objs EXCEPT ![i].pos = n]
  PROVE  OwnInv'
<1> DEFINE o == [objs[i] EXCEPT !.pos = n]
<1>1. objs[i] \in ObjRecords
  BY HandleIs
<1>2. o.kind = objs[i].kind /\ o.badge = objs[i].badge
  BY <1>1 DEF ObjRecords
<1>3. objs' = [objs EXCEPT ![i] = o]
  OBVIOUS
<1> HIDE DEF o
<1>4. QED
  BY <1>2, <1>3, EditOwns

LEMMA CwdSetOwns ==
  ASSUME ServiceInv, OwnInv, NEW b \in Nat, NEW p, CwdSet(b, p)
  PROVE  OwnInv'
<1>1. Receive(b) /\ UNCHANGED port
  BY DEF CwdSet
<1>2. PICK i \in Session(b) : \E n, path : objs' = [Opened(b) EXCEPT ![i].node = n, ![i].path = path]
  BY DEF CwdSet
<1>3. PICK n, path : objs' = [Opened(b) EXCEPT ![i].node = n, ![i].path = path]
  BY <1>2
<1> DEFINE os == Opened(b)
           o == [os[i] EXCEPT !.node = n, !.path = path]
<1>4. i \in Slots /\ os[i] \in ObjRecords /\ DOMAIN os = Slots
  BY SessionIs, OpenedIs
<1> HIDE DEF os
<1>5. o.kind = os[i].kind /\ o.badge = os[i].badge
  BY <1>4 DEF ObjRecords
<1>6. objs' = [os EXCEPT ![i] = o]
  BY <1>3, <1>4 DEF os
<1> HIDE DEF o
<1>7. QED
  BY <1>1, <1>5, <1>6, EditOwns DEF os

LEMMA DirOpOwns ==
  ASSUME ServiceInv, OwnInv, NEW b \in Nat, DirNext(b) \/ DirRewind(b)
  PROVE  OwnInv'
<1>1. Receive(b) /\ UNCHANGED port
  BY DEF DirNext, DirRewind
<1>2. ASSUME NEW i \in Listing(b), NEW o, objs' = [objs EXCEPT ![i] = o], o.kind = objs[i].kind, o.badge = objs[i].badge
      PROVE  OwnInv'
  BY <1>1, <1>2, EditOwns
<1>3. \A i \in Listing(b) : objs[i] \in ObjRecords
  BY HandleIs
<1>4. CASE DirRewind(b)
  <2>1. PICK i \in Listing(b) : objs' = [objs EXCEPT ![i] = Begun(objs[i])]
    BY <1>4 DEF DirRewind
  <2>2. Begun(objs[i]).kind = objs[i].kind /\ Begun(objs[i]).badge = objs[i].badge
    BY <1>3 DEF Begun, ObjRecords
  <2>3. QED
    BY <1>2, <2>1, <2>2
<1>5. CASE DirNext(b)
  <2>1. PICK i \in Listing(b) :
          \/ \E w : objs' = [objs EXCEPT ![i].wrong = w]
          \/ \E e : objs' = [objs EXCEPT ![i] = Passed(objs[i], e)]
    BY <1>5 DEF DirNext, Passed
  <2>2. ASSUME NEW w, objs' = [objs EXCEPT ![i].wrong = w] PROVE OwnInv'
    <3> DEFINE o == [objs[i] EXCEPT !.wrong = w]
    <3>1. objs' = [objs EXCEPT ![i] = o]
      BY <2>2
    <3>2. o.kind = objs[i].kind /\ o.badge = objs[i].badge
      BY <1>3 DEF ObjRecords
    <3> HIDE DEF o
    <3>3. QED
      BY <1>2, <3>1, <3>2
  <2>3. ASSUME NEW e, objs' = [objs EXCEPT ![i] = Passed(objs[i], e)] PROVE OwnInv'
    <3>1. Passed(objs[i], e).kind = objs[i].kind /\ Passed(objs[i], e).badge = objs[i].badge
      BY <1>3 DEF Passed, ObjRecords
    <3>2. QED
      BY <1>2, <2>3, <3>1
  <2>4. QED
    BY <2>1, <2>2, <2>3
<1>6. QED
  BY <1>4, <1>5

LEMMA StreamOwns ==
  ASSUME ServiceInv, OwnInv, NEW b \in Nat, StRead(b) \/ StWrite(b) \/ StSeek(b) \/ StTruncate(b)
  PROVE  OwnInv'
<1>1. Receive(b) /\ UNCHANGED port
  BY DEF StRead, StWrite, StSeek, StTruncate
<1>2. CASE objs' = objs
  BY <1>1, <1>2, QuietOwns, SameAsItself
<1>3. CASE \E i \in Stream(b) : \E n : objs' = [objs EXCEPT ![i].pos = n]
  BY <1>1, <1>3, PosOwns
<1>4. CASE StRead(b)
  BY <1>3, <1>4 DEF StRead
<1>5. CASE StWrite(b)
  BY <1>3, <1>5 DEF StWrite
<1>6. CASE StSeek(b)
  BY <1>3, <1>6 DEF StSeek
<1>7. CASE StTruncate(b)
  BY <1>2, <1>7 DEF StTruncate
<1>8. QED
  BY <1>4, <1>5, <1>6, <1>7

LEMMA RefusedOwns ==
  ASSUME ServiceInv, OwnInv, NEW b \in Nat, Refused(b)
  PROVE  OwnInv'
<1>1. Receive(b) /\ UNCHANGED port /\ objs' \in {objs, Opened(b)}
  BY DEF Refused
<1>2. QED
  BY <1>1, QuietOwns, SameAsItself

LEMMA RequestOwns ==
  ASSUME ServiceInv, OwnInv, NEW b \in Nat, Request(b, Menu)
  PROVE  OwnInv'
<1>1. ASSUME NEW p, NEW f, OpenFound(b, p, f) \/ OpenNew(b, p, f) PROVE OwnInv'
  BY <1>1, OpenFoundOwns, OpenNewOwns
<1>2. ASSUME NEW p, OpMkdir(b, p) PROVE OwnInv'
  <2>1. Receive(b) /\ UNCHANGED port /\ \E v, t : Change(Opened(b), v, t)
    BY <1>2 DEF OpMkdir
  <2>2. QED
    BY <2>1, ChangeOwns
<1>3. ASSUME NEW p, NEW d, OpRemove(b, p, d) PROVE OwnInv'
  <2>1. Receive(b) /\ UNCHANGED port /\ \E v, t : Change(Opened(b), v, t)
    BY <1>3 DEF OpRemove
  <2>2. QED
    BY <2>1, ChangeOwns
<1>4. ASSUME NEW p, NEW q, OpRename(b, p, q) PROVE OwnInv'
  <2>1. Receive(b) /\ UNCHANGED port /\ \E v, t : Change(Opened(b), v, t)
    BY <1>4 DEF OpRename
  <2>2. QED
    BY <2>1, ChangeOwns
<1>5. ASSUME NEW p, OpDirOpen(b, p) \/ SessionNew(b) \/ CwdSet(b, p) PROVE OwnInv'
  BY <1>5, OtherHandOwns, CwdSetOwns
<1>6. \/ Refused(b)
      \/ \E p, f : OpenFound(b, p, f) \/ OpenNew(b, p, f)
      \/ DirNext(b) \/ DirRewind(b) \/ \E p : OpDirOpen(b, p)
      \/ \E p : OpMkdir(b, p) \/ \E d : OpRemove(b, p, d)
      \/ \E p, q : OpRename(b, p, q)
      \/ SessionNew(b) \/ \E p : CwdSet(b, p)
      \/ StRead(b) \/ StWrite(b) \/ StSeek(b) \/ StTruncate(b)
  BY DEF Request
<1>7. QED
  BY <1>1, <1>2, <1>3, <1>4, <1>5, <1>6, RefusedOwns, DirOpOwns, StreamOwns

\* svc_lookup: the badge is above every badge so far.
LEMMA SvcLookupOwns ==
  ASSUME OwnInv, SvcLookup
  PROVE  OwnInv'
<1> DEFINE new == MaxBadge + lookups + 1
<1>1. lookups \in Nat /\ MaxBadge \in Nat
  BY ServerAssumption DEF OwnInv
<1>2. /\ objs' = objs /\ gone' = gone /\ late' = late /\ revived' = revived
      /\ lookups' = lookups + 1 /\ chans' = chans \cup {new}
  BY DEF SvcLookup
<1>3. new \notin Given /\ new \notin 1 .. MaxBadge /\ Given' = Given \cup {new}
  BY <1>1, <1>2 DEF Given
<1> HIDE DEF new
<1>4. ObjectsAreOwned /\ chans \cap gone = {} /\ chans \cup gone \cup late \cup revived \subseteq Given
  BY DEF OwnInv
<1>5. OneEach(objs)' /\ Badges(objs)' = Badges(objs)
  BY <1>2, <1>4 DEF ObjectsAreOwned, OneEach, LiveObjs, Badges
<1>6. ObjectsAreOwned'
  BY <1>2, <1>3, <1>4, <1>5 DEF ObjectsAreOwned, OneEach
<1>7. lookups' \in Nat /\ chans' \cap gone' = {}
  BY <1>1, <1>2, <1>3, <1>4
<1>8. chans' \cup gone' \cup late' \cup revived' \subseteq Given'
  BY <1>2, <1>3, <1>4
<1>9. QED
  BY <1>6, <1>7, <1>8 DEF OwnInv

LEMMA CloseOwns ==
  ASSUME OwnInv, NEW b, Close(b)
  PROVE  OwnInv'
<1>1. /\ objs' = objs /\ lookups' = lookups /\ revived' = revived /\ b \in chans
      /\ chans' = chans \ {b} /\ gone' = gone \cup {b} /\ late' \subseteq late \cup {b}
  BY DEF Close
<1>2. /\ ObjectsAreOwned /\ chans \cap gone = {} /\ chans \cup gone \cup late \cup revived \subseteq Given
      /\ lookups \in Nat
  BY DEF OwnInv
<1>3. OneEach(objs)' /\ Badges(objs)' = Badges(objs)
  BY <1>1, <1>2 DEF ObjectsAreOwned, OneEach, LiveObjs, Badges
<1>4. ObjectsAreOwned'
  BY <1>1, <1>2, <1>3 DEF ObjectsAreOwned, OneEach
<1>5. Given' = Given
  BY <1>1 DEF Given
<1>6. QED
  BY <1>1, <1>2, <1>4, <1>5 DEF OwnInv

\* fs_server_gone frees the object of the badge and no other.
LEMMA GoneOwns ==
  ASSUME ServiceInv, OwnInv, NEW b, Gone(b)
  PROVE  OwnInv'
<1>1. /\ lookups' = lookups /\ revived' = revived /\ b \in gone
      /\ chans' = chans /\ gone' = gone \ {b} /\ late' = late
  BY DEF Gone
<1>2. /\ ObjectsAreOwned /\ chans \cap gone = {} /\ chans \cup gone \cup late \cup revived \subseteq Given
      /\ lookups \in Nat
  BY DEF OwnInv
<1>3. PICK x : x = ServerGone(objs, b) /\ objs' = x
  BY DEF Gone
<1>4. FreeObj.kind = "free"
  BY FreeIs DEF ServiceInv
<1>5. LiveObjs(x) = {i \in LiveObjs(objs) : objs[i].badge # b} /\ \A i \in LiveObjs(x) : x[i] = objs[i]
  BY <1>3, <1>4 DEF ServerGone, LiveObjs, ObjFind
<1>6. OneEach(x) /\ Badges(x) = Badges(objs) \ {b}
  BY <1>2, <1>5 DEF ObjectsAreOwned, OneEach, Badges
<1>7. OneEach(objs)' /\ Badges(objs)' = Badges(objs) \ {b}
  BY <1>3, <1>6 DEF OneEach, LiveObjs, Badges
<1>8. ObjectsAreOwned'
  BY <1>1, <1>2, <1>7 DEF ObjectsAreOwned, OneEach
<1>9. Given' = Given
  BY <1>1 DEF Given
<1>10. QED
  BY <1>1, <1>2, <1>8, <1>9 DEF OwnInv

LEMMA OwnInit ==
  ASSUME Init
  PROVE  OwnInv
<1>1. FreeObj.kind = "free"
  BY ServiceInit, FreeIs DEF ServiceInv
<1>2. LiveObjs(objs) = {} /\ Badges(objs) = {}
  BY <1>1 DEF Init, LiveObjs, Badges
<1>3. QED
  BY <1>2 DEF Init, OwnInv, ObjectsAreOwned

LEMMA OwnStep ==
  ASSUME ServiceInv, OwnInv, [Next]_vars
  PROVE  OwnInv'
<1>1. CASE Next
  <2>1. ASSUME NEW b \in AllBadges, Close(b) \/ Gone(b) \/ Request(b, Menu) PROVE OwnInv'
    <3>1. b \in Nat
      BY BadgesAreNat
    <3>2. QED
      BY <2>1, <3>1, CloseOwns, GoneOwns, RequestOwns
  <2>2. QED
    BY <1>1, <2>1, SvcLookupOwns DEF Next
<1>2. CASE UNCHANGED vars
  <2>1. /\ objs' = objs /\ chans' = chans /\ gone' = gone /\ late' = late /\ revived' = revived
        /\ lookups' = lookups
    BY <1>2 DEF vars
  <2>2. Badges(objs)' = Badges(objs) /\ LiveObjs(objs)' = LiveObjs(objs)
    BY <2>1 DEF Badges, LiveObjs
  <2>3. QED
    BY <2>1, <2>2 DEF OwnInv, ObjectsAreOwned, Given
<1>3. QED
  BY <1>1, <1>2

\* Objects and channels agree: no badge is used twice, a client's channel made by the service has its object, and
\* an object without a channel has its CLIENT_GONE to come, but for the session a late request made again
\* (obj_new, fs_server_gone, the answers that carry a channel).
THEOREM OwnedObjects == Spec => []ObjectsAreOwned
<1>1. Init => OwnInv
  BY OwnInit
<1>2. ServiceInv /\ OwnInv /\ [Next]_vars => OwnInv'
  BY OwnStep
<1>3. OwnInv => ObjectsAreOwned
  BY DEF OwnInv
<1>4. QED
  BY <1>1, <1>2, <1>3, ServiceInvariant, PTL DEF Spec
=============================================================================

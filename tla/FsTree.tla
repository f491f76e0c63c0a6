------------------------------- MODULE FsTree -------------------------------
(***************************************************************************)
(* What an FS2 volume promises its caller (src/foundation/fs/fs2.h): a tree   *)
(* of inodes in which every update is one indivisible step, or changes nothing. *)
(*                                                                         *)
(* An inode is free, a file with its bytes (here: cells), or a directory with   *)
(* its slots; a slot names an inode or is free.  Names are compared by their     *)
(* folded key.  When the device fails, or an update stops half way, the volume    *)
(* promises nothing more (lost) until it is checked offline.                    *)
(***************************************************************************)
EXTENDS Naturals, Sequences, FiniteSetsExt

CONSTANTS
  NInodes,   \* inode_count
  Names,     \* names, as numbers above 0
  Fold,      \* Fold[n]: the key a name is compared by
  Modes,     \* the values of mode and uid, taken together
  Vals,      \* what a cell of a file holds; 0 is the value of a hole
  Writes,    \* the writes tried: <<where, how many cells>>
  Sizes      \* the sizes tried in truncations

VARIABLES
  tree,      \* tree[i]: the inode i
  lost       \* the volume is damaged

Inodes  == 1 .. NInodes
Root    == 1
NoEntry == <<0, 0>>
FreeInode == [type |-> "free", parent |-> 0, mode |-> 0, slots |-> <<>>, data |-> <<>>]
NewInode(type, parent, mode) == [FreeInode EXCEPT !.type = type, !.parent = parent, !.mode = mode]

----------------------------------------------------------------------------
(* Questions to a tree t *)

\* The used slots of d, the slot of name n in d (0: none), the slot a new entry takes.
Used(t, d) == {s \in DOMAIN t[d].slots : t[d].slots[s] # NoEntry}
Matches(t, d, n) == {s \in Used(t, d) : Fold[t[d].slots[s][2]] = Fold[n]}
Find(t, d, n) == IF Matches(t, d, n) = {} THEN 0 ELSE Min(Matches(t, d, n))
FreeSlot(t, d) == Min((1 .. Len(t[d].slots) + 1) \ Used(t, d))
FreeInodes(t) == {i \in Inodes : t[i].type = "free"}
Dirs(t)  == {i \in Inodes : t[i].type = "dir"}
Files(t) == {i \in Inodes : t[i].type = "file"}
Child(t, d, n) == t[d].slots[Find(t, d, n)][1]

\* i and the inodes above it; t gives the parent of each.
Above(t, i) ==
  LET up[k \in 0 .. NInodes] ==
        IF k = 0 THEN i ELSE LET j == up[k - 1] IN IF j \in {Root, 0} THEN j ELSE t[j].parent
  IN  {up[k] : k \in 0 .. NInodes}

\* fs2_is_under
IsUnder(t, i, anc) == anc \in Above(t, i)

\* What an update finds and leaves: every live inode but the root has one entry, in the directory it calls its
\* parent; the names of a directory have different keys; and going up ends at the root.
InodeRecords ==
  [type : {"free", "file", "dir"}, parent : 0 .. NInodes, mode : Modes \cup {0},
   slots : Seq((Inodes \X Names) \cup {NoEntry}), data : Seq(Vals \cup {0})]
IsTree(t) ==
  /\ t \in [Inodes -> InodeRecords]
  /\ t[Root].type = "dir"
  /\ \A i \in Inodes : t[i].type = "free" => t[i] = FreeInode
  /\ \A d \in Inodes : \A s \in Used(t, d) :
       t[d].type = "dir" /\ LET i == t[d].slots[s][1] IN i # Root /\ t[i].type # "free" /\ t[i].parent = d
  /\ \A d \in Inodes : \A r, s \in Used(t, d) :
       t[d].slots[r][1] = t[d].slots[s][1] \/ Fold[t[d].slots[r][2]] = Fold[t[d].slots[s][2]] => r = s
  /\ \A i \in Inodes \ {Root} : t[i].type # "free" =>
       t[i].parent \in Inodes /\ \E s \in Used(t, t[i].parent) : t[t[i].parent].slots[s][1] = i
  /\ \A S \in SUBSET Inodes : S # {} => \E i \in S : i = Root \/ t[i].parent \notin S

----------------------------------------------------------------------------
(* The updates, as functions from trees to trees *)

SetSlot(t, d, s, e) ==
  [t EXCEPT ![d].slots = [k \in 1 .. (IF s > Len(@) THEN s ELSE Len(@)) |-> IF k = s THEN e ELSE @[k]]]

AfterCreate(t, d, n, type, mode) ==
  LET i == Min(FreeInodes(t))
  IN  [SetSlot(t, d, FreeSlot(t, d), <<i, n>>) EXCEPT ![i] = NewInode(type, d, mode)]

AfterRemove(t, d, n) ==
  [SetSlot(t, d, Find(t, d, n), NoEntry) EXCEPT ![Child(t, d, n)] = FreeInode]

AfterRename(t, d, n, d2, n2) ==
  LET i == Child(t, d, n)
  IN  IF d = d2 THEN SetSlot(t, d, Find(t, d, n), <<i, n2>>)
      ELSE [SetSlot(SetSlot(t, d2, FreeSlot(t, d2), <<i, n2>>), d, Find(t, d, n), NoEntry)
              EXCEPT ![i].parent = d2]

\* Cells off+1 .. off+Len(vals) of the file take vals; a gap is filled with 0.
AfterWrite(t, i, off, vals) ==
  LET old == t[i].data
      end == off + Len(vals)
  IN  [t EXCEPT ![i].data = [k \in 1 .. Max({end, Len(old)}) |->
                               IF k > off /\ k <= end THEN vals[k - off]
                               ELSE IF k <= Len(old) THEN old[k] ELSE 0]]

AfterTruncate(t, i, size) ==
  [t EXCEPT ![i].data = [k \in 1 .. size |-> IF k <= Len(@) THEN @[k] ELSE 0]]

----------------------------------------------------------------------------
(* When an update is accepted *)

CanCreate(t, d, n) == d \in Dirs(t) /\ Find(t, d, n) = 0 /\ FreeInodes(t) # {}

CanRemove(t, d, n, wantDir) ==
  /\ d \in Dirs(t) /\ Find(t, d, n) # 0
  /\ LET i == Child(t, d, n)
     IN  IF wantDir THEN i \in Dirs(t) /\ Used(t, i) = {} ELSE i \notin Dirs(t)

CanRename(t, d, n, d2, n2) ==
  /\ {d, d2} \subseteq Dirs(t) /\ Find(t, d, n) # 0
  /\ Find(t, d2, n2) # 0 => d = d2 /\ Find(t, d2, n2) = Find(t, d, n)
  /\ Child(t, d, n) \in Dirs(t) => ~IsUnder(t, d2, Child(t, d, n))

InitTree == [i \in Inodes |-> IF i = Root THEN NewInode("dir", Root, CHOOSE m \in Modes : TRUE) ELSE FreeInode]

Init == tree = InitTree /\ ~lost

Create == \E d \in Inodes, n \in Names, type \in {"file", "dir"}, mode \in Modes :
            CanCreate(tree, d, n) /\ tree' = AfterCreate(tree, d, n, type, mode)
Remove == \E d \in Inodes, n \in Names, wantDir \in BOOLEAN :
            CanRemove(tree, d, n, wantDir) /\ tree' = AfterRemove(tree, d, n)
Rename == \E d, d2 \in Inodes, n, n2 \in Names :
            CanRename(tree, d, n, d2, n2) /\ tree' = AfterRename(tree, d, n, d2, n2)
Write == \E i \in Files(tree), w \in Writes, v \in Vals :
            tree' = AfterWrite(tree, i, w[1], [k \in 1 .. w[2] |-> v])
Truncate == \E i \in Files(tree), size \in Sizes : tree' = AfterTruncate(tree, i, size)
SetOwner == \E i \in Inodes, mode \in Modes :
            tree[i].type # "free" /\ tree' = [tree EXCEPT ![i].mode = mode]

Update == ~lost /\ lost' = lost /\ tree' # tree /\ (Create \/ Remove \/ Rename \/ Write \/ Truncate \/ SetOwner)
Lose   == ~lost /\ lost' /\ UNCHANGED tree

Next == Update \/ Lose
Spec == Init /\ [][Next]_<<tree, lost>>
=============================================================================

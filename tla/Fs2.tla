-------------------------------- MODULE Fs2 ---------------------------------
(***************************************************************************)
(* The FS2 volume driver of Foundation, src/foundation/fs/fs2.c.              *)
(*                                                                         *)
(* The driver has one thread and a write-through cache, so what matters to a    *)
(* crash is the order in which an operation writes sectors.  An operation is    *)
(* started (its checks, and the list of its writes), then every write is a      *)
(* step that may succeed or fail, the read before it may fail, and the machine   *)
(* may stop between any two of them.  The list can be made when the operation    *)
(* starts because nothing else changes the volume while it runs.               *)
(*                                                                         *)
(* A sector is one of: the superblock (its DIRTY flag), the bitmap, an inode,    *)
(* a data block (the next block and Payload cells).  A directory entry takes    *)
(* DirentCells cells: the inode, the name, padding; entries cross blocks.       *)
(* Cached sectors always equal the media and are left out, as are times.        *)
(***************************************************************************)
EXTENDS Naturals, Sequences, SequencesExt

CONSTANTS
  NInodes, Names, Fold, Modes, Vals, Writes, Sizes,   \* as in FsTree
  NBlocks,         \* data blocks, numbered from 1; 0 ends a chain
  Payload,         \* FS2_PAYLOAD in cells
  DirentCells,     \* FS2_DIRENT in cells
  FullMountCheck,  \* FS2_FULL_MOUNT_CHECK
  ReadErrors       \* bound: how many reads fail

ASSUME Fs2Assumption ==
  /\ NInodes \in Nat \ {0} /\ NBlocks \in Nat \ {0} /\ Payload \in Nat \ {0}
  /\ Writes \subseteq Nat \X (Nat \ {0}) /\ Sizes \subseteq Nat /\ ReadErrors \in Nat /\ DirentCells \in Nat \ {0, 1}
  /\ Names \subseteq Nat \ {0} /\ Names \subseteq DOMAIN Fold
  /\ Modes # {} /\ Vals \subseteq Nat /\ FullMountCheck \in BOOLEAN

VARIABLES
  media,    \* the sectors: dirty (DIRTY), bitmap (the blocks marked used), inode, block
  vol,      \* the fs2_vol, or Unmounted; wild and closing (an unmount has failed) are not in the code
  todo,     \* the writes of the running operation that are still to be made
  op,       \* the running operation: its kind, and the inode fs2_create frees again on failure
  shadow,   \* the tree as of the last operation that ended (not in the code)
  lost,     \* the volume was damaged at some time (not in the code)
  errors    \* the reads that failed so far

vars == <<media, vol, todo, op, shadow, lost, errors>>

Inodes == 1 .. NInodes
Blocks == 1 .. NBlocks
Root   == 1

NoInode == [type |-> "free", mode |-> 0, parent |-> 0, first |-> 0, size |-> 0, count |-> 0]
Unmounted == [mounted |-> FALSE]
Idle == [kind |-> "none", undo |-> 0]
BlocksFor(size) == (size + Payload - 1) \div Payload

----------------------------------------------------------------------------
(* What the sectors mean *)

\* The blocks a chain of count blocks from b visits; it stops where next_block leaves the data area.
ChainFrom(m, b, count) ==
  LET next == [n \in 0 .. NBlocks |-> IF n = 0 THEN 0 ELSE m.block[n].next]
      at[k \in 1 .. count] == IF k = 1 THEN b ELSE next[at[k - 1]]
  IN  SelectSeq(at, LAMBDA n : n # 0)
Chain(m, i) == ChainFrom(m, m.inode[i].first, m.inode[i].count)

\* The bytes of inode i, as far as its chain goes, and the entries of a directory.
Content(m, i) ==
  LET cells == FlattenSeq([k \in DOMAIN Chain(m, i) |-> m.block[Chain(m, i)[k]].cells])
  IN  SubSeq(cells, 1, Min({m.inode[i].size, Len(cells)}))
Entries(m, i) ==
  LET c == Content(m, i)
  IN  [s \in 1 .. Len(c) \div DirentCells |-> <<c[(s - 1) * DirentCells + 1], c[(s - 1) * DirentCells + 2]>>]

\* Entry e is used and has the key of n; the name of a half-written entry (0) has no key.
Named(e, n) == e[1] # 0 /\ e[2] # 0 /\ Fold[e[2]] = Fold[n]

\* The tree the media hold.
Decode(m) ==
  [i \in Inodes |->
     LET n == m.inode[i]
     IN  [type |-> n.type, parent |-> n.parent, mode |-> n.mode,
          slots |-> IF n.type = "dir" THEN Entries(m, i) ELSE <<>>,
          data  |-> IF n.type = "file" THEN Content(m, i) ELSE <<>>]]

T == INSTANCE FsTree WITH tree <- shadow

----------------------------------------------------------------------------
(* The mount check *)

\* check_inode_fields, steps 4 and the root of step 5
InodeFieldsOk(m, i) ==
  LET n == m.inode[i]
  IN  \/ n = NoInode /\ i # Root
      \/ /\ n.type # "free"
         /\ n.count = BlocksFor(n.size) /\ (n.count = 0) = (n.first = 0)
         /\ n.type = "dir" => n.size % DirentCells = 0
         /\ n.parent \in Inodes
         /\ i = Root => n.type = "dir" /\ n.parent = Root

UsedInodes(m) == {i \in Inodes : m.inode[i].type # "free"}
DirsOf(m)     == {i \in Inodes : m.inode[i].type = "dir"}
ChainSet(m, i) == ToSet(Chain(m, i))

\* check_chain, step 7
ChainOk(m, i) ==
  LET n == m.inode[i]
      c == Chain(m, i)
  IN  /\ Len(c) = n.count /\ IsInjective(c) /\ ToSet(c) \subseteq m.bitmap
      /\ \A j \in UsedInodes(m) \ {i} : ChainSet(m, j) \cap ToSet(c) = {}
      /\ c # <<>> => /\ m.block[Last(c)].next = 0
                     /\ \A k \in (n.size - (n.count - 1) * Payload) + 1 .. Payload : m.block[Last(c)].cells[k] = 0

\* check_dir, step 6 and the references of step 5
DirOk(m, d) ==
  LET e == Entries(m, d)
      c == Content(m, d)
      used == {s \in DOMAIN e : e[s][1] # 0}
  IN  /\ \A s \in DOMAIN e \ used : \A k \in 1 .. DirentCells : c[(s - 1) * DirentCells + k] = 0
      /\ \A s \in used :
           /\ e[s][1] \in UsedInodes(m) \ {Root} /\ e[s][2] \in Names
           /\ \A k \in 3 .. DirentCells : c[(s - 1) * DirentCells + k] = 0
           /\ m.inode[e[s][1]].parent = d
           /\ \A z \in used \ {s} : e[z][1] # e[s][1] /\ ~Named(e[z], e[s][2])

\* check_volume; the steps 5 to 8 only when built with the full check
BasicOk(m) == \A i \in Inodes : InodeFieldsOk(m, i)
FullOk(m) ==
  /\ BasicOk(m)
  /\ \A i \in UsedInodes(m) : ChainOk(m, i)
  /\ m.bitmap = UNION {ChainSet(m, i) : i \in UsedInodes(m)}
  /\ \A d \in DirsOf(m) : DirOk(m, d)
  /\ \A i \in UsedInodes(m) \ {Root} :
       /\ \E d \in DirsOf(m) : \E s \in DOMAIN Entries(m, d) : Entries(m, d)[s][1] = i
       /\ T!IsUnder(m.inode, i, Root)
CheckVolume(m) == IF FullMountCheck THEN FullOk(m) ELSE BasicOk(m)

----------------------------------------------------------------------------
(* Finding blocks and entries *)

\* chain_seek: block x of inode i, from the nearest position known; 0 where the chain breaks.
\* The positions it passes are noted.
Seek(i, x) ==
  LET known == {h \in vol.hints : h[1] = i /\ h[2] <= x}
      best  == IF known = {} THEN <<i, 0, media.inode[i].first>>
               ELSE CHOOSE h \in known : \A g \in known : g[2] <= h[2]
      walk  == ChainFrom(media, best[3], x - best[2] + 1)
  IN  [lba  |-> IF Len(walk) = x - best[2] + 1 THEN Last(walk) ELSE 0,
       note |-> {<<i, best[2] + k - 1, walk[k]>> : k \in DOMAIN walk}]

\* hint_note and extent_note: a position that contradicts an older one replaces it.
Noted(hints, note) == note \cup {h \in hints : \A g \in note : <<g[1], g[2]>> # <<h[1], h[2]>>}
\* hint_drop
Kept(hints, i) == hints
Dropped(hints, i) == {h \in hints : h[1] # i}

\* dir_index_get: the index of d, from memory or from the media (which notes the whole chain of d)
IndexOf(d) ==
  LET have == {x \in vol.index : x[1] = d}
  IN  IF have # {} THEN (CHOOSE x \in have : TRUE)[2] ELSE Entries(media, d)
ChainNotes(i) == {<<i, k - 1, Chain(media, i)[k]>> : k \in DOMAIN Chain(media, i)}

\* dir_find: the first slot of that name with its inode and its name, or nothing.  The slots come
\* from the index, the entry they lead to from the media.
DirFind(d, n) ==
  LET e == Entries(media, d)
      x == IndexOf(d)
      hits == {s \in DOMAIN x \cap DOMAIN e : Named(x[s], n) /\ Named(e[s], n)}
  IN  {<<s, e[s][1], e[s][2]>> : s \in {s \in hits : \A z \in hits : s <= z}}
DirFreeSlot(d) ==
  LET x == IndexOf(d) IN Min({s \in 1 .. Len(x) + 1 : s \in DOMAIN x => x[s][1] = 0})

----------------------------------------------------------------------------
(* The writes of an operation *)

\* block_alloc: first fit, k times
FreeBlocks == Blocks \ vol.bitmap
NewBlocks(k) == [j \in 1 .. k |-> CHOOSE b \in FreeBlocks : Cardinality({c \in FreeBlocks : c < b}) = j - 1]

\* The cells of block x of a file that a write of vals at off gives a value.
Given(x, off, vals) ==
  [j \in {j \in 1 .. Payload : x * Payload + j > off /\ x * Payload + j <= off + Len(vals)} |->
     vals[x * Payload + j - off]]
Over(given, cells) == [j \in 1 .. Payload |-> IF j \in DOMAIN given THEN given[j] ELSE cells[j]]
Zeros == [j \in 1 .. Payload |-> 0]
FailStep == <<[k |-> "fail"]>>
WildStep == <<[k |-> "wild"]>>      \* a sector outside the data area is used as a block

\* chain_extend: a bit for every new block, the blocks from the first to the last, then the link.
ChainExtend(i, extra, off, vals) ==
  LET n    == media.inode[i]
      new  == NewBlocks(extra)
      fill(j) == [k |-> "init", b |-> new[j], next |-> IF j < extra THEN new[j + 1] ELSE 0,
                  cells |-> Over(Given(n.count + j - 1, off, vals), Zeros)]
      tail == Seek(i, n.count - 1)
  IN  [j \in 1 .. 2 * extra |-> IF j = 1 THEN [k |-> "alloc", b |-> new[1]]
                                ELSE IF j % 2 = 1 \/ j = 2 * extra THEN fill(j \div 2)
                                ELSE [k |-> "alloc", b |-> new[(j \div 2) + 1]]]
      \o (IF n.count = 0 THEN <<>>
          ELSE IF tail.lba = 0 THEN FailStep
          ELSE <<[k |-> "link", b |-> tail.lba, next |-> new[1], note |-> tail.note]>>)

\* write_existing: the first block is sought, the others follow next_block unchecked.
WriteExisting(i, off, vals) ==
  LET n     == media.inode[i]
      end   == Min({off + Len(vals), n.count * Payload})
      from  == off \div Payload
      upto  == (end - 1) \div Payload
      start == Seek(i, from)
      c     == ChainFrom(media, start.lba, upto - from + 1)
  IN  IF end <= off THEN <<>>
      ELSE IF start.lba = 0 THEN FailStep
      ELSE [j \in DOMAIN c |-> [k |-> "data", b |-> c[j], given |-> Given(from + j - 1, off, vals),
                                note |-> (IF j = 1 THEN start.note ELSE {<<i, from + j - 1, c[j]>>})]]
           \o (IF Len(c) <= upto - from THEN WildStep ELSE <<>>)

InodeStep(i, n, drop) == <<[k |-> "inode", i |-> i, n |-> n, drop |-> drop]>>

\* file_write of vals at off, after begin_change
FileWrite(i, off, vals) ==
  LET n     == media.inode[i]
      size  == Max({n.size, off + Len(vals)})
      extra == IF BlocksFor(size) > n.count THEN BlocksFor(size) - n.count ELSE 0
      first == IF n.count = 0 /\ extra > 0 THEN NewBlocks(1)[1] ELSE n.first
  IN  IF extra > vol.free THEN FailStep
      ELSE (IF extra > 0 THEN ChainExtend(i, extra, off, vals) ELSE <<>>)
           \o WriteExisting(i, off, vals)
           \o InodeStep(i, [n EXCEPT !.size = size, !.count = n.count + extra, !.first = first], "no")

\* chain_free_from: reads a block, frees it, follows next_block unchecked.
ChainFreeFrom(b, count) ==
  LET c == ChainFrom(media, b, count)
  IN  [j \in DOMAIN c |-> [k |-> "free", b |-> c[j]]] \o (IF Len(c) < count THEN WildStep ELSE <<>>)

\* file_truncate, after begin_change
FileTruncate(i, size) ==
  LET n     == media.inode[i]
      count == BlocksFor(size)
      extra == count - n.count
      tail  == Seek(i, count - 1)
      first == IF count = 0 THEN 0
               ELSE IF n.count = 0 THEN NewBlocks(1)[1] ELSE n.first
      final == [n EXCEPT !.size = size, !.count = count, !.first = first]
  IN  IF size > n.size
      THEN IF count > n.count /\ extra > vol.free THEN FailStep
           ELSE (IF count > n.count THEN ChainExtend(i, extra, 0, <<>>) ELSE <<>>) \o InodeStep(i, final, "no")
      ELSE IF count > 0 /\ tail.lba = 0 THEN FailStep
      ELSE (IF count = 0 THEN <<>>
            ELSE <<[k |-> "cut", b |-> tail.lba, keep |-> size - (count - 1) * Payload, i |-> i, note |-> tail.note]>>)
           \o InodeStep(i, final, "before")
           \o ChainFreeFrom(IF count = 0 THEN n.first ELSE media.block[tail.lba].next, n.count - count)

\* dirent_write: entry s of directory d
Entry(i, n) == [j \in 1 .. DirentCells |-> IF j = 1 THEN i ELSE IF j = 2 THEN n ELSE 0]
DirentWrite(d, s, i, n) == FileWrite(d, (s - 1) * DirentCells, Entry(i, n))

----------------------------------------------------------------------------
(* Starting an operation *)

Ready == vol.mounted /\ op = Idle /\ ~vol.wild
\* Where nothing can be written any more, what a lookup remembers is left out.
Writable == Ready /\ vol.writable /\ ~vol.failed

\* begin_change, which every dirent_write, file_write and file_truncate calls before its first write
Begin(steps, undo, note) ==
  /\ Writable
  /\ todo' = (IF vol.dirty THEN <<>> ELSE <<[k |-> "dirty"]>>) \o steps
  /\ op' = [kind |-> "update", undo |-> undo]
  /\ vol' = [vol EXCEPT !.index = {}, !.hints = Noted(@, note)]
  /\ UNCHANGED <<media, shadow, lost, errors>>

InodeType(i) == media.inode[i].type
IsDir(i) == InodeType(i) = "dir" /\ Len(Chain(media, i)) = media.inode[i].count

\* fs2_lookup and every dir_find of an operation that is refused
fs2_lookup(d) ==
  /\ Writable /\ IsDir(d)
  /\ vol' = [vol EXCEPT !.index = @ \cup {<<d, IndexOf(d)>>}, !.hints = Noted(@, ChainNotes(d))]
  /\ UNCHANGED <<media, todo, op, shadow, lost, errors>>

\* fs2_read to the end of the file
fs2_read(i) ==
  /\ Writable /\ InodeType(i) = "file" /\ media.inode[i].count > 0
  /\ vol' = [vol EXCEPT !.hints = Noted(@, Seek(i, media.inode[i].count - 1).note)]
  /\ UNCHANGED <<media, todo, op, shadow, lost, errors>>

\* fs2_create
fs2_create(d, n, type, mode) ==
  LET free == Inodes \ vol.used
      num  == Min(free)
  IN  /\ IsDir(d) /\ DirFind(d, n) = {} /\ free # {}
      /\ \E slot \in {DirFreeSlot(d)} :
           /\ BlocksFor(slot * DirentCells) <= media.inode[d].count + vol.free
           /\ Begin(InodeStep(num, [NoInode EXCEPT !.type = type, !.mode = mode, !.parent = d], "no")
                    \o DirentWrite(d, slot, num, n), num, ChainNotes(d))

\* fs2_remove
RemoveFreesFirst(d, n, wantDir) ==
  /\ IsDir(d)
  /\ \E found \in DirFind(d, n) : \E i \in {found[2]} :
       /\ IF wantDir THEN IsDir(i) /\ \A e \in ToSet(Entries(media, i)) : e[1] = 0
          ELSE InodeType(i) # "dir"
       /\ Begin(DirentWrite(d, found[1], 0, 0) \o ChainFreeFrom(media.inode[i].first, media.inode[i].count)
                \o InodeStep(i, NoInode, "after"),
                0, ChainNotes(d) \cup IF wantDir THEN ChainNotes(i) ELSE {})
fs2_remove(d, n, wantDir) ==
  /\ IsDir(d)
  /\ \E found \in DirFind(d, n) : \E i \in {found[2]} :
       /\ IF wantDir THEN IsDir(i) /\ \A e \in ToSet(Entries(media, i)) : e[1] = 0
          ELSE InodeType(i) # "dir"
       /\ Begin(DirentWrite(d, found[1], 0, 0) \o InodeStep(i, NoInode, "after")
                \o ChainFreeFrom(media.inode[i].first, media.inode[i].count),
                0, ChainNotes(d) \cup IF wantDir THEN ChainNotes(i) ELSE {})

\* fs2_rename
fs2_rename(d, n, d2, n2) ==
  /\ IsDir(d) /\ IsDir(d2)
  /\ \E found \in DirFind(d, n), slot \in {DirFreeSlot(d2)} :
       LET from == found[1]
           i    == found[2]
           inode(p) == InodeStep(i, [media.inode[i] EXCEPT !.parent = p], "no")
       IN  /\ \A to \in DirFind(d2, n2) : d = d2 /\ to[1] = from /\ to[3] # n2
           /\ InodeType(i) = "dir" => ~T!IsUnder(media.inode, d2, i)
           /\ Begin(IF d = d2 THEN DirentWrite(d, from, i, n2) \o inode(d)
                    ELSE DirentWrite(d2, slot, i, n2) \o inode(d2) \o DirentWrite(d, from, 0, 0),
                    0, ChainNotes(d) \cup ChainNotes(d2))

\* fs2_write, fs2_truncate and fs2_set_owner
WriteAppends(i, off, vals) ==
  InodeType(i) = "file" /\ vals # <<>> /\ Begin(FileWrite(i, media.inode[i].size, vals), 0, {})
fs2_write(i, off, vals) ==
  InodeType(i) = "file" /\ vals # <<>> /\ Begin(FileWrite(i, off, vals), 0, {})
fs2_truncate(i, size) ==
  InodeType(i) = "file" /\ size # media.inode[i].size /\ Begin(FileTruncate(i, size), 0, {})
fs2_set_owner(i, mode) ==
  InodeType(i) # "free" /\ Begin(InodeStep(i, [media.inode[i] EXCEPT !.mode = mode], "no"), 0, {})

----------------------------------------------------------------------------
(* The writes *)

\* sec_write of step s: the media and the driver's memory after it
MediaAfter(s) ==
  CASE s.k = "dirty" -> [media EXCEPT !.dirty = TRUE]
    [] s.k = "clean" -> [media EXCEPT !.dirty = FALSE]
    [] s.k = "alloc" -> [media EXCEPT !.bitmap = @ \cup {s.b}]
    [] s.k = "free"  -> [media EXCEPT !.bitmap = @ \ {s.b}]
    [] s.k = "init"  -> [media EXCEPT !.block[s.b] = [next |-> s.next, cells |-> s.cells]]
    [] s.k = "link"  -> [media EXCEPT !.block[s.b].next = s.next]
    [] s.k = "data"  -> [media EXCEPT !.block[s.b].cells = Over(s.given, @)]
    [] s.k = "cut"   -> [media EXCEPT !.block[s.b].next = 0,
                                      !.block[s.b].cells = [j \in 1 .. Payload |-> IF j <= s.keep THEN @[j] ELSE 0]]
    [] s.k = "inode" -> [media EXCEPT !.inode[s.i] = s.n]

\* What the driver changes before the write of s (kept when the write fails), and after it.
VolBefore(s) ==
  CASE s.k \in {"link", "data", "cut"} -> [vol EXCEPT !.hints = Noted(@, s.note)]
    [] s.k = "free" -> [vol EXCEPT !.bitmap = @ \ {s.b}, !.free = @ + 1]
    [] s.k = "inode" /\ s.drop = "before" -> [vol EXCEPT !.hints = Dropped(@, s.i)]
    [] OTHER -> vol
VolAfter(s) ==
  LET v == [VolBefore(s) EXCEPT !.tx = TRUE]
  IN  CASE s.k = "dirty" -> [v EXCEPT !.dirty = TRUE, !.tx = FALSE]
        [] s.k = "clean" -> [v EXCEPT !.dirty = FALSE]
        [] s.k = "alloc" -> [v EXCEPT !.bitmap = @ \cup {s.b}, !.free = @ - 1]
        [] s.k = "cut"   -> [v EXCEPT !.hints = Dropped(@, s.i)]
        [] s.k = "inode" ->
             [v EXCEPT !.used = IF s.n.type = "free" THEN @ \ {s.i} ELSE @ \cup {s.i},
                       !.hints = IF s.drop = "after" THEN Dropped(@, s.i) ELSE @]
        [] OTHER -> v

\* end_change of an operation that succeeded or not: suspect, or DIRTY = 0 as one more write.
EndAlwaysCloses(v, ok) ==
  LET open == v.dirty /\ ~v.failed
  IN  /\ vol' = [v EXCEPT !.tx = FALSE]
      /\ todo' = IF open THEN <<[k |-> "clean"]>> ELSE <<>>
      /\ op' = IF open THEN [kind |-> IF ok THEN "close" ELSE "abort", undo |-> 0] ELSE Idle
      /\ lost' = (lost \/ v.failed)
      /\ UNCHANGED shadow
End(v, ok) ==
  LET open == v.dirty /\ ~v.failed
      w    == IF open THEN [v EXCEPT !.suspect = @ \/ (~ok /\ v.tx), !.tx = FALSE] ELSE v
      more == open /\ ~w.suspect
  IN  /\ vol' = w
      /\ todo' = IF more THEN <<[k |-> "clean"]>> ELSE <<>>
      /\ op' = IF more THEN [kind |-> IF ok THEN "close" ELSE "abort", undo |-> 0] ELSE Idle
      /\ lost' = (lost \/ w.failed \/ w.suspect)
      /\ UNCHANGED shadow

\* An operation fails without a write failing; fs2_create first frees its inode again.
Fail(v) ==
  IF op.kind = "update" /\ op.undo \in v.used
  THEN /\ vol' = v /\ todo' = InodeStep(op.undo, NoInode, "no") /\ op' = [kind |-> "undo", undo |-> 0]
       /\ UNCHANGED <<shadow, lost>>
  ELSE End(v, FALSE)

\* The tree the last operation left, once it has ended.
Closed(m) == shadow' = IF op.kind = "close" /\ ~lost THEN Decode(m) ELSE shadow

Reads == {"dirty", "clean", "link", "data", "cut", "free", "inode"}

WriteDone ==
  /\ todo # <<>> /\ Head(todo).k \notin {"fail", "wild"}
  /\ media' = MediaAfter(Head(todo))
  /\ LET v == VolAfter(Head(todo))
     IN  CASE Tail(todo) # <<>> -> vol' = v /\ todo' = Tail(todo) /\ UNCHANGED <<op, shadow, lost>>
           [] Head(todo).k = "clean" ->
                vol' = [v EXCEPT !.tx = FALSE] /\ todo' = <<>> /\ op' = Idle /\ Closed(MediaAfter(Head(todo))) /\ UNCHANGED lost
           [] OTHER -> End(v, op.kind = "update")
  /\ UNCHANGED errors

\* The device refuses the write, or reports an error after the sector changed.
WriteFails ==
  /\ todo # <<>> /\ Head(todo).k \notin {"fail", "wild"}
  /\ media' \in {media, MediaAfter(Head(todo))}
  /\ vol' = [VolBefore(Head(todo)) EXCEPT !.failed = TRUE]
  /\ todo' = <<>> /\ op' = Idle /\ lost' = TRUE
  /\ UNCHANGED <<shadow, errors>>

\* The sec_read or chain_seek before the write fails.
ReadFails ==
  /\ errors < ReadErrors /\ errors' = errors + 1
  /\ todo # <<>> /\ Head(todo).k \in Reads
  /\ IF Head(todo).k = "clean"
     THEN todo' = <<>> /\ op' = Idle /\ Closed(media) /\ UNCHANGED <<vol, lost>>
     ELSE Fail(IF Head(todo).k = "free" THEN vol ELSE VolBefore(Head(todo)))
  /\ UNCHANGED media

\* No space, or a chain that ends early.
Stops ==
  /\ todo # <<>> /\ Head(todo).k = "fail"
  /\ Fail(vol) /\ UNCHANGED <<media, errors>>

\* A block number outside the data area is followed: what the driver does next is not modelled.
Strays ==
  /\ todo # <<>> /\ Head(todo).k = "wild"
  /\ vol' = [vol EXCEPT !.wild = TRUE] /\ todo' = <<>> /\ op' = Idle
  /\ UNCHANGED <<media, shadow, lost, errors>>

----------------------------------------------------------------------------
(* Mounting *)

Mounted(m, writable) ==
  [mounted |-> TRUE, writable |-> writable, dirty |-> FALSE, failed |-> FALSE, suspect |-> FALSE,
   tx |-> FALSE, bitmap |-> m.bitmap, free |-> NBlocks - Cardinality(m.bitmap),
   used |-> UsedInodes(m), hints |-> {}, index |-> {}, wild |-> FALSE, closing |-> FALSE]

\* The machine stops; the memory is lost.
Crash ==
  /\ vol.mounted
  /\ vol' = Unmounted /\ todo' = <<>> /\ op' = Idle
  /\ lost' = (lost \/ media.dirty)
  /\ UNCHANGED <<media, shadow, errors>>

\* fs2_mount refuses DIRTY media and media that fail its check.
fs2_mount(writable) ==
  /\ ~vol.mounted /\ ~media.dirty /\ CheckVolume(media)
  /\ vol' = Mounted(media, writable)
  /\ UNCHANGED <<media, todo, op, shadow, lost, errors>>

\* fs2_unmount: DIRTY = 0, suspect or not, when the write of the superblock succeeds
fs2_unmount ==
  /\ Ready
  /\ vol' = Unmounted
  /\ media' = IF vol.dirty /\ ~vol.failed THEN [media EXCEPT !.dirty = FALSE] ELSE media
  /\ lost' = (lost \/ media.dirty)
  /\ UNCHANGED <<todo, op, shadow, errors>>

\* The write of clear_dirty in fs2_unmount fails: the volume stays mounted.
UnmountFails ==
  /\ Ready /\ vol.dirty /\ ~vol.failed
  /\ media' \in {media, [media EXCEPT !.dirty = FALSE]}
  /\ vol' = [vol EXCEPT !.failed = TRUE, !.closing = TRUE]
  /\ lost' = TRUE
  /\ UNCHANGED <<todo, op, shadow, errors>>

----------------------------------------------------------------------------
\* fs2_format: an empty root directory
EmptyMedia ==
  [dirty |-> FALSE, bitmap |-> {},
   inode |-> [i \in Inodes |-> IF i = Root THEN [NoInode EXCEPT !.type = "dir", !.parent = Root,
                                                                 !.mode = CHOOSE m \in Modes : TRUE]
                               ELSE NoInode],
   block |-> [b \in Blocks |-> [next |-> 0, cells |-> Zeros]]]

Init ==
  /\ media = EmptyMedia /\ vol = Mounted(EmptyMedia, TRUE)
  /\ todo = <<>> /\ op = Idle /\ shadow = Decode(EmptyMedia) /\ lost = FALSE /\ errors = 0

Operation ==
  Writable /\
  \/ \E d \in DirsOf(media), n \in Names :
       \/ \E type \in {"file", "dir"}, mode \in Modes : fs2_create(d, n, type, mode)
       \/ \E wantDir \in BOOLEAN : fs2_remove(d, n, wantDir)
       \/ \E d2 \in DirsOf(media), n2 \in Names : fs2_rename(d, n, d2, n2)
  \/ \E i \in Inodes :
       \/ \E w \in Writes, v \in Vals : fs2_write(i, w[1], [k \in 1 .. w[2] |-> v])
       \/ \E size \in Sizes : fs2_truncate(i, size)
       \/ \E mode \in Modes : fs2_set_owner(i, mode)
       \/ fs2_lookup(i)
       \/ fs2_read(i)

Next ==
  \/ Operation
  \/ WriteDone \/ WriteFails \/ ReadFails \/ Stops \/ Strays
  \/ Crash \/ fs2_unmount \/ UnmountFails \/ \E writable \in BOOLEAN : fs2_mount(writable)

Spec == Init /\ [][Next]_vars

----------------------------------------------------------------------------
(* Properties *)

\* Until unmount is asked for, a volume that may be mounted again as it is passes the whole check of spec_FS2.md 10, and holds
\* the tree of the operations that succeeded: no crash, error or failed operation is hidden by
\* DIRTY = 0 (begin_change, end_change, the order of the writes).
CleanIsConsistent ==
  vol.mounted /\ ~vol.closing /\ ~media.dirty => FullOk(media) /\ (~lost => Decode(media) = shadow)

\* Between any two writes, and after any failed one, a block reached from an inode is marked used
\* and belongs to one file: blocks are allocated before they are linked, and unlinked before they
\* are freed.
BlocksAreOwned ==
  vol.mounted /\ ~vol.suspect =>
    \A i \in UsedInodes(media) :
      /\ ChainSet(media, i) \subseteq media.bitmap /\ IsInjective(Chain(media, i))
      /\ \A j \in UsedInodes(media) \ {i} : ChainSet(media, i) \cap ChainSet(media, j) = {}

\* Everything the driver remembers of the media is true until a write fails: the bitmap, the count
\* of free blocks, the used inodes, the positions in chains (hints, extents) and the indexes of
\* directories, which outlive removals, truncations and new files under an old inode number.
MemoryIsTrue ==
  vol.mounted /\ ~vol.failed /\ ~vol.wild =>
    /\ vol.bitmap = media.bitmap /\ vol.free = Cardinality(Blocks \ vol.bitmap)
    /\ vol.used = UsedInodes(media)
    /\ \A h \in vol.hints : h[2] < Len(Chain(media, h[1])) /\ Chain(media, h[1])[h[2] + 1] = h[3]
    /\ \A x \in vol.index : x[2] = Entries(media, x[1])

\* The volume implements the tree of FsTree: an operation that ends changes it as that operation
\* does, in one step, and nothing else changes it.
ImplementsTree == T!Spec
=============================================================================

------------------------------ MODULE FsServer ------------------------------
(***************************************************************************)
(* The file service of Foundation: its object table (fs/server.c), the        *)
(* namespace (fs/vfs.c) and the loop on the PORT "fs" (fs/main.c).             *)
(*                                                                         *)
(* The FS2 volumes are trees of FsTree, which Fs2 is shown to implement while   *)
(* the device works: an update is one step, or is refused and changes nothing.   *)
(* The service answers one message at a time, so a request with its answer is     *)
(* one step.  A refusal has one form whatever its status, and any request may be  *)
(* refused (a bad argument, a device error, no memory).  Every session has UID 0,  *)
(* for whom vfs_permit always says yes.  The lengths of names and paths are left    *)
(* out.  A client is seen through its channels: one lives while a handle on it is   *)
(* open, then its CLIENT_GONE is owed to the service, which receives it before      *)
(* any request, also before one made on that channel by another thread (late).      *)
(***************************************************************************)
EXTENDS Naturals, Sequences, SequencesExt, FiniteSetsExt, FiniteSets

CONSTANTS
  NInodes, Names, Fold,   \* as in FsTree, for every volume
  Machines,     \* the machines started on: the drives, the boot drive, whether /tmp fits in memory
  Disks,        \* Disks[v]: the tree on volume v before the first request
  DsfsNames,    \* the names of the files of a DSFS volume, in its order
  FS_OBJECTS,   \* the size of the object table
  MaxBadge,     \* the last badge of the service, 0x7FFFFFFF
  MaxLookups,   \* bound: channels made by svc_lookup
  MaxSize,      \* bound: the size of a file, in cells
  Menu          \* the requests tried: groups of operations, paths, sets of FND_OPEN_ flags

ASSUME ServerAssumption ==
  /\ FS_OBJECTS \in Nat \ {0} /\ MaxBadge \in Nat /\ MaxBadge > FS_OBJECTS
  /\ MaxLookups \in Nat /\ MaxSize \in Nat

VARIABLES
  mounts,       \* vfs_mounts: the mounts that are present
  trees,        \* trees[v]: the FS2 volume v
  objs,         \* the object table
  next_badge,   \* the last badge given
  chans,        \* the badges of the channels clients hold handles on
  gone,         \* the badges whose CLIENT_GONE is owed
  late,         \* the badges with a request that is still waiting after the channel was closed
  lookups,      \* the channels svc_lookup has made
  revived       \* the badges whose session was made again after CLIENT_GONE (not in the code)

vars == <<mounts, trees, objs, next_badge, chans, gone, late, lookups, revived>>
port == <<chans, gone, lookups>>

T == INSTANCE FsTree WITH tree <- trees, lost <- FALSE, Modes <- {0}, Vals <- {1}, Writes <- {}, Sizes <- {}

----------------------------------------------------------------------------
(* Mounts *)

Digits == <<"0", "1", "2", "3">>
Reserved == <<"dev", "dd", "os", "tmp">>
DevNodes == <<"con", "null">>
DriveMounts == ToSet(Digits)
DirIno == 1
RootNode == <<"root", DirIno>>
ReservedNames == ToSet(Reserved)

\* Names are compared by a key, which is its own key; the names of the namespace are among them, and a path
\* has "." and ".." besides.
ASSUME NamesAssumption ==
  /\ Fold \in [Names -> Names] /\ \A n \in Names : Fold[Fold[n]] = Fold[n]
  /\ {".", ".."} \cap Names = {}
  /\ DsfsNames \in Seq(Names) /\ DevNodes \in Seq(Names)
  /\ \A p \in Menu.paths : p.comps \in Seq(Names \cup {".", ".."})

\* The FS2 volumes the service mounts are trees.
Fs2Volumes(m) == {d \in DOMAIN m.drives : m.drives[d] \in {"fs2", "fs2ro"}} \cup (IF m.tmp THEN {"ram"} ELSE {})
ASSUME DisksAssumption ==
  /\ NInodes \in Nat \ {0}
  /\ \A m \in Machines : DOMAIN m.drives \subseteq DriveMounts \cap Names /\ Fs2Volumes(m) \subseteq DOMAIN Disks
  /\ \A v \in DOMAIN Disks : T!IsTree(Disks[v])

\* mount_disks, mount_tmp: a drive is shown when its volume mounts; the boot drive is also "/".
MountAll(m) ==
  LET shown == {d \in DOMAIN m.drives : m.drives[d] \in {"fs2", "fs2ro", "dsfs"}}
      fs2   == {d \in shown : m.drives[d] # "dsfs"}
      On(kind, v) == [kind |-> kind, vol |-> v, writable |-> kind = "fs2" /\ (v = "ram" \/ m.drives[v] = "fs2")]
  IN  [x \in {"root", "dev", "dd", "os"} \cup shown \cup (IF m.tmp THEN {"tmp"} ELSE {}) |->
         IF x = "root" /\ m.boot \in fs2 THEN On("fs2", m.boot)
         ELSE IF x = "tmp" THEN On("fs2", "ram")
         ELSE IF x \in shown THEN On(IF x \in fs2 THEN "fs2" ELSE "dsfs", x)
         ELSE On(IF x = "dev" THEN "dev" ELSE "virtual", x)]

Present == DOMAIN mounts
Kind(n) == mounts[n[1]].kind
TreeOf(n) == trees[mounts[n[1]].vol]
OnFs2(n) == Kind(n) = "fs2"

\* Mutant: nodes of one mount only.
SameMount(a, b) == a[1] = b[1]

\* vfs_same_volume: "/" and /dd/<boot> are one volume.
SameVolume(a, b) ==
  IF OnFs2(a) /\ OnFs2(b) THEN mounts[a[1]].vol = mounts[b[1]].vol ELSE a[1] = b[1]

\* vfs_get_info, the type; "none" for what does not exist
TypeOf(n) ==
  IF OnFs2(n) THEN TreeOf(n)[n[2]].type
  ELSE IF n[2] = DirIno THEN "dir"
  ELSE IF Kind(n) = "dev" THEN DevNodes[n[2] - 1] ELSE "file"
IsDir(n) == TypeOf(n) = "dir"

\* vfs_reserved: the names of "/" that lead to mounts, present or not
ReservedIn(dir, n) == dir = RootNode /\ Fold[n] \in ReservedNames

\* The names of a directory that is not FS2, by their place; /dd has a place for each drive.
FixedNames(dir) ==
  CASE dir[1] = "dd" -> [k \in {j \in DOMAIN Digits : Digits[j] \in Present} |-> Digits[k]]
    [] Kind(dir) = "dev" -> DevNodes
    [] Kind(dir) = "dsfs" -> DsfsNames
    [] OTHER -> <<>>
FixedNode(dir, k) == IF dir[1] = "dd" THEN <<FixedNames(dir)[k], DirIno>> ELSE <<dir[1], k + 1>>

\* vfs_lookup: what name n of dir leads to, and the stored name; {} when there is no such name
VfsLookup(dir, n) ==
  IF ReservedIn(dir, n)
  THEN {[node |-> <<Fold[n], DirIno>>, name |-> Fold[n]] : x \in {Fold[n]} \cap Present}
  ELSE IF OnFs2(dir)
  THEN {[node |-> <<dir[1], TreeOf(dir)[dir[2]].slots[s][1]>>, name |-> TreeOf(dir)[dir[2]].slots[s][2]] :
          s \in {T!Find(TreeOf(dir), dir[2], n)} \ {0}}
  ELSE {[node |-> FixedNode(dir, k), name |-> FixedNames(dir)[k]] :
          k \in {j \in DOMAIN FixedNames(dir) : Fold[FixedNames(dir)[j]] = Fold[n]}}

Found(dir, n) == CHOOSE x \in VfsLookup(dir, n) : TRUE

\* vfs_parent
ParentOf(n) ==
  IF n = RootNode THEN n
  ELSE IF n[2] = DirIno THEN <<IF n[1] \in DriveMounts THEN "dd" ELSE "root", DirIno>>
  ELSE IF OnFs2(n) THEN <<n[1], TreeOf(n)[n[2]].parent>>
  ELSE <<n[1], DirIno>>

----------------------------------------------------------------------------
(* Walking a path: the node reached and the names that lead to it from "/" *)

NoWalk == [ok |-> FALSE, node |-> RootNode, path |-> <<>>]

\* One component; ".." goes up in the tree and drops a name (path_pop), a name is pushed as stored.
Enter(w, c) ==
  IF ~w.ok \/ ~IsDir(w.node) THEN NoWalk
  ELSE IF c = "." THEN w
  ELSE IF c = ".." THEN [w EXCEPT !.node = ParentOf(@), !.path = IF @ = <<>> THEN @ ELSE Front(@)]
  ELSE IF VfsLookup(w.node, c) = {} THEN NoWalk
  ELSE LET l == Found(w.node, c) IN [w EXCEPT !.node = l.node, !.path = Append(@, l.name)]

Start(s, abs) == IF abs THEN [NoWalk EXCEPT !.ok = TRUE] ELSE [ok |-> TRUE, node |-> s.node, path |-> s.path]
\* One component after the other, from start
Through(Op(_, _), start, comps) ==
  LET at[k \in 0 .. Len(comps)] == IF k = 0 THEN start ELSE Op(at[k - 1], comps[k]) IN at[Len(comps)]
WalkFrom(s, abs, comps) == Through(Enter, Start(s, abs), comps)

\* vfs_walk_path of session s to the end of the path; a trailing "/" wants a directory.
Walk(s, p) ==
  LET w == WalkFrom(s, p.abs, p.comps)
  IN  IF w.ok /\ p.slash /\ ~IsDir(w.node) THEN NoWalk ELSE w

\* The same in parent mode: to the directory of the last name; node is {} when the name is new.
WalkParent(s, p) ==
  IF p.comps = <<>> \/ Last(p.comps) \in {".", ".."} THEN [ok |-> FALSE]
  ELSE LET w == WalkFrom(s, p.abs, Front(p.comps))
       IN  IF ~w.ok \/ ~IsDir(w.node) THEN [ok |-> FALSE]
           ELSE [ok |-> TRUE, dir |-> w.node, name |-> Last(p.comps), slash |-> p.slash,
                 node |-> {l.node : l \in VfsLookup(w.node, Last(p.comps))}]

----------------------------------------------------------------------------
(* Objects *)

\* A session has its cwd in node and path, a directory its listing position in phase and cursor.
\* owed and given (not in the code): the entries that were there all the time since the listing began,
\* not yet returned and returned; wrong: one came twice or was left out.
FreeObj == [kind |-> "free", badge |-> 0, node |-> RootNode, path |-> <<>>, flags |-> {}, pos |-> 0,
            phase |-> 0, cursor |-> 0, owed |-> {}, given |-> {}, wrong |-> FALSE]

Slots == 1 .. FS_OBJECTS
LiveObjs(os) == {i \in Slots : os[i].kind # "free"}
Badges(os) == {os[i].badge : i \in LiveObjs(os)}

\* obj_find: its slot, {} when the badge has no object
ObjFind(os, b) == {i \in LiveObjs(os) : os[i].badge = b}
FreeSlots(os) == Slots \ LiveObjs(os)

\* obj_new: the first free slot; a badge of the service is the next one that is not in use.
NextBadge(os) ==
  LET After(k) == ((next_badge + k - 1) % MaxBadge) + 1
  IN  After(Min({k \in 1 .. MaxBadge : After(k) \notin Badges(os)}))
ObjNew(os, o) == [os EXCEPT ![Min(FreeSlots(os))] = o]

\* fs_server_gone
ServerGone(os, b) == [i \in Slots |-> IF i \in ObjFind(os, b) THEN FreeObj ELSE os[i]]

\* The table when a request on badge b is looked at: the first one on a kernel badge makes its session.
IsKernelBadge(b) == b > MaxBadge
Opened(b) ==
  IF ObjFind(objs, b) = {} /\ IsKernelBadge(b) /\ FreeSlots(objs) # {}
  THEN ObjNew(objs, [FreeObj EXCEPT !.kind = "session", !.badge = b])
  ELSE objs

\* busy: a handle or a cwd refers to the node, or to something below it, through any alias.
Busy(os, n, subtree) ==
  \E i \in LiveObjs(os) :
    /\ os[i].kind \in {"file", "dir", "session"}
    /\ SameVolume(os[i].node, n)
    /\ \/ os[i].node[2] = n[2]
       \/ subtree /\ OnFs2(n) /\ T!IsUnder(TreeOf(n), os[i].node[2], n[2])

----------------------------------------------------------------------------
(* Listings *)

\* What phase 0 lists after cursor c: the used slots, without the reserved names in "/".
Listed(dir, c) ==
  IF OnFs2(dir)
  THEN {s \in T!Used(TreeOf(dir), dir[2]) : s > c /\ ~ReservedIn(dir, TreeOf(dir)[dir[2]].slots[s][2])}
  ELSE {k \in DOMAIN FixedNames(dir) : k > c}
ListedNode(dir, s) == IF OnFs2(dir) THEN <<dir[1], TreeOf(dir)[dir[2]].slots[s][1]>> ELSE FixedNode(dir, s)

\* What phase 1 lists: in "/", the reserved names that are present.
MountsListed(dir, c) ==
  IF dir = RootNode THEN {k \in DOMAIN Reserved : k > c /\ Reserved[k] \in Present} ELSE {}

\* Mutant: phase 1 goes on from the cursor of phase 0.
CursorKept(o) ==
  IF o.phase = 0 /\ Listed(o.node, o.cursor) # {}
  THEN {[node |-> ListedNode(o.node, s), phase |-> 0, cursor |-> s] : s \in {Min(Listed(o.node, o.cursor))}}
  ELSE LET more == MountsListed(o.node, o.cursor)
       IN  {[node |-> <<Reserved[k], DirIno>>, phase |-> 1, cursor |-> k] : k \in IF more = {} THEN {} ELSE {Min(more)}}

\* dir_peek: the next entry of o with the position after it, {} at the end
DirPeek(o) ==
  IF o.phase = 0 /\ Listed(o.node, o.cursor) # {}
  THEN {[node |-> ListedNode(o.node, s), phase |-> 0, cursor |-> s] : s \in {Min(Listed(o.node, o.cursor))}}
  ELSE LET more == MountsListed(o.node, IF o.phase = 0 THEN 0 ELSE o.cursor)
       IN  {[node |-> <<Reserved[k], DirIno>>, phase |-> 1, cursor |-> k] : k \in IF more = {} THEN {} ELSE {Min(more)}}

\* Every entry of a directory, as a listing should give it.
Entries(dir) ==
  {ListedNode(dir, s) : s \in Listed(dir, 0)} \cup {<<Reserved[k], DirIno>> : k \in MountsListed(dir, 0)}
Begun(o) == [o EXCEPT !.phase = 0, !.cursor = 0, !.owed = Entries(o.node), !.given = {}]

\* The listings when volume v becomes the tree t: an entry that goes away is no longer owed.
Follow(os, v, t) ==
  LET still(o) == {n \in o.owed \cup o.given :
                     n[1] # o.node[1] \/ \E s \in T!Used(t, o.node[2]) :
                       t[o.node[2]].slots[s][1] = n[2] /\ ~ReservedIn(o.node, t[o.node[2]].slots[s][2])}
  IN  [i \in Slots |->
         IF os[i].kind = "dir" /\ OnFs2(os[i].node) /\ mounts[os[i].node[1]].vol = v
         THEN [os[i] EXCEPT !.owed = @ \cap still(os[i]), !.given = @ \cap still(os[i])]
         ELSE os[i]]

----------------------------------------------------------------------------
(* Requests *)

\* The service takes a request on badge b; notices come first.
Receive(b) == gone = {} /\ b \in chans \cup late /\ late' = late \ {b}
             /\ revived' = IF b \notin chans /\ IsKernelBadge(b) /\ Opened(b) # objs THEN revived \cup {b} ELSE revived

\* The session a request on b is for, {} when b is not a session's.
Session(b) == {i \in ObjFind(Opened(b), b) : Opened(b)[i].kind = "session"}
Stream(b)  == {i \in ObjFind(Opened(b), b) : Opened(b)[i].kind \in {"file", "null"}}
Listing(b) == {i \in ObjFind(Opened(b), b) : Opened(b)[i].kind = "dir"}

\* Volume v becomes t; the other objects are os.
Change(os, v, t) == trees' = [trees EXCEPT ![v] = t] /\ objs' = Follow(os, v, t)

\* writable_dir
WritableDir(dir) == OnFs2(dir) /\ mounts[dir[1]].writable

\* Mutant: the object stays when chan_create fails.
HandKeeps(os, o) ==
  /\ next_badge' = o.badge
  /\ \/ objs' = ObjNew(os, o) /\ UNCHANGED port
     \/ objs' = ObjNew(os, o) /\ chans' = chans \cup {o.badge} /\ UNCHANGED <<gone, lookups>>
     \/ objs' = ObjNew(os, o) /\ gone' = gone \cup {o.badge} /\ UNCHANGED <<chans, lookups>>

\* The answer carries a channel for object o, new in os: chan_create may fail (the object is freed
\* again), the reply may fail (the handle is closed, CLIENT_GONE follows), or the client gets it.
Hand(os, o) ==
  /\ next_badge' = o.badge
  /\ \/ objs' = os /\ UNCHANGED port
     \/ objs' = ObjNew(os, o) /\ chans' = chans \cup {o.badge} /\ UNCHANGED <<gone, lookups>>
     \/ objs' = ObjNew(os, o) /\ gone' = gone \cup {o.badge} /\ UNCHANGED <<chans, lookups>>
Fresh(os, kind) == [FreeObj EXCEPT !.kind = kind, !.badge = NextBadge(os)]

\* A request that is refused or only asks (stat, cwd_get, sync, volume_info, chmod, chown, a device's
\* stream): it may still have made the session, memory permitting.
Refused(b) == Receive(b) /\ objs' \in {objs, Opened(b)} /\ UNCHANGED <<mounts, trees, next_badge, port>>

\* The flags op_open accepts
FlagsOk(flags) ==
  /\ flags \cap {"read", "write", "exec"} # {} /\ ~({"exec", "write"} \subseteq flags)
  /\ "excl" \in flags => "create" \in flags
  /\ flags \cap {"trunc", "append"} # {} => "write" \in flags

\* op_open of a name that exists; TRUNC comes after the object, which a full table refuses
OpenFound(b, p, flags) ==
  /\ Receive(b) /\ FlagsOk(flags)
  /\ \E i \in Session(b) :
       LET w == WalkParent(Opened(b)[i], p)
       IN  /\ w.ok /\ w.node # {} /\ ~({"create", "excl"} \subseteq flags) /\ FreeSlots(Opened(b)) # {}
           /\ \E n \in w.node :
                \/ /\ TypeOf(n) = "file" /\ ~p.slash
                   /\ "write" \in flags => WritableDir(n)
                   /\ LET t == T!AfterTruncate(TreeOf(n), n[2], 0)
                          os == Opened(b)
                      IN  \/ /\ trees' = IF "trunc" \in flags THEN [trees EXCEPT ![mounts[n[1]].vol] = t] ELSE trees
                             /\ Hand(os, [Fresh(os, "file") EXCEPT !.node = n, !.flags = flags])
                          \/ /\ "trunc" \in flags     \* fs2_truncate fails: the object is freed
                             /\ objs' = os /\ next_badge' = NextBadge(os) /\ UNCHANGED <<trees, port>>
                \/ /\ TypeOf(n) = "null" /\ ~p.slash /\ "exec" \notin flags /\ UNCHANGED trees
                   /\ Hand(Opened(b), [Fresh(Opened(b), "null") EXCEPT !.flags = flags \cap {"read", "write"}])
  /\ UNCHANGED mounts

\* op_open of a new name: the file is made first and stays when the table is full.
OpenNew(b, p, flags) ==
  /\ Receive(b) /\ FlagsOk(flags)
  /\ "create" \in flags /\ ~p.slash
  /\ \E i \in Session(b) :
       LET w == WalkParent(Opened(b)[i], p)
       IN  /\ w.ok /\ w.node = {} /\ ~ReservedIn(w.dir, w.name) /\ WritableDir(w.dir)
           /\ T!CanCreate(TreeOf(w.dir), w.dir[2], w.name)
           /\ LET t == T!AfterCreate(TreeOf(w.dir), w.dir[2], w.name, "file", 0)
                  n == <<w.dir[1], Min(T!FreeInodes(TreeOf(w.dir)))>>
                  os == Follow(Opened(b), mounts[n[1]].vol, t)
              IN  /\ trees' = [trees EXCEPT ![mounts[n[1]].vol] = t]
                  /\ IF FreeSlots(os) = {} THEN objs' = os /\ UNCHANGED <<next_badge, port>>
                     ELSE Hand(os, [Fresh(os, "file") EXCEPT !.node = n, !.flags = flags \ {"trunc"}])
  /\ UNCHANGED mounts

OpDirOpen(b, p) ==
  /\ Receive(b)
  /\ \E i \in Session(b) :
       LET w == Walk(Opened(b)[i], p)
           os == Opened(b)
       IN  /\ w.ok /\ IsDir(w.node) /\ FreeSlots(os) # {}
           /\ Hand(os, Begun([Fresh(os, "dir") EXCEPT !.node = w.node]))
  /\ UNCHANGED <<mounts, trees>>

OpMkdir(b, p) ==
  /\ Receive(b)
  /\ \E i \in Session(b) :
       LET w == WalkParent(Opened(b)[i], p)
       IN  /\ w.ok /\ w.node = {} /\ ~ReservedIn(w.dir, w.name) /\ WritableDir(w.dir)
           /\ T!CanCreate(TreeOf(w.dir), w.dir[2], w.name)
           /\ Change(Opened(b), mounts[w.dir[1]].vol, T!AfterCreate(TreeOf(w.dir), w.dir[2], w.name, "dir", 0))
  /\ UNCHANGED <<mounts, next_badge, port>>

\* walk_change: an existing name that is not a mount point, in a directory that can change
WalkChange(s, p) ==
  LET w == WalkParent(s, p)
  IN  IF w.ok /\ w.node # {} /\ (\A n \in w.node : n[1] = w.dir[1]) /\ WritableDir(w.dir) THEN w ELSE [ok |-> FALSE]

\* op_remove: unlink, or rmdir of an empty directory
OpRemove(b, p, wantDir) ==
  /\ Receive(b)
  /\ \E i \in Session(b) :
       LET w == WalkChange(Opened(b)[i], p)
       IN  /\ w.ok /\ \A n \in w.node : ~Busy(Opened(b), n, FALSE)
           /\ wantDir \/ ~p.slash
           /\ T!CanRemove(TreeOf(w.dir), w.dir[2], w.name, wantDir)
           /\ Change(Opened(b), mounts[w.dir[1]].vol, T!AfterRemove(TreeOf(w.dir), w.dir[2], w.name))
  /\ UNCHANGED <<mounts, next_badge, port>>

\* op_rename: within one mount; a directory moves only when nothing below it is in use.
OpRename(b, p, q) ==
  /\ Receive(b)
  /\ \E i \in Session(b) :
       LET w == WalkChange(Opened(b)[i], p)
           z == WalkParent(Opened(b)[i], q)
       IN  /\ w.ok /\ z.ok /\ w.dir[1] = z.dir[1] /\ ~ReservedIn(z.dir, z.name)
           /\ \A n \in w.node : ~Busy(Opened(b), n, IsDir(n)) /\ (p.slash => IsDir(n))
           /\ T!CanRename(TreeOf(w.dir), w.dir[2], w.name, z.dir[2], z.name)
           /\ Change(Opened(b), mounts[w.dir[1]].vol,
                     T!AfterRename(TreeOf(w.dir), w.dir[2], w.name, z.dir[2], z.name))
  /\ UNCHANGED <<mounts, next_badge, port>>

\* op_cwd, FS_CWD_SET
CwdSet(b, p) ==
  /\ Receive(b)
  /\ \E i \in Session(b) :
       LET w == Walk(Opened(b)[i], p)
       IN  w.ok /\ IsDir(w.node) /\ objs' = [Opened(b) EXCEPT ![i].node = w.node, ![i].path = w.path]
  /\ UNCHANGED <<mounts, trees, next_badge, port>>

\* op_cwd, FS_SESSION_NEW: a session with the same cwd
SessionNew(b) ==
  /\ Receive(b)
  /\ \E i \in Session(b) :
       LET os == Opened(b)
       IN  /\ FreeSlots(os) # {}
           /\ Hand(os, [Fresh(os, "session") EXCEPT !.node = os[i].node, !.path = os[i].path])
  /\ UNCHANGED <<mounts, trees>>

\* dir_op: one entry; an answer with several is several of these with nothing in between.
DirNext(b) ==
  /\ Receive(b)
  /\ \E i \in Listing(b) :
       LET o == objs[i]
       IN  IF DirPeek(o) = {} THEN objs' = [objs EXCEPT ![i].wrong = @ \/ o.owed # {}]
           ELSE \E e \in DirPeek(o) :
                  objs' = [objs EXCEPT ![i] = [o EXCEPT !.phase = e.phase, !.cursor = e.cursor,
                             !.owed = @ \ {e.node}, !.given = @ \cup ({e.node} \cap o.owed),
                             !.wrong = @ \/ e.node \in o.given]]
  /\ UNCHANGED <<mounts, trees, next_badge, port>>

DirRewind(b) ==
  /\ Receive(b)
  /\ \E i \in Listing(b) : objs' = [objs EXCEPT ![i] = Begun(@)]
  /\ UNCHANGED <<mounts, trees, next_badge, port>>

\* stream_op.  A read moves on by what there is; an appending write starts at the end of the file.
SizeOf(o) == IF OnFs2(o.node) THEN Len(TreeOf(o.node)[o.node[2]].data) ELSE 1
StRead(b) ==
  /\ Receive(b)
  /\ \E i \in Stream(b), len \in 1 .. MaxSize :
       /\ objs[i].flags \cap {"read", "exec"} # {}
       /\ objs[i].kind = "file" /\ objs[i].pos < SizeOf(objs[i])
       /\ objs' = [objs EXCEPT ![i].pos = Min({@ + len, SizeOf(objs[i])})]
  /\ UNCHANGED <<mounts, trees, next_badge, port>>

StWrite(b) ==
  /\ Receive(b)
  /\ \E i \in Stream(b), len \in 1 .. MaxSize :
       LET o == objs[i]
           at == IF "append" \in o.flags THEN SizeOf(o) ELSE o.pos
       IN  /\ o.kind = "file" /\ "write" \in o.flags /\ at + len <= MaxSize
           /\ \/ /\ objs' = [objs EXCEPT ![i].pos = at + len]
                 /\ trees' = [trees EXCEPT ![mounts[o.node[1]].vol] =
                                T!AfterWrite(@, o.node[2], at, [k \in 1 .. len |-> 1])]
              \/ objs' = [objs EXCEPT ![i].pos = at] /\ UNCHANGED trees     \* fs2_write fails
  /\ UNCHANGED <<mounts, next_badge, port>>

StSeek(b) ==
  /\ Receive(b)
  /\ \E i \in Stream(b), pos \in 0 .. MaxSize : objs[i].kind = "file" /\ objs' = [objs EXCEPT ![i].pos = pos]
  /\ UNCHANGED <<mounts, trees, next_badge, port>>

StTruncate(b) ==
  /\ Receive(b)
  /\ \E i \in Stream(b), size \in 0 .. MaxSize :
       LET o == objs[i]
       IN  /\ o.kind = "file" /\ "write" \in o.flags
           /\ trees' = [trees EXCEPT ![mounts[o.node[1]].vol] = T!AfterTruncate(@, o.node[2], size)]
  /\ objs' = objs /\ UNCHANGED <<mounts, next_badge, port>>

----------------------------------------------------------------------------
(* Clients and the kernel *)

\* svc_lookup("fs"): a channel with a badge of the kernel
SvcLookup ==
  /\ lookups < MaxLookups
  /\ lookups' = lookups + 1 /\ chans' = chans \cup {MaxBadge + lookups + 1}
  /\ UNCHANGED <<mounts, trees, objs, next_badge, gone, late, revived>>

\* The last handle on a channel is closed; another thread's request may still wait.
Close(b) ==
  /\ b \in chans
  /\ chans' = chans \ {b} /\ gone' = gone \cup {b} /\ late' \in {late, late \cup {b}}
  /\ UNCHANGED <<mounts, trees, objs, next_badge, lookups, revived>>

\* The service takes CLIENT_GONE.
Gone(b) ==
  /\ b \in gone
  /\ gone' = gone \ {b} /\ objs' = ServerGone(objs, b)
  /\ UNCHANGED <<mounts, trees, next_badge, chans, late, lookups, revived>>

Init ==
  /\ \E m \in Machines : mounts = MountAll(m)
  /\ trees = Disks
  /\ objs = [i \in Slots |-> FreeObj] /\ next_badge = 0
  /\ chans = {} /\ gone = {} /\ late = {} /\ lookups = 0 /\ revived = {}

AllBadges == 1 .. MaxBadge + MaxLookups
Request(b, m) ==
  \/ Refused(b)
  \/ "open" \in m.ops /\ \E p \in m.paths, f \in m.flags : OpenFound(b, p, f) \/ OpenNew(b, p, f)
  \/ "list" \in m.ops /\ (DirNext(b) \/ DirRewind(b) \/ \E p \in m.paths : OpDirOpen(b, p))
  \/ "change" \in m.ops /\ \E p \in m.paths : OpMkdir(b, p) \/ \E d \in BOOLEAN : OpRemove(b, p, d)
  \/ "rename" \in m.ops /\ \E p, q \in m.paths : OpRename(b, p, q)
  \/ "cwd" \in m.ops /\ (SessionNew(b) \/ \E p \in m.paths : CwdSet(b, p))
  \/ "data" \in m.ops /\ (StRead(b) \/ StWrite(b) \/ StSeek(b) \/ StTruncate(b))
Next == SvcLookup \/ \E b \in AllBadges : Close(b) \/ Gone(b) \/ Request(b, Menu)
Spec == Init /\ [][Next]_vars

----------------------------------------------------------------------------
(* Properties *)

\* What a client holds on to stays: an open file is a live file, an open directory and a cwd are live
\* directories, and the path a session reports for its cwd leads to it from "/" - whatever others remove
\* or rename, through whichever alias of the volume (busy, and the checks before it).
RefsAreLive ==
  \A i \in LiveObjs(objs) :
    LET o == objs[i]
    IN  /\ o.kind = "file" => TypeOf(o.node) = "file"
        /\ o.kind \in {"dir", "session"} => IsDir(o.node)
        /\ o.kind = "session" => WalkFrom(o, TRUE, o.path) = [ok |-> TRUE, node |-> o.node, path |-> o.path]

\* A listing gives every entry that is there from its beginning to its end, once: entries made, removed
\* and renamed meanwhile, reserved names hidden in "/" and the step to phase 1 do not repeat or lose others.
ListedOnce == \A i \in Slots : ~objs[i].wrong

\* Objects and channels agree: no two objects share a badge, a client's channel made by the service has its
\* object, and an object without a channel has its CLIENT_GONE to come.  The one exception is a session that
\* a late request made again after CLIENT_GONE of its kernel badge: nothing frees it.
ObjectsAreOwned ==
  /\ \A i, j \in LiveObjs(objs) : objs[i].badge = objs[j].badge => i = j
  /\ \A b \in (chans \cup gone) \cap 1 .. MaxBadge : b \in Badges(objs)
  /\ Badges(objs) \subseteq chans \cup gone \cup revived
  /\ \A b \in revived : IsKernelBadge(b) /\ b \notin chans
=============================================================================

----------------------------- MODULE DiskCache -----------------------------
(***************************************************************************)
(* The disk service of Foundation: the read-ahead cache of                   *)
(* services/disk/cache.c and the request loop of services/disk/main.c, over   *)
(* drives whose medium may be changed at any moment and may hold sectors that *)
(* cannot be read or written.                                                *)
(*                                                                         *)
(* The service has one thread and answers one request at a time, but a call   *)
(* of blk_io blocks it, so every such call is a step of its own and the       *)
(* medium may change before it.  A window is its extent, its LRU rank and its  *)
(* sectors; count is the length of data, and what cache.c leaves in an empty   *)
(* window, which it never reads, is not kept.  A drive number that does not    *)
(* exist behaves like a drive that never has a medium.                        *)
(***************************************************************************)
EXTENDS Naturals, Sequences, FiniteSets

CONSTANTS
  Drives, All,    \* drive numbers, and DISK_CACHE_ALL
  Badges,         \* the channels clients call on
  Nobody, Gone,   \* client before the first call, and once that client is gone
  Contents, Bad,  \* what a sector holds; Bad: it cannot be read or written
  Media,          \* the media that may be put into a drive, sequences of sectors
  NWindows,       \* DISK_CACHE_WINDOWS
  CacheSectors,   \* DISK_CACHE_SECTORS
  MaxSectors,     \* DISK_MAX_SECTORS
  MaxLba          \* bound: requests start at 0 .. MaxLba

ASSUME CacheAssumption ==
  /\ All \notin Drives /\ Bad \notin Contents
  /\ Nobody \notin Badges /\ Gone \notin Badges /\ Nobody # Gone
  /\ Media \subseteq Seq(Contents \cup {Bad})
  /\ NWindows \in Nat \ {0} /\ CacheSectors \in Nat /\ MaxLba \in Nat
  /\ MaxSectors \in 1 .. CacheSectors

VARIABLES
  windows,   \* windows[i]: drive, lba, age and data of a window
  capacity,  \* capacity[d]: from IDENTIFY, 0 when unknown
  client,    \* the badge of the only client served
  op,        \* the request in service and how far it is
  reply,     \* the answer to the last request
  disk,      \* disk[d]: the medium in drive d, <<>> when there is none
  changed,   \* changed[d]: the medium was changed since the last IDENTIFY (not in the code)
  served     \* the badges that were answered without an error (not in the code)

vars == <<windows, capacity, client, op, reply, disk, changed, served>>

Index == 1 .. NWindows
Empty == [drive |-> All, lba |-> 0, age |-> 0, data |-> <<>>]
Filled(ws) == {i \in Index : ws[i].data # <<>>}

Request ==
  [kind : {"read"}, drive : Drives, lba : 0 .. MaxLba, count : 1 .. MaxSectors]
    \cup [kind : {"write"}, drive : Drives, lba : 0 .. MaxLba, count : 1 .. MaxSectors, value : Contents]
    \cup [kind : {"identify"}, drive : Drives \cup {All}]
    \cup [kind : {"malformed"}]

Idle == [at |-> "idle"]
NoReply == [ok |-> FALSE, data |-> <<>>]

TypeOK ==
  /\ windows \in [Index -> [drive : Drives \cup {All}, lba : Nat, age : 0 .. NWindows, data : Seq(Contents)]]
  /\ \A i \in Index : Len(windows[i].data) <= CacheSectors
  /\ capacity \in [Drives -> Nat]
  /\ client \in Badges \cup {Nobody, Gone}
  /\ \/ op = Idle
     \/ /\ op.at \in {"asked", "prefetch", "exact", "writing"}
        /\ op.badge \in Badges /\ op.req \in Request /\ op.victim \in Index
  /\ reply.ok \in BOOLEAN /\ reply.data \in Seq(Contents)
  /\ disk \in [Drives -> Seq(Contents \cup {Bad})]
  /\ changed \in [Drives -> BOOLEAN]
  /\ served \subseteq Badges

-----------------------------------------------------------------------------
(* The drive, as blk_io shows it.                                            *)

\* The sectors of a request, as positions of the medium.
Extent(lba, count) == lba + 1 .. lba + count
Readable(d, lba, count) ==
  \A s \in Extent(lba, count) : s <= Len(disk[d]) /\ disk[d][s] # Bad
Sectors(d, lba, count) == SubSeq(disk[d], lba + 1, lba + count)

\* A write stops at the first sector it cannot write.
Written(d, lba, count, value) ==
  [s \in 1 .. Len(disk[d]) |->
     IF s \in Extent(lba, count) /\ \A r \in lba + 1 .. s : disk[d][r] # Bad THEN value ELSE disk[d][s]]

\* The user puts another medium into the drive, or takes it out.
MediaChange(d, medium) ==
  /\ medium # disk[d]
  /\ disk' = [disk EXCEPT ![d] = medium]
  /\ changed' = [changed EXCEPT ![d] = TRUE]
  /\ UNCHANGED <<windows, capacity, client, op, reply, served>>

-----------------------------------------------------------------------------
(* cache.c.                                                                  *)

\* forget, of every window of S: the ranks above each of them move down.
Forget(ws, S) ==
  [i \in Index |->
     IF i \in S THEN Empty
     ELSE [ws[i] EXCEPT !.age = @ - Cardinality({j \in S \cap Filled(ws) : ws[j].age < @})]]

\* disk_cache_drop.
Drop(ws, d) == Forget(ws, {i \in Index : d = All \/ ws[i].drive = d})

\* disk_cache_write: the windows a write to these sectors overlaps.
StartInside(ws, d, lba, count) ==
  {i \in Filled(ws) : ws[i].drive = d /\ lba >= ws[i].lba /\ lba - ws[i].lba < Len(ws[i].data)}
Overlapping(ws, d, lba, count) ==
  {i \in Filled(ws) : /\ ws[i].drive = d
                      /\ IF lba >= ws[i].lba THEN lba - ws[i].lba < Len(ws[i].data)
                                             ELSE ws[i].lba - lba < count}

\* touch: window i becomes the youngest.
Touch(ws, i) ==
  [j \in Index |-> IF j = i THEN [ws[j] EXCEPT !.age = 0]
                   ELSE IF j \in Filled(ws) /\ ws[j].age < ws[i].age THEN [ws[j] EXCEPT !.age = @ + 1]
                   ELSE ws[j]]

\* The windows that hold all of a request, and the one a miss reads into: the last
\* empty one, or else the oldest.
Holding(ws, d, lba, count) ==
  {i \in Filled(ws) : /\ ws[i].drive = d /\ lba >= ws[i].lba /\ count <= Len(ws[i].data)
                      /\ lba - ws[i].lba <= Len(ws[i].data) - count}
FirstOf(S) == CHOOSE i \in S : \A j \in S : i <= j
Victim(ws) == IF Filled(ws) = Index THEN CHOOSE i \in Index : \A j \in Index : ws[j].age <= ws[i].age
              ELSE CHOOSE i \in Index \ Filled(ws) : \A j \in Index \ Filled(ws) : j <= i

\* The sectors a miss fetches: up to a window's worth, inside the known capacity.
Ahead(d, lba) ==
  LET n == IF lba < capacity[d] THEN capacity[d] - lba ELSE 0
  IN  IF n > CacheSectors THEN CacheSectors ELSE n

-----------------------------------------------------------------------------
(* main.c.                                                                   *)

Answer(ok, data) ==
  /\ op' = Idle
  /\ reply' = [ok |-> ok, data |-> data]
  /\ served' = IF ok THEN served \cup {op.badge} ELSE served

\* A request arrives; the first caller becomes the client, and any other badge is
\* refused.
Receive(b, req) ==
  /\ op = Idle
  /\ client' = IF client = Nobody THEN b ELSE client
  /\ IF client' = b THEN op' = [at |-> "asked", badge |-> b, req |-> req, victim |-> NWindows] ELSE UNCHANGED op
  /\ reply' = NoReply
  /\ UNCHANGED <<windows, capacity, disk, changed, served>>

ClientGoneFrees == Nobody
AfterTheClient == Gone
ClientGone(b) ==
  /\ op = Idle
  /\ client' = IF client = b THEN AfterTheClient ELSE client
  /\ UNCHANGED <<windows, capacity, op, reply, disk, changed, served>>

Asked(kind) == op.at = "asked" /\ op.req.kind = kind

\* IDENTIFY, which the device may refuse: the capacity is taken over and the windows
\* of the drive go.
Identify ==
  LET d == op.req.drive IN
  /\ Asked("identify")
  /\ \E ok \in IF d = All THEN {FALSE} ELSE BOOLEAN :
       /\ capacity' = [c \in Drives |-> IF c # d THEN capacity[c] ELSE IF ok THEN Len(disk[d]) ELSE 0]
       /\ Answer(ok, <<>>)
  /\ changed' = [c \in Drives |-> c # d /\ changed[c]]
  /\ windows' = Drop(windows, d)
  /\ UNCHANGED <<client, disk>>

\* A read or write with bad arguments is an error like any other.
Malformed ==
  /\ Asked("malformed")
  /\ Answer(FALSE, <<>>)
  /\ windows' = Drop(windows, All)
  /\ UNCHANGED <<capacity, client, disk, changed>>

\* Where a hit starts in the data of its window.
AtItsStart(w, lba) == 0
Offset(w, lba) == lba - w.lba

\* disk_cache_read finds all sectors in one window.
ReadHit ==
  LET req == op.req
      S == Holding(windows, req.drive, req.lba, req.count)
      i == FirstOf(S)
      at == Offset(windows[i], req.lba)
  IN
  /\ Asked("read") /\ S # {}
  /\ windows' = Touch(windows, i)
  /\ Answer(TRUE, SubSeq(windows[i].data, at + 1, at + req.count))
  /\ UNCHANGED <<capacity, client, disk, changed>>

\* ... or it does not: the victim is given up before anything is read into it.
ReadMiss ==
  LET req == op.req IN
  /\ Asked("read") /\ Holding(windows, req.drive, req.lba, req.count) = {}
  /\ windows' = Forget(windows, {Victim(windows)})
  /\ op' = [op EXCEPT !.at = IF Ahead(req.drive, req.lba) < req.count THEN "exact" ELSE "prefetch",
                      !.victim = Victim(windows)]
  /\ UNCHANGED <<capacity, client, reply, disk, changed, served>>

\* Sectors that could not be read ahead are no error of the request.
Fails == Answer(FALSE, <<>>)
TryExact == op' = [op EXCEPT !.at = "exact"] /\ UNCHANGED <<reply, served>>

Prefetch ==
  LET d == op.req.drive
      lba == op.req.lba
      n == Ahead(d, lba)
      filled == [windows EXCEPT ![op.victim] =
                   [drive |-> d, lba |-> lba, age |-> NWindows, data |-> Sectors(d, lba, n)]]
  IN
  /\ op.at = "prefetch"
  /\ \/ /\ Readable(d, lba, n)
        /\ windows' = Touch(filled, op.victim)
        /\ Answer(TRUE, Sectors(d, lba, op.req.count))
     \/ /\ ~Readable(d, lba, n)
        /\ windows' = Drop(windows, All)
        /\ TryExact
  /\ UNCHANGED <<capacity, client, disk, changed>>

ExactRead ==
  LET d == op.req.drive
      lba == op.req.lba
      ok == Readable(d, lba, op.req.count)
  IN
  /\ op.at = "exact"
  /\ windows' = IF ok THEN windows ELSE Drop(windows, All)
  /\ Answer(ok, IF ok THEN Sectors(d, lba, op.req.count) ELSE <<>>)
  /\ UNCHANGED <<capacity, client, disk, changed>>

\* A write goes to the drive at once, after every window it overlaps has gone.
WriteBegin ==
  /\ Asked("write")
  /\ windows' = Forget(windows, Overlapping(windows, op.req.drive, op.req.lba, op.req.count))
  /\ op' = [op EXCEPT !.at = "writing"]
  /\ UNCHANGED <<capacity, client, reply, disk, changed, served>>

WriteEnd ==
  LET d == op.req.drive
      ok == Readable(d, op.req.lba, op.req.count)
  IN
  /\ op.at = "writing"
  /\ disk' = [disk EXCEPT ![d] = IF op.req.lba + op.req.count <= Len(@)
                                 THEN Written(d, op.req.lba, op.req.count, op.req.value) ELSE @]
  /\ windows' = IF ok THEN windows ELSE Drop(windows, All)
  /\ Answer(ok, <<>>)
  /\ UNCHANGED <<capacity, client, changed>>

-----------------------------------------------------------------------------

Init ==
  /\ windows = [i \in Index |-> Empty]
  /\ capacity = [d \in Drives |-> 0]
  /\ client = Nobody
  /\ op = Idle /\ reply = NoReply
  /\ disk \in [Drives -> Media]
  /\ changed = [d \in Drives |-> FALSE]
  /\ served = {}

Next ==
  \/ \E d \in Drives, medium \in Media : MediaChange(d, medium)
  \/ \E b \in Badges : ClientGone(b) \/ \E req \in Request : Receive(b, req)
  \/ Identify \/ Malformed \/ ReadHit \/ ReadMiss \/ Prefetch \/ ExactRead \/ WriteBegin \/ WriteEnd

Spec == Init /\ [][Next]_vars

-----------------------------------------------------------------------------
(* Properties.                                                               *)

\* The ages of the windows in use are the ranks 0, 1, ... without a gap or a tie, so
\* that "oldest" always names one window (forget and touch, cache.c:9, 35).
AgesAreRanks ==
  {windows[i].age : i \in Filled(windows)} = {n \in 0 .. NWindows : n < Cardinality(Filled(windows))}

OnMedium(medium, lba, data) ==
  \A k \in 1 .. Len(data) : lba + k <= Len(medium) /\ data[k] = medium[lba + k]

\* A window holds what is on the drive, also when windows overlap and while a write is
\* on its way, unless the medium was changed behind the service's back and no
\* IDENTIFY has followed (disk_cache_write, cache.c:24; main.c:81, 96).
Coherent ==
  \A i \in Filled(windows) :
    LET w == windows[i] IN
    ~changed[w.drive] => OnMedium(disk[w.drive], w.lba, w.data)

\* Raw sectors reach one client only, also when that client is gone and others call
\* (main.c:62-73).
OneClientServed == Cardinality(served) <= 1

\* A read is answered with exactly the sectors asked for, as they are on the drive,
\* whichever window they come from (disk_cache_read, cache.c:43).
ReadsTheDrive ==
  [][op # Idle /\ op' = Idle /\ op.req.kind = "read" /\ reply'.ok /\ ~changed[op.req.drive]
       => Len(reply'.data) = op.req.count /\ OnMedium(disk[op.req.drive], op.req.lba, reply'.data)]_vars

\* A read of good sectors succeeds although a sector after them is bad and the
\* reading ahead failed (cache.c:67-71).
GoodSectorsAreRead ==
  [][op # Idle /\ op' = Idle /\ op.req.kind = "read"
       /\ Readable(op.req.drive, op.req.lba, op.req.count) => reply'.ok]_vars

\* The table of windows is ranked without ties, and the service keeps to its one client.
CacheInv == TypeOK /\ AgesAreRanks /\ OneClientServed
=============================================================================

------------------------------ MODULE MmArena -------------------------------
(***************************************************************************)
(* The nommu backend of src/foundation/kernel/mm.c, and mm_init, which picks    *)
(* one of the two backends when the machine starts.                            *)
(*                                                                         *)
(* Without Extension V a process has one run of pages (its arena) from the same  *)
(* pool, and the CPU keeps it inside by protection regions.  Region 1 of a       *)
(* process is its image; mem_grow extends it, or adds a region for the heap, and  *)
(* takes the free pages above the arena when the arena is full.                 *)
(***************************************************************************)
EXTENDS Mm

CONSTANTS
  NRegions,      \* FND_REGIONS
  NArena,        \* pool_frames of the machine without V (a bound of its own: 1 .. NArena of Frames)
  MaxArena       \* bound: pages of an arena when it is allocated

ASSUME ArenaAssumption == NRegions \in Nat \ {0} /\ NArena \in 1 .. NFrames /\ MaxArena \in Nat \ {0}

VARIABLES
  mm_vm,     \* the backend in use
  arena,     \* the processes of nommu: their pages, regions, heap
  cpu        \* the protection regions of the CPU, and how many are active_regions

avars == <<arena, cpu>>
allVars == <<vars, mm_vm, avars>>

Off == [start |-> 0, end |-> 0, on |-> FALSE]
NoArena == [live |-> FALSE, lo |-> 0, hi |-> 0, regions |-> <<>>, heapEnd |-> 0, limit |-> 0, heapRegion |-> 0]

----------------------------------------------------------------------------
(* The arena allocator; a range is the pages lo .. hi - 1 *)

RangeFree(lo, hi) == lo >= 1 /\ lo < hi /\ hi <= NArena + 1 /\ \A f \in lo .. hi - 1 : mm.refs[f] = 0
RangeTake(m, lo, hi) ==
  [m EXCEPT !.refs = [f \in Frames |-> IF f \in lo .. hi - 1 THEN 1 ELSE @[f]], !.free = @ - (hi - lo)]

\* mm_arena_alloc: the lowest free run of n pages
FreeRuns(n) == {lo \in 1 .. NArena : RangeFree(lo, lo + n)}

\* mm_arena_free
RangeReturn(m, lo, hi) ==
  LET taken == {f \in lo .. hi - 1 : m.refs[f] # 0}
  IN  IF lo < 1 \/ hi <= lo THEN m
      ELSE [m EXCEPT !.refs = [f \in Frames |-> IF f \in taken THEN 0 ELSE @[f]], !.free = @ + Cardinality(taken)]

----------------------------------------------------------------------------
(* The protection regions *)

\* slot_activate: the regions of p, and off those the previous process had beyond them
SlotActivateOnly(a) ==
  [n |-> Len(a.regions),
   r |-> [i \in 1 .. NRegions |->
            IF i <= Len(a.regions) THEN [start |-> a.regions[i].start, end |-> a.regions[i].end, on |-> TRUE]
            ELSE cpu.r[i]]]
SlotActivate(a) ==
  [n |-> Len(a.regions),
   r |-> [i \in 1 .. NRegions |->
            IF i <= Len(a.regions) THEN [start |-> a.regions[i].start, end |-> a.regions[i].end, on |-> TRUE]
            ELSE IF i <= cpu.n THEN [cpu.r[i] EXCEPT !.on = FALSE] ELSE cpu.r[i]]]
\* slot_release
SlotRelease == [n |-> 0, r |-> [i \in 1 .. NRegions |-> IF i <= cpu.n THEN [cpu.r[i] EXCEPT !.on = FALSE] ELSE cpu.r[i]]]

----------------------------------------------------------------------------
(* Processes *)

Zeroed(m, lo, hi) == [m EXCEPT !.data = [f \in Frames |-> IF f \in lo .. hi - 1 THEN 0 ELSE @[f]]]

\* plan_arena and spawn_image: lo and n come from the image (mm_arena_claim) or the allocator, the image
\* takes the first k pages as one region; too many regions, or no thread record free: the arena goes back.
ArenaSpawn(p, fixed, lo, n, k, joins, thread) ==
  /\ ~mm_vm /\ ~arena[p].live
  /\ RangeFree(lo, lo + n) /\ (~fixed => lo = Min(FreeRuns(n)) /\ n <= mm.free)
  /\ IF thread
     THEN /\ mm' = RangeTake(mm, lo, lo + n)
          /\ arena' = [arena EXCEPT ![p] =
               [live |-> TRUE, lo |-> lo, hi |-> lo + n, heapEnd |-> lo + k, limit |-> lo + n,
                regions |-> <<[start |-> lo, end |-> lo + k]>>, heapRegion |-> IF joins THEN 1 ELSE 0]]
     ELSE mm' = RangeReturn(RangeTake(mm, lo, lo + n), lo, lo + n) /\ UNCHANGED arena
  /\ UNCHANGED <<cpu, active>>

\* proc_mem_grow by n pages
ArenaGrow(p, n) ==
  LET a    == arena[p]
      want == a.heapEnd + n
      more == want > a.limit
      full == a.heapRegion = 0 /\ Len(a.regions) = NRegions
      m    == IF more THEN RangeTake(mm, a.hi, want) ELSE mm
      b    == IF more THEN [a EXCEPT !.hi = want, !.limit = want] ELSE a
      r    == IF a.heapRegion = 0 THEN Len(a.regions) + 1 ELSE a.heapRegion
      old  == IF a.heapRegion = 0 THEN Append(a.regions, [start |-> a.heapEnd, end |-> a.heapEnd]) ELSE a.regions
      grown == [b EXCEPT !.regions = [old EXCEPT ![r].end = want], !.heapRegion = r, !.heapEnd = want]
  IN  /\ ~mm_vm /\ a.live /\ active = p
      /\ more => a.limit = a.hi /\ RangeFree(a.hi, want)
      /\ IF full THEN mm' = m /\ arena' = [arena EXCEPT ![p] = b] /\ UNCHANGED cpu
         ELSE /\ mm' = Zeroed(m, old[r].end, want) /\ arena' = [arena EXCEPT ![p] = grown]
              /\ cpu' = SlotActivate(grown)
      /\ UNCHANGED active

\* proc_exit: the owned ranges are zeroed, then the arena is free.
ZeroRegions(m, a) ==
  [m EXCEPT !.data = [f \in Frames |-> IF \E i \in DOMAIN a.regions : f \in a.regions[i].start .. a.regions[i].end - 1
                                       THEN 0 ELSE @[f]]]
ArenaExit(p) ==
  /\ ~mm_vm /\ arena[p].live
  /\ cpu' = IF active = p THEN SlotRelease ELSE cpu
  /\ active' = IF active = p THEN Nobody ELSE active
  /\ mm' = RangeReturn(ZeroRegions(mm, arena[p]), arena[p].lo, arena[p].hi)
  /\ arena' = [arena EXCEPT ![p] = NoArena]

\* proc_activate
ArenaActivate(p) ==
  /\ ~mm_vm /\ arena[p].live /\ active # p
  /\ active' = p /\ cpu' = SlotActivate(arena[p])
  /\ UNCHANGED <<mm, arena>>

\* A store in user mode to page f, which a region must allow
ArenaStore(p, f, v) ==
  /\ ~mm_vm /\ arena[p].live /\ active = p
  /\ \E i \in 1 .. NRegions : cpu.r[i].on /\ f \in cpu.r[i].start .. cpu.r[i].end - 1
  /\ mm' = [mm EXCEPT !.data[f] = v]
  /\ UNCHANGED <<arena, cpu, active>>

----------------------------------------------------------------------------
\* mm_init: Extension V selects the backend; only vm keeps frames for DMA.
MmInit ==
  /\ mm_vm \in BOOLEAN
  /\ IF mm_vm THEN Init
     ELSE /\ mm = [refs |-> [f \in Frames |-> 0], free |-> NArena, data |-> [f \in Frames |-> 0],
                   space |-> [p \in Procs |-> EmptySpace]]
          /\ live = [p \in Procs |-> NoProc] /\ active = Nobody /\ tlb = {} /\ checked = {}
  /\ arena = [p \in Procs |-> NoArena]
  /\ cpu = [n |-> 0, r |-> [i \in 1 .. NRegions |-> Off]]

ArenaNext ==
  /\ UNCHANGED <<live, tlb, checked>>
  /\ \E p \in Procs :
       \/ \E fixed, joins, thread \in BOOLEAN, lo \in 1 .. NArena, n \in 1 .. MaxArena, k \in 1 .. MaxArena :
            k <= n /\ ArenaSpawn(p, fixed, lo, n, k, joins, thread)
       \/ \E n \in 1 .. MaxArena : ArenaGrow(p, n)
       \/ ArenaExit(p) \/ ArenaActivate(p)
       \/ \E f \in 1 .. NArena, v \in Vals : ArenaStore(p, f, v)

MmNext ==
  /\ UNCHANGED mm_vm
  /\ \/ mm_vm /\ Next /\ UNCHANGED avars
     \/ ~mm_vm /\ ArenaNext

MmSpec == MmInit /\ [][MmNext]_allVars

----------------------------------------------------------------------------
(* Properties *)

\* The pool is exact under both backends; without V, a page is taken exactly when it lies in the arena
\* of one process.
PoolExact ==
  IF mm_vm THEN FramesExact
  ELSE /\ \A f \in Frames :
            mm.refs[f] = Cardinality({p \in Procs : arena[p].live /\ f \in arena[p].lo .. arena[p].hi - 1})
       /\ \A f \in Frames : mm.refs[f] <= 1
       /\ mm.free = Cardinality({f \in 1 .. NArena : mm.refs[f] = 0})

\* While a process runs the CPU lets it reach its own regions and nothing else, all inside its arena,
\* although a switch turns off only the regions the previous process had beyond the new ones.
RegionsAreOwn ==
  ~mm_vm /\ active # Nobody =>
    LET on == {i \in 1 .. NRegions : cpu.r[i].on}
        a  == arena[active]
    IN  /\ on = DOMAIN a.regions
        /\ \A i \in on : /\ cpu.r[i].start = a.regions[i].start /\ cpu.r[i].end = a.regions[i].end
                         /\ a.lo <= a.regions[i].start /\ a.regions[i].end <= a.hi

\* A free page is zero (mm.h: "Free pages are zero"), so no process finds what another left: all that a
\* process could write is inside the regions that proc_exit zeroes.
FreePagesAreZero == ~mm_vm => \A f \in Frames : mm.refs[f] = 0 => mm.data[f] = 0

\* Processes of one address space are kept apart by the regions, and in time by zeroed pages.
ArenasArePrivate == RegionsAreOwn /\ FreePagesAreZero
=============================================================================

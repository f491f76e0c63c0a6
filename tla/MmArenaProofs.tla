---------------------------- MODULE MmArenaProofs ----------------------------
(***************************************************************************)
(* Proofs about MmArena, the backend without Extension V: the protection        *)
(* regions keep a process inside its own arena, and a free page is zero, for      *)
(* any number of processes, pages and regions.                                    *)
(***************************************************************************)
EXTENDS MmArena, Integers, FiniteSetTheorems, SequenceTheorems, TLAPS

Addr == 0 .. NArena + 1
Region == [start : Addr, end : Addr]
Arena == [live : BOOLEAN, lo : Addr, hi : Addr, regions : Seq(Region), heapEnd : Addr, limit : Addr, heapRegion : Nat]
CpuRegion == [start : Addr, end : Addr, on : BOOLEAN]

IsPool(m) == m = [refs |-> m.refs, free |-> m.free, data |-> m.data, space |-> m.space]
PoolT  == IsPool(mm) /\ mm.refs \in [Frames -> Nat] /\ mm.data \in [Frames -> Vals]
ArenaT == arena \in [Procs -> Arena]
CpuT   == cpu \in [n : 0 .. NRegions, r : [1 .. NRegions -> CpuRegion]]
Types  == PoolT /\ ArenaT /\ CpuT /\ active \in Procs \cup {Nobody}

\* The pages of process p, and those its regions let it reach.
Own(A, p) == A[p].lo .. A[p].hi - 1
Span(r) == r.start .. r.end - 1
Reach(A, p) == UNION {Span(A[p].regions[i]) : i \in 1 .. Len(A[p].regions)}

\* An arena is a run of pages with its heap and its regions inside.
Shaped(a) ==
  /\ 1 <= a.lo /\ a.lo < a.hi /\ a.limit = a.hi /\ a.lo <= a.heapEnd /\ a.heapEnd <= a.hi
  /\ Len(a.regions) \in 1 .. NRegions /\ a.heapRegion \in 0 .. Len(a.regions)
  /\ a.heapRegion # 0 => a.regions[a.heapRegion].end <= a.heapEnd
  /\ \A i \in 1 .. Len(a.regions) : a.lo <= a.regions[i].start /\ a.regions[i].end <= a.hi
ArenasShaped == \A p \in Procs : arena[p].live => Shaped(arena[p])

\* No two processes hold a page, and a page is counted once exactly when a process holds it.
Apart == \A p, q \in Procs, f \in Frames :
           arena[p].live /\ arena[q].live /\ f \in Own(arena, p) /\ f \in Own(arena, q) => p = q
Held(f) == \E p \in Procs : arena[p].live /\ f \in Own(arena, p)
CountedOnce == \A f \in Frames : mm.refs[f] = IF Held(f) THEN 1 ELSE 0

\* A page that is not zero is in a region of a process.
DirtyIsReached == \A f \in Frames : mm.data[f] # 0 => \E p \in Procs : arena[p].live /\ f \in Reach(arena, p)

\* The CPU's active regions are the running process's, in order, and no other is on.
CpuFollows ==
  /\ \A i \in 1 .. NRegions : cpu.r[i].on => i <= cpu.n
  /\ active # Nobody =>
       /\ arena[active].live /\ cpu.n = Len(arena[active].regions)
       /\ \A i \in 1 .. cpu.n : cpu.r[i].on /\ cpu.r[i].start = arena[active].regions[i].start
                                /\ cpu.r[i].end = arena[active].regions[i].end

AInv == Types /\ ArenasShaped /\ Apart /\ CountedOnce /\ DirtyIsReached /\ CpuFollows

----------------------------------------------------------------------------
(* The first state *)

LEMMA ArenaInit == MmInit /\ ~mm_vm => AInv
<1> SUFFICES ASSUME MmInit, ~mm_vm PROVE AInv
  OBVIOUS
<1> USE MmAssumption, ArenaAssumption
<1>1. Types
  <2>1. PoolT
    BY DEF MmInit, PoolT, IsPool
  <2>2. NoArena \in Arena
    BY DEF NoArena, Arena, Addr
  <2>3. ArenaT
    BY <2>2 DEF MmInit, ArenaT
  <2>4. Off \in CpuRegion
    BY DEF Off, CpuRegion, Addr
  <2>5. CpuT
    BY <2>4 DEF MmInit, CpuT
  <2> QED
    BY <2>1, <2>3, <2>5 DEF MmInit, Types
<1>2. \A p \in Procs : ~arena[p].live
  BY DEF MmInit, NoArena
<1>3. ArenasShaped /\ Apart /\ CountedOnce
  BY <1>2 DEF MmInit, ArenasShaped, Apart, CountedOnce, Held
<1>4. DirtyIsReached /\ CpuFollows
  BY DEF MmInit, DirtyIsReached, CpuFollows, Off
<1> QED
  BY <1>1, <1>3, <1>4 DEF AInv

----------------------------------------------------------------------------
(* What an action does to the pool *)

\* A pool that takes or returns pages keeps its shape, and its data.
LEMMA TakenPool ==
  ASSUME PoolT, NEW lo, NEW hi
  PROVE  LET m == RangeTake(mm, lo, hi)
         IN  /\ IsPool(m)
             /\ m.data = mm.data
             /\ m.refs = [f \in Frames |-> IF f \in lo .. hi - 1 THEN 1 ELSE mm.refs[f]]
<1> DEFINE taken == [f \in Frames |-> IF f \in lo .. hi - 1 THEN 1 ELSE mm.refs[f]]
<1>1. RangeTake(mm, lo, hi) = [mm EXCEPT !.refs = taken, !.free = @ - (hi - lo)]
  BY DEF RangeTake
<1> HIDE DEF taken
<1>2. RangeTake(mm, lo, hi) = [refs |-> taken, free |-> mm.free - (hi - lo), data |-> mm.data, space |-> mm.space]
  BY <1>1 DEF PoolT, IsPool
<1>3. QED
  BY <1>2 DEF taken, IsPool

LEMMA ReturnedPool ==
  ASSUME NEW m, IsPool(m), m.refs \in [Frames -> Nat],
         NEW lo \in Nat, NEW hi \in Nat, 1 <= lo, lo < hi
  PROVE  LET n == RangeReturn(m, lo, hi)
         IN  /\ IsPool(n)
             /\ n.data = m.data
             /\ n.refs = [f \in Frames |-> IF f \in lo .. hi - 1 THEN 0 ELSE m.refs[f]]
<1> DEFINE taken == {f \in lo .. hi - 1 : m.refs[f] # 0}
<1>1. RangeReturn(m, lo, hi) =
        [m EXCEPT !.refs = [f \in Frames |-> IF f \in taken THEN 0 ELSE m.refs[f]], !.free = @ + Cardinality(taken)]
  BY DEF RangeReturn
<1>2. [f \in Frames |-> IF f \in taken THEN 0 ELSE m.refs[f]] = [f \in Frames |-> IF f \in lo .. hi - 1 THEN 0 ELSE m.refs[f]]
  OBVIOUS
<1> HIDE DEF taken
<1> QED
  BY <1>1, <1>2 DEF IsPool

\* A process whose arena is new, or has grown over free pages.
LEMMA NewArena ==
  ASSUME AInv, NEW p \in Procs, NEW b \in Arena, b.live, Shaped(b), arena' = [arena EXCEPT ![p] = b],
         \A f \in Frames : f \in b.lo .. b.hi - 1 => mm.refs[f] = 0 \/ (arena[p].live /\ f \in Own(arena, p)),
         arena[p].live => Own(arena, p) \subseteq b.lo .. b.hi - 1,
         mm'.refs = [f \in Frames |-> IF f \in b.lo .. b.hi - 1 THEN 1 ELSE mm.refs[f]]
  PROVE  ArenaT' /\ ArenasShaped' /\ Apart' /\ CountedOnce'
<1>1. ArenaT'
  BY DEF AInv, Types, ArenaT
<1>2. arena'[p] = b /\ \A q \in Procs \ {p} : arena'[q] = arena[q]
  BY DEF AInv, Types, ArenaT
<1>3. ArenasShaped'
  BY <1>2 DEF AInv, ArenasShaped
<1>4. ASSUME NEW q \in Procs, q # p, arena[q].live, NEW f \in Frames, f \in Own(arena, q) PROVE f \notin b.lo .. b.hi - 1
  <2>1. mm.refs[f] = 1
    BY <1>4 DEF AInv, CountedOnce, Held
  <2>2. ~(arena[p].live /\ f \in Own(arena, p))
    BY <1>4 DEF AInv, Apart
  <2> QED
    BY <2>1, <2>2
<1>5. Apart'
  BY <1>2, <1>4 DEF AInv, Apart, Own
<1>6. CountedOnce'
  <2> SUFFICES ASSUME NEW f \in Frames PROVE mm'.refs[f] = IF Held(f)' THEN 1 ELSE 0
    BY DEF CountedOnce
  <2>1. CASE f \in b.lo .. b.hi - 1
    BY <1>2, <2>1 DEF Held, Own
  <2>2. CASE f \notin b.lo .. b.hi - 1
    <3>1. Held(f)' <=> Held(f)
      BY <1>2, <2>2 DEF Held, Own
    <3> QED
      BY <2>2, <3>1 DEF AInv, CountedOnce
  <2> QED
    BY <2>1, <2>2
<1> QED
  BY <1>1, <1>3, <1>5, <1>6

\* slot_activate puts exactly the regions of the process into the CPU.
LEMMA ActivateFollows ==
  ASSUME AInv, NEW a \in Arena, Len(a.regions) <= NRegions, cpu' = SlotActivate(a),
         active' = active \/ active' \in Procs, active' # Nobody => arena'[active'] = a, a.live
  PROVE  CpuT' /\ CpuFollows'
<1> DEFINE r2 == [i \in 1 .. NRegions |->
            IF i <= Len(a.regions) THEN [start |-> a.regions[i].start, end |-> a.regions[i].end, on |-> TRUE]
            ELSE IF i <= cpu.n THEN [cpu.r[i] EXCEPT !.on = FALSE] ELSE cpu.r[i]]
<1>1. cpu' = [n |-> Len(a.regions), r |-> r2]
  BY DEF SlotActivate
<1>2. Len(a.regions) \in 0 .. NRegions /\ \A i \in 1 .. Len(a.regions) : a.regions[i] \in Region
  BY LenProperties, ElementOfSeq, ArenaAssumption DEF Arena
<1>3. cpu.n \in 0 .. NRegions /\ \A i \in 1 .. NRegions : cpu.r[i] \in CpuRegion
  BY DEF AInv, Types, CpuT
<1>4. \A i \in 1 .. NRegions : r2[i] \in CpuRegion
  <2> SUFFICES ASSUME NEW i \in 1 .. NRegions PROVE r2[i] \in CpuRegion
    OBVIOUS
  <2>1. CASE i <= Len(a.regions)
    <3>1. a.regions[i] \in Region
      BY <1>2, <2>1
    <3> QED
      BY <2>1, <3>1 DEF Region, CpuRegion
  <2>2. CASE ~(i <= Len(a.regions))
    <3>1. cpu.r[i] \in CpuRegion /\ [cpu.r[i] EXCEPT !.on = FALSE] \in CpuRegion
      BY <1>3 DEF CpuRegion
    <3> QED
      BY <2>2, <3>1
  <2> QED
    BY <2>1, <2>2
<1>5. CpuT'
  BY <1>1, <1>2, <1>4 DEF CpuT
<1>6. \A i \in 1 .. NRegions : r2[i].on => i <= Len(a.regions)
  BY <1>2, <1>3 DEF AInv, CpuFollows, CpuRegion
<1>7. \A i \in 1 .. Len(a.regions) : r2[i].on /\ r2[i].start = a.regions[i].start /\ r2[i].end = a.regions[i].end
  <2> SUFFICES ASSUME NEW i \in 1 .. Len(a.regions)
               PROVE  r2[i].on /\ r2[i].start = a.regions[i].start /\ r2[i].end = a.regions[i].end
    OBVIOUS
  <2>1. i \in 1 .. NRegions /\ i <= Len(a.regions)
    BY <1>2, ArenaAssumption
  <2> QED
    BY <2>1
<1> HIDE DEF r2
<1>8. CpuFollows'
  BY <1>1, <1>6, <1>7 DEF CpuFollows
<1> QED
  BY <1>5, <1>8

----------------------------------------------------------------------------
(* The actions *)

\* plan_arena takes a free run, and gives it back when no thread can be had.
LEMMA SpawnStep ==
  ASSUME AInv, NEW p \in Procs, NEW fixed, NEW joins, NEW thread \in BOOLEAN, NEW lo \in 1 .. NArena,
         NEW n \in 1 .. MaxArena, NEW k \in 1 .. MaxArena, k <= n, ArenaSpawn(p, fixed, lo, n, k, joins, thread)
  PROVE  AInv'
<1> USE MmAssumption, ArenaAssumption
<1> DEFINE hi == lo + n
           m == RangeTake(mm, lo, hi)
<1>1. /\ ~arena[p].live /\ RangeFree(lo, hi) /\ UNCHANGED <<cpu, active>>
      /\ lo \in Nat /\ hi \in Nat /\ 1 <= lo /\ lo < hi /\ hi <= NArena + 1 /\ lo + k \in Nat /\ lo + k <= hi
  BY DEF ArenaSpawn, RangeFree
<1>2. \A f \in Frames : f \in lo .. hi - 1 => mm.refs[f] = 0
  BY <1>1 DEF RangeFree
<1>3. /\ IsPool(m) /\ m.data = mm.data
      /\ m.refs = [f \in Frames |-> IF f \in lo .. hi - 1 THEN 1 ELSE mm.refs[f]]
  BY TakenPool DEF AInv, Types
<1>4. mm.refs \in [Frames -> Nat] /\ mm.data \in [Frames -> Vals] /\ m.refs \in [Frames -> Nat]
  BY <1>3 DEF AInv, Types, PoolT
<1> HIDE DEF m
<1>5. CASE thread
  <2> DEFINE b == [live |-> TRUE, lo |-> lo, hi |-> hi, heapEnd |-> lo + k, limit |-> hi,
                   regions |-> <<[start |-> lo, end |-> lo + k]>>, heapRegion |-> IF joins THEN 1 ELSE 0]
  <2>1. mm' = m /\ arena' = [arena EXCEPT ![p] = b]
    BY <1>5 DEF ArenaSpawn, m
  <2>2. [start |-> lo, end |-> lo + k] \in Region /\ hi \in Addr /\ lo \in Addr /\ lo + k \in Addr
    BY <1>1 DEF Region, Addr
  <2>3. b \in Arena /\ b.live
    BY <2>2 DEF Arena
  <2>4. Shaped(b)
    <3>1. b.lo = lo /\ b.hi = hi /\ b.limit = hi /\ b.heapEnd = lo + k /\ b.heapRegion \in 0 .. 1
      OBVIOUS
    <3>2. Len(b.regions) = 1 /\ b.regions[1].start = lo /\ b.regions[1].end = lo + k
      OBVIOUS
    <3> HIDE DEF b
    <3> QED
      BY <1>1, <3>1, <3>2 DEF Shaped
  <2>5. b.lo = lo /\ b.hi = hi
    OBVIOUS
  <2> HIDE DEF b
  <2>6. ArenaT' /\ ArenasShaped' /\ Apart' /\ CountedOnce'
    BY <1>1, <1>2, <1>3, <2>1, <2>3, <2>4, <2>5, NewArena, ZenonT(60)
  <2>7. PoolT'
    BY <1>3, <1>4, <2>1 DEF PoolT
  <2>8. arena \in [Procs -> Arena] /\ arena'[p] = b /\ \A q \in Procs \ {p} : arena'[q] = arena[q]
    BY <2>1 DEF AInv, Types, ArenaT
  <2>9. DirtyIsReached'
    <3>1. \A q \in Procs : arena[q].live => arena'[q].live /\ Reach(arena', q) = Reach(arena, q)
      BY <1>1, <2>8 DEF Reach
    <3> QED
      BY <1>3, <2>1, <3>1 DEF AInv, DirtyIsReached
  <2>10. CpuFollows'
    BY <1>1, <2>8 DEF AInv, Types, CpuFollows
  <2> QED
    BY <1>1, <2>6, <2>7, <2>9, <2>10 DEF AInv, Types, CpuT
<1>6. CASE ~thread
  <2>1. mm' = RangeReturn(m, lo, hi) /\ UNCHANGED arena
    BY <1>6 DEF ArenaSpawn, m
  <2>2. /\ IsPool(mm')
        /\ mm'.data = mm.data /\ mm'.refs = [f \in Frames |-> IF f \in lo .. hi - 1 THEN 0 ELSE m.refs[f]]
    <3> HIDE DEF hi
    <3>1. lo \in Nat /\ hi \in Nat /\ 1 <= lo /\ lo < hi /\ IsPool(m) /\ m.refs \in [Frames -> Nat]
      BY <1>1, <1>3, <1>4
    <3>2. LET r == RangeReturn(m, lo, hi)
          IN  /\ IsPool(r) /\ r.data = m.data
              /\ r.refs = [f \in Frames |-> IF f \in lo .. hi - 1 THEN 0 ELSE m.refs[f]]
      BY ONLY <3>1, ReturnedPool
    <3> QED
      BY <1>3, <2>1, <3>2
  <2>3. mm'.refs = mm.refs
    BY <1>2, <1>3, <1>4, <2>2
  <2>4. PoolT'
    BY <1>4, <2>2, <2>3 DEF PoolT
  <2>5. ArenaT' /\ ArenasShaped' /\ CpuFollows'
    BY <1>1, <2>1 DEF AInv, Types, ArenaT, ArenasShaped, CpuFollows
  <2>6. Apart' /\ CountedOnce'
    BY <2>1, <2>3 DEF AInv, Apart, CountedOnce, Held, Own
  <2>7. DirtyIsReached'
    <3>1. \A q \in Procs : Reach(arena', q) = Reach(arena, q)
      BY <2>1 DEF Reach
    <3> QED
      BY <2>1, <2>2, <3>1 DEF AInv, DirtyIsReached
  <2> QED
    BY <1>1, <2>4, <2>5, <2>6, <2>7 DEF AInv, Types, CpuT
<1> QED
  BY <1>5, <1>6

\* A process that ends leaves zeroed pages, and the CPU without regions when it ran.
LEMMA ExitStep ==
  ASSUME AInv, NEW p \in Procs, ArenaExit(p)
  PROVE  AInv'
<1> USE MmAssumption, ArenaAssumption
<1> DEFINE a == arena[p]
           z == ZeroRegions(mm, a)
<1>1. /\ a.live /\ Shaped(a) /\ a \in Arena /\ a.lo \in Nat /\ a.hi \in Nat
      /\ mm' = RangeReturn(z, a.lo, a.hi) /\ arena' = [arena EXCEPT ![p] = NoArena]
  BY DEF ArenaExit, AInv, Types, ArenaT, ArenasShaped, Arena, Addr
<1>2. mm.refs \in [Frames -> Nat] /\ mm.data \in [Frames -> Vals]
  BY DEF AInv, Types, PoolT
<1>3. a.regions \in Seq(Region) /\ DOMAIN a.regions = 1 .. Len(a.regions)
  BY <1>1, LenProperties DEF Arena
<1>4. z.data = [f \in Frames |-> IF f \in Reach(arena, p) THEN 0 ELSE mm.data[f]]
      /\ z = [refs |-> mm.refs, free |-> mm.free, data |-> z.data, space |-> mm.space]
  <2> DEFINE d == [f \in Frames |-> IF \E i \in DOMAIN a.regions : f \in a.regions[i].start .. a.regions[i].end - 1
                                    THEN 0 ELSE mm.data[f]]
  <2>1. z = [mm EXCEPT !.data = d]
    BY DEF ZeroRegions
  <2>2. d = [f \in Frames |-> IF f \in Reach(arena, p) THEN 0 ELSE mm.data[f]]
    BY <1>3 DEF Reach, Span
  <2> HIDE DEF d, z
  <2> QED
    BY <2>1, <2>2 DEF AInv, Types, PoolT, IsPool
<1> HIDE DEF z
<1>5. /\ IsPool(mm')
      /\ mm'.data = z.data /\ mm'.refs = [f \in Frames |-> IF f \in Own(arena, p) THEN 0 ELSE mm.refs[f]]
  <2>1. IsPool(z) /\ z.refs = mm.refs
    BY <1>4 DEF IsPool
  <2>2. 1 <= a.lo /\ a.lo < a.hi /\ Own(arena, p) = a.lo .. a.hi - 1
    BY <1>1 DEF Shaped, Own
  <2> HIDE DEF a
  <2>3. z.refs \in [Frames -> Nat]
    BY <1>2, <2>1
  <2>4. PICK lo \in Nat, hi \in Nat : lo = a.lo /\ hi = a.hi
    BY <1>1
  <2>5. LET n == RangeReturn(z, lo, hi)
        IN  /\ IsPool(n) /\ n.data = z.data
            /\ n.refs = [f \in Frames |-> IF f \in lo .. hi - 1 THEN 0 ELSE z.refs[f]]
    <3>1. 1 <= lo /\ lo < hi
      BY <2>2, <2>4
    <3> QED
      BY <2>1, <2>3, <3>1, ReturnedPool
  <2> QED
    BY <1>1, <2>1, <2>2, <2>4, <2>5
<1>6. arena \in [Procs -> Arena] /\ arena'[p] = NoArena /\ ~arena'[p].live /\ \A q \in Procs \ {p} : arena'[q] = arena[q]
  BY <1>1 DEF AInv, Types, ArenaT, NoArena
<1>7. PoolT'
  BY <1>2, <1>4, <1>5 DEF PoolT
<1>8. ArenaT'
  <2>1. NoArena \in Arena
    BY DEF NoArena, Arena, Addr
  <2> QED
    BY <1>1, <1>6, <2>1 DEF ArenaT
<1>9. ArenasShaped' /\ Apart'
  BY <1>6 DEF AInv, ArenasShaped, Apart, Own
<1>10. CountedOnce'
  <2> SUFFICES ASSUME NEW f \in Frames PROVE mm'.refs[f] = IF Held(f)' THEN 1 ELSE 0
    BY DEF CountedOnce
  <2>1. CASE f \in Own(arena, p)
    <3>1. ~Held(f)'
      BY <1>1, <1>6, <2>1 DEF AInv, Apart, Held, Own
    <3> QED
      BY <1>5, <2>1, <3>1
  <2>2. CASE f \notin Own(arena, p)
    <3>1. Held(f)' <=> Held(f)
      BY <1>6, <2>2 DEF Held, Own
    <3> QED
      BY <1>5, <2>2, <3>1 DEF AInv, CountedOnce
  <2> QED
    BY <2>1, <2>2
<1>11. DirtyIsReached'
  <2>1. \A q \in Procs : q # p /\ arena[q].live => arena'[q].live /\ Reach(arena', q) = Reach(arena, q)
    BY <1>6 DEF Reach
  <2>2. \A f \in Frames : mm'.data[f] # 0 => mm.data[f] # 0 /\ f \notin Reach(arena, p)
    BY <1>4, <1>5
  <2> QED
    BY <2>1, <2>2 DEF AInv, DirtyIsReached
<1>12. CASE active = p
  <2>1. cpu' = SlotRelease /\ active' = Nobody
    BY <1>12 DEF ArenaExit
  <2>2. cpu.n \in 0 .. NRegions /\ \A i \in 1 .. NRegions : cpu.r[i] \in CpuRegion /\ (cpu.r[i].on => i <= cpu.n)
    BY DEF AInv, Types, CpuT, CpuFollows
  <2>3. \A i \in 1 .. NRegions : [cpu.r[i] EXCEPT !.on = FALSE] \in CpuRegion /\ ~[cpu.r[i] EXCEPT !.on = FALSE].on
    BY <2>2 DEF CpuRegion
  <2>4. CpuT' /\ CpuFollows'
    BY <2>1, <2>2, <2>3, SMTT(30) DEF SlotRelease, CpuT, CpuFollows
  <2> QED
    BY <1>7, <1>8, <1>9, <1>10, <1>11, <2>1, <2>4 DEF AInv, Types
<1>13. CASE active # p
  <2>1. UNCHANGED <<cpu, active>>
    BY <1>13 DEF ArenaExit
  <2>2. CpuT' /\ CpuFollows'
    BY <1>6, <1>13, <2>1 DEF AInv, Types, CpuT, CpuFollows
  <2> QED
    BY <1>7, <1>8, <1>9, <1>10, <1>11, <2>1, <2>2 DEF AInv, Types
<1> QED
  BY <1>12, <1>13

\* The bounds of a region are numbers.
LEMMA RegionBounds == \A r \in Region : r.start \in Nat /\ r.end \in Nat
  BY ArenaAssumption DEF Region, Addr

\* A region of the process gets longer, or a region is added: what it reached, it reaches.
LEMMA ReachGrows ==
  ASSUME NEW A, NEW B, NEW p, NEW q, Len(A[p].regions) \in Nat, Len(B[q].regions) \in Nat,
         Len(A[p].regions) <= Len(B[q].regions),
         \A i \in 1 .. Len(A[p].regions) : Span(A[p].regions[i]) \subseteq Span(B[q].regions[i])
  PROVE  Reach(A, p) \subseteq Reach(B, q)
<1> SUFFICES ASSUME NEW i \in 1 .. Len(A[p].regions), NEW f \in Span(A[p].regions[i]) PROVE f \in Reach(B, q)
  BY DEF Reach
<1>1. i \in 1 .. Len(B[q].regions) /\ f \in Span(B[q].regions[i])
  OBVIOUS
<1> QED
  BY <1>1 DEF Reach

\* proc_mem_grow: the arena may take the pages above it, and a region gets the new pages of the heap.
LEMMA GrowStep ==
  ASSUME AInv, NEW p \in Procs, NEW n \in 1 .. MaxArena, ArenaGrow(p, n)
  PROVE  AInv'
<1> USE MmAssumption, ArenaAssumption
<1> DEFINE a    == arena[p]
           want == a.heapEnd + n
           more == want > a.limit
           full == a.heapRegion = 0 /\ Len(a.regions) = NRegions
           m    == IF more THEN RangeTake(mm, a.hi, want) ELSE mm
           b    == IF more THEN [a EXCEPT !.hi = want, !.limit = want] ELSE a
           r    == IF a.heapRegion = 0 THEN Len(a.regions) + 1 ELSE a.heapRegion
           old  == IF a.heapRegion = 0 THEN Append(a.regions, [start |-> a.heapEnd, end |-> a.heapEnd]) ELSE a.regions
           grown == [b EXCEPT !.regions = [old EXCEPT ![r].end = want], !.heapRegion = r, !.heapEnd = want]
<1>1. ~mm_vm /\ a.live /\ active = p /\ active' = active
  BY DEF ArenaGrow
<1>r. more => RangeFree(a.hi, want)
  BY DEF ArenaGrow
<1>w. IF full
      THEN mm' = m /\ arena' = [arena EXCEPT ![p] = b] /\ UNCHANGED cpu
      ELSE mm' = Zeroed(m, old[r].end, want) /\ arena' = [arena EXCEPT ![p] = grown] /\ cpu' = SlotActivate(grown)
  BY DEF ArenaGrow
<1>a. a = arena[p] /\ a \in Arena /\ Shaped(a)
  BY <1>1 DEF AInv, Types, ArenaT, ArenasShaped
<1>n. NArena \in Nat \ {0} /\ n \in Nat \ {0}
  OBVIOUS
<1> HIDE DEF a
<1>2. /\ a.lo \in Nat /\ a.hi \in Nat /\ a.heapEnd \in Nat /\ a.limit \in Nat /\ a.hi <= NArena + 1 /\ a.heapEnd \in Addr
      /\ a.regions \in Seq(Region) /\ Len(a.regions) \in Nat
      /\ 1 <= a.lo /\ a.lo < a.hi /\ a.limit = a.hi /\ a.lo <= a.heapEnd /\ a.heapEnd <= a.hi
  BY <1>a, <1>n DEF Arena, Addr, Shaped
<1>3. want \in Nat /\ a.heapEnd < want /\ a.lo < want /\ (more => a.hi < want /\ want <= NArena + 1) /\ (~more => want <= a.hi)
  <2>1. want \in Nat /\ a.heapEnd < want /\ a.lo < want /\ (more <=> a.hi < want)
    BY <1>2, <1>n
  <2>2. more => want <= NArena + 1
    BY <1>r DEF RangeFree
  <2> QED
    BY <1>2, <2>1, <2>2
<1> HIDE DEF want, more
<1>4. /\ b \in Arena /\ b.live /\ b.lo = a.lo /\ b.regions = a.regions /\ b.heapRegion = a.heapRegion /\ b.heapEnd = a.heapEnd
      /\ b.hi = b.limit /\ b.hi = (IF more THEN want ELSE a.hi) /\ b.hi \in Nat /\ b.hi \in Addr /\ want <= b.hi /\ a.hi <= b.hi
  <2>1. CASE more
    <3>1. b = [a EXCEPT !.hi = want, !.limit = want] /\ want \in Addr
      BY <1>2, <1>3, <1>n, <2>1 DEF Addr
    <3> HIDE DEF b
    <3>2. /\ b \in Arena /\ b.live = a.live /\ b.lo = a.lo /\ b.regions = a.regions /\ b.heapRegion = a.heapRegion
          /\ b.heapEnd = a.heapEnd /\ b.hi = want /\ b.limit = want
      BY <1>a, <3>1 DEF Arena
    <3> QED
      BY <1>1, <1>2, <1>3, <2>1, <3>1, <3>2, SMTT(30)
  <2>2. CASE ~more
    <3>1. b = a /\ a.hi \in Addr
      BY <1>a, <2>2 DEF Arena
    <3> HIDE DEF b
    <3> QED
      BY <1>1, <1>2, <1>3, <1>a, <2>2, <3>1
  <2> QED
    BY <2>1, <2>2
<1>5. mm.refs \in [Frames -> Nat] /\ mm.data \in [Frames -> Vals] /\ IsPool(mm)
  BY DEF AInv, Types, PoolT
<1>6. /\ IsPool(m) /\ m.data = mm.data /\ m.refs \in [Frames -> Nat]
      /\ m.refs = [f \in Frames |-> IF f \in b.lo .. b.hi - 1 THEN 1 ELSE mm.refs[f]]
  <2>1. \A f \in Frames : f \in a.lo .. a.hi - 1 => mm.refs[f] = 1
    BY <1>1, <1>a DEF AInv, CountedOnce, Held, Own
  <2>2. CASE more
    <3>1. /\ IsPool(m) /\ m.data = mm.data
          /\ m.refs = [f \in Frames |-> IF f \in a.hi .. want - 1 THEN 1 ELSE mm.refs[f]]
      BY <2>2, TakenPool DEF AInv, Types
    <3>2. b.lo = a.lo /\ b.hi = want
      BY <1>4, <2>2
    <3> HIDE DEF m, b
    <3> QED
      BY <1>2, <1>3, <1>5, <2>1, <2>2, <3>1, <3>2, SMTT(30)
  <2>3. CASE ~more
    <3>1. m = mm /\ b.lo = a.lo /\ b.hi = a.hi
      BY <2>3, <1>4
    <3> HIDE DEF m, b
    <3> QED
      BY <1>5, <2>1, <3>1
  <2> QED
    BY <2>2, <2>3
<1> HIDE DEF m, b
<1>7. \A f \in Frames : f \in b.lo .. b.hi - 1 => mm.refs[f] = 0 \/ f \in Own(arena, p)
  <2>1. CASE more
    <3>1. \A f \in a.hi .. want - 1 : mm.refs[f] = 0
      BY <1>r, <2>1 DEF RangeFree
    <3> QED
      BY <1>2, <1>3, <1>4, <1>a, <2>1, <3>1 DEF Own
  <2>2. CASE ~more
    BY <1>4, <1>a, <2>2 DEF Own
  <2> QED
    BY <2>1, <2>2
<1>8. Own(arena, p) \subseteq b.lo .. b.hi - 1
  BY <1>2, <1>4, <1>a DEF Own
<1>9. CASE full
  <2>1. mm' = m /\ arena' = [arena EXCEPT ![p] = b] /\ UNCHANGED cpu
    BY <1>w, <1>9
  <2>2. Shaped(b)
    <3>1. \A i \in 1 .. Len(a.regions) : a.regions[i] \in Region /\ a.lo <= a.regions[i].start /\ a.regions[i].end <= a.hi
      BY <1>2, <1>a, ElementOfSeq DEF Shaped
    <3>2. \A i \in 1 .. Len(b.regions) : b.lo <= b.regions[i].start /\ b.regions[i].end <= b.hi
      BY <1>2, <1>4, <3>1, <1>n, SMTT(30) DEF Region, Addr
    <3> QED
      BY <1>2, <1>4, <1>a, <3>2 DEF Shaped
  <2>3. ArenaT' /\ ArenasShaped' /\ Apart' /\ CountedOnce'
    BY <1>1, <1>a, <1>4, <1>6, <1>7, <1>8, <2>1, <2>2, NewArena
  <2>4. PoolT'
    BY <1>5, <1>6, <2>1 DEF PoolT
  <2>5. arena'[p] = b /\ \A q \in Procs \ {p} : arena'[q] = arena[q]
    BY <2>1 DEF AInv, Types, ArenaT
  <2>6. DirtyIsReached'
    <3>1. \A q \in Procs : arena[q].live => arena'[q].live /\ Reach(arena', q) = Reach(arena, q)
      BY <1>4, <1>a, <2>5, SMTT(30) DEF Reach
    <3> QED
      BY <1>6, <2>1, <3>1 DEF AInv, DirtyIsReached
  <2>7. CpuFollows'
    BY <1>1, <1>4, <1>a, <2>1, <2>5, SMTT(30) DEF AInv, CpuFollows
  <2> QED
    BY <1>1, <2>1, <2>3, <2>4, <2>6, <2>7 DEF AInv, Types, CpuT
<1>10. CASE ~full
  <2>1. mm' = Zeroed(m, old[r].end, want) /\ arena' = [arena EXCEPT ![p] = grown] /\ cpu' = SlotActivate(grown)
    BY <1>w, <1>10
  <2>2. /\ old \in Seq(Region) /\ r \in 1 .. Len(old) /\ Len(old) \in 1 .. NRegions /\ Len(a.regions) <= Len(old)
        /\ a.lo <= old[r].start /\ old[r].end <= a.heapEnd /\ old[r].end \in Addr
        /\ \A i \in 1 .. Len(a.regions) : old[i] = a.regions[i]
        /\ \A i \in 1 .. Len(old) : old[i] \in Region /\ a.lo <= old[i].start /\ old[i].end <= a.hi
    <3>1. CASE a.heapRegion = 0
      <4>1. [start |-> a.heapEnd, end |-> a.heapEnd] \in Region
        BY <1>2 DEF Region
      <4> DEFINE e == [start |-> a.heapEnd, end |-> a.heapEnd]
      <4>2. e.start = a.heapEnd /\ e.end = a.heapEnd /\ e \in Region
        BY <4>1
      <4> HIDE DEF e
      <4>3. old = Append(a.regions, e) /\ r = Len(a.regions) + 1
        BY <3>1 DEF e
      <4>4. /\ old \in Seq(Region) /\ Len(old) = Len(a.regions) + 1 /\ old[Len(old)] = e
            /\ \A i \in 1 .. Len(a.regions) : old[i] = a.regions[i]
        BY <1>2, <4>2, <4>3, AppendProperties
      <4>5. Len(a.regions) < NRegions /\ Len(a.regions) \in 1 .. NRegions
        BY <1>2, <1>a, <1>10, <3>1 DEF Shaped
      <4>6. \A i \in 1 .. Len(a.regions) : a.lo <= a.regions[i].start /\ a.regions[i].end <= a.hi /\ a.regions[i] \in Region
        BY <1>2, <1>a, ElementOfSeq DEF Shaped
      <4> HIDE DEF old, r
      <4>7. \A i \in 1 .. Len(old) : i \in 1 .. Len(a.regions) \/ old[i] = e
        BY <1>2, <4>4
      <4>8. \A i \in 1 .. Len(old) : old[i] \in Region /\ a.lo <= old[i].start /\ old[i].end <= a.hi
        BY <1>2, <4>2, <4>4, <4>6, <4>7
      <4>9. r \in 1 .. Len(old) /\ Len(old) \in 1 .. NRegions /\ Len(a.regions) <= Len(old) /\ old[r] = e
        BY <1>2, <4>3, <4>4, <4>5
      <4>10. a.lo <= old[r].start /\ old[r].end <= a.heapEnd /\ old[r].end \in Addr
        <5>1. a.heapEnd <= a.heapEnd /\ a.lo <= a.heapEnd /\ a.heapEnd \in Addr
          BY <1>2
        <5> QED
          BY <4>2, <4>9, <5>1
      <4> QED
        BY <4>4, <4>8, <4>9, <4>10, Zenon
    <3>2. CASE a.heapRegion # 0
      <4>1. old = a.regions /\ r = a.heapRegion
        BY <3>2
      <4>2. /\ Len(a.regions) \in 1 .. NRegions /\ a.heapRegion \in 1 .. Len(a.regions)
            /\ a.regions[a.heapRegion].end <= a.heapEnd
            /\ \A i \in 1 .. Len(a.regions) : a.lo <= a.regions[i].start /\ a.regions[i].end <= a.hi
        BY <1>2, <1>a, <3>2 DEF Shaped
      <4>3. \A i \in 1 .. Len(a.regions) : a.regions[i] \in Region
        BY <1>2, ElementOfSeq
      <4> HIDE DEF old, r
      <4> QED
        BY <1>2, <4>1, <4>2, <4>3 DEF Region
    <3> QED
      BY <3>1, <3>2
  <2>n. \A i \in 1 .. Len(old) : old[i].start \in Nat /\ old[i].end \in Nat
    BY <2>2, RegionBounds
  <2> DEFINE new == [old EXCEPT ![r].end = want]
  <2>3. /\ new \in Seq(Region) /\ Len(new) = Len(old)
        /\ \A i \in 1 .. Len(old) : new[i].start = old[i].start /\ new[i].end = (IF i = r THEN want ELSE old[i].end)
    <3>1. want \in Addr
      BY <1>3, <1>4 DEF Addr
    <3>2. [old[r] EXCEPT !.end = want] \in Region
      BY <2>2, <3>1 DEF Region
    <3>3. new = [old EXCEPT ![r] = [old[r] EXCEPT !.end = want]]
      OBVIOUS
    <3> HIDE DEF old, r
    <3>4. new \in Seq(Region) /\ Len(new) = Len(old) /\ \A i \in 1 .. Len(old) : new[i] = IF i = r THEN [old[r] EXCEPT !.end = want] ELSE old[i]
      BY <2>2, <3>2, <3>3, ExceptSeq, SMTT(30)
    <3> QED
      BY <2>2, <3>4 DEF Region
  <2>4. grown = [b EXCEPT !.regions = new, !.heapRegion = r, !.heapEnd = want]
    OBVIOUS
  <2> HIDE DEF new, old, r
  <2>5. /\ grown \in Arena /\ grown.live /\ grown.regions = new /\ grown.heapRegion = r /\ grown.heapEnd = want
        /\ grown.lo = b.lo /\ grown.hi = b.hi /\ grown.limit = b.limit
    <3>1. r \in Nat /\ want \in Addr
      BY <1>3, <1>4, <1>n, <2>2 DEF Addr
    <3> HIDE DEF grown
    <3> QED
      BY <1>4, <2>3, <2>4, <3>1 DEF Arena
  <2> HIDE DEF grown
  <2>6. Shaped(grown)
    <3>1. \A i \in 1 .. Len(old) : a.lo <= new[i].start /\ new[i].end <= b.hi
      <4> SUFFICES ASSUME NEW i \in 1 .. Len(old) PROVE a.lo <= new[i].start /\ new[i].end <= b.hi
        OBVIOUS
      <4>1. a.lo <= old[i].start /\ old[i].end <= a.hi /\ old[i].end \in Nat /\ new[i].start = old[i].start
            /\ new[i].end = (IF i = r THEN want ELSE old[i].end)
        BY <2>n, <2>2, <2>3
      <4> QED
        BY <1>2, <1>3, <1>4, <4>1
    <3>2. Len(new) \in 1 .. NRegions /\ r \in 0 .. Len(new) /\ new[r].end <= want
      BY <1>3, <2>2, <2>3
    <3> QED
      <4>1. \A i \in 1 .. Len(new) : a.lo <= new[i].start /\ new[i].end <= b.hi
        BY <2>3, <3>1
      <4>2. 1 <= a.lo /\ a.lo < b.hi /\ a.lo <= want /\ want <= b.hi
        BY <1>2, <1>3, <1>4
      <4> QED
        BY <1>4, <2>5, <3>2, <4>1, <4>2 DEF Shaped
  <2>7. ArenaT' /\ ArenasShaped' /\ Apart' /\ CountedOnce'
    <3>1. mm'.refs = m.refs
      BY <1>6, <2>1 DEF Zeroed, IsPool
    <3> QED
      <4>1. mm'.refs = [f \in Frames |-> IF f \in grown.lo .. grown.hi - 1 THEN 1 ELSE mm.refs[f]]
        BY <1>6, <2>5, <3>1
      <4> QED
        BY <1>1, <1>a, <1>7, <1>8, <2>1, <2>5, <2>6, <4>1, NewArena
  <2>8. PoolT' /\ \A f \in Frames : mm'.data[f] # 0 => mm.data[f] # 0
    <3> DEFINE z == [f \in Frames |-> IF f \in old[r].end .. want - 1 THEN 0 ELSE m.data[f]]
    <3>1. mm' = [m EXCEPT !.data = z] /\ z \in [Frames -> Vals] /\ \A f \in Frames : z[f] # 0 => m.data[f] # 0
      BY <1>5, <1>6, <2>1 DEF Zeroed
    <3> HIDE DEF z
    <3> QED
      BY <1>5, <1>6, <3>1 DEF PoolT, IsPool
  <2>9. arena'[p] = grown /\ \A q \in Procs \ {p} : arena'[q] = arena[q]
    BY <2>1 DEF AInv, Types, ArenaT
  <2>10. DirtyIsReached'
    <3>1. Reach(arena, p) \subseteq Reach(arena', p)
      <4>1. \A i \in 1 .. Len(a.regions) : Span(a.regions[i]) \subseteq Span(new[i])
        <5> SUFFICES ASSUME NEW i \in 1 .. Len(a.regions) PROVE Span(a.regions[i]) \subseteq Span(new[i])
          OBVIOUS
        <5>1. i \in 1 .. Len(old) /\ old[i] = a.regions[i] /\ old[i] \in Region
          BY <1>2, <2>2
        <5>2. old[i].start \in Nat /\ old[i].end \in Nat /\ new[i].start = old[i].start /\ new[i].end \in Nat /\ old[i].end <= new[i].end
          <6>1. /\ old[i].start \in Nat /\ old[i].end \in Nat /\ new[i].start = old[i].start
                /\ new[i].end = (IF i = r THEN want ELSE old[i].end)
            BY <2>n, <2>3, <5>1
          <6>2. i = r => old[i].end <= a.heapEnd
            BY <2>2
          <6> QED
            BY <1>2, <1>3, <6>1, <6>2
        <5> QED
          BY <5>1, <5>2, SMTT(30) DEF Span
      <4>2. Len(new) \in Nat /\ Len(a.regions) <= Len(new)
        BY <2>2, <2>3
      <4> QED
        BY <1>2, <1>a, <2>5, <2>9, <4>1, <4>2, ReachGrows
    <3>2. \A q \in Procs : arena[q].live => arena'[q].live /\ Reach(arena, q) \subseteq Reach(arena', q)
      <4>1. \A q \in Procs \ {p} : Reach(arena', q) = Reach(arena, q)
        BY <2>9 DEF Reach
      <4> QED
        BY <2>5, <2>9, <3>1, <4>1
    <3> QED
      BY <2>8, <3>2 DEF AInv, DirtyIsReached
  <2>11. CpuT' /\ CpuFollows'
    BY <1>1, <2>1, <2>5, <2>6, <2>9, ActivateFollows DEF Shaped
  <2> QED
    BY <1>1, <2>7, <2>8, <2>11, <2>10 DEF AInv, Types
<1> QED
  BY <1>9, <1>10

\* proc_activate gives the CPU the regions of a live process.
LEMMA ActivateStep ==
  ASSUME AInv, NEW p \in Procs, ArenaActivate(p)
  PROVE  AInv'
<1>1. arena[p].live /\ active' = p /\ cpu' = SlotActivate(arena[p]) /\ UNCHANGED <<mm, arena>>
  BY DEF ArenaActivate
<1>2. arena[p] \in Arena /\ Shaped(arena[p])
  BY <1>1 DEF AInv, Types, ArenaT, ArenasShaped
<1>3. Len(arena[p].regions) <= NRegions
  BY <1>2, ArenaAssumption DEF Shaped
<1>4. CpuT' /\ CpuFollows'
  BY <1>1, <1>2, <1>3, ActivateFollows
<1>5. PoolT' /\ ArenaT' /\ ArenasShaped' /\ Apart' /\ CountedOnce'
  BY <1>1 DEF AInv, Types, PoolT, IsPool, ArenaT, ArenasShaped, Apart, CountedOnce, Held, Own
<1>6. DirtyIsReached'
  BY <1>1 DEF AInv, DirtyIsReached, Reach
<1> QED
  BY <1>1, <1>4, <1>5, <1>6 DEF AInv, Types

\* A store reaches only pages of the running process's regions.
LEMMA StoreStep ==
  ASSUME AInv, NEW p \in Procs, NEW f \in 1 .. NArena, NEW v \in Vals, ArenaStore(p, f, v)
  PROVE  AInv'
<1>1. arena[p].live /\ active = p /\ mm' = [mm EXCEPT !.data[f] = v] /\ UNCHANGED <<arena, cpu, active>>
  BY DEF ArenaStore
<1>2. PICK i \in 1 .. NRegions : cpu.r[i].on /\ f \in cpu.r[i].start .. cpu.r[i].end - 1
  BY DEF ArenaStore
<1>3. f \in Reach(arena, p)
  <2>1. active # Nobody /\ cpu.n = Len(arena[p].regions) /\ cpu.n \in Nat
    BY <1>1, MmAssumption DEF AInv, Types, CpuT, CpuFollows
  <2>2. i \in 1 .. Len(arena[p].regions)
    BY <1>2, <2>1 DEF AInv, CpuFollows
  <2>3. cpu.r[i].start = arena[p].regions[i].start /\ cpu.r[i].end = arena[p].regions[i].end
    BY <1>1, <2>1, <2>2 DEF AInv, CpuFollows
  <2> QED
    BY <1>2, <2>2, <2>3 DEF Reach, Span
<1>4. PoolT' /\ mm'.refs = mm.refs /\ \A g \in Frames : g # f => mm'.data[g] = mm.data[g]
  <2> DEFINE d == [mm.data EXCEPT ![f] = v]
  <2>1. mm' = [mm EXCEPT !.data = d] /\ d \in [Frames -> Vals] /\ \A g \in Frames : g # f => d[g] = mm.data[g]
    BY <1>1 DEF AInv, Types, PoolT
  <2> HIDE DEF d
  <2> QED
    BY <2>1 DEF AInv, Types, PoolT, IsPool
<1>5. ArenaT' /\ CpuT' /\ ArenasShaped' /\ Apart' /\ CountedOnce' /\ CpuFollows'
  BY <1>1, <1>4 DEF AInv, Types, ArenaT, CpuT, ArenasShaped, Apart, CountedOnce, Held, Own, CpuFollows
<1>6. DirtyIsReached'
  <2>1. \A q \in Procs : Reach(arena', q) = Reach(arena, q)
    BY <1>1 DEF Reach
  <2> QED
    BY <1>1, <1>3, <1>4, <2>1 DEF AInv, DirtyIsReached
<1> QED
  BY <1>1, <1>4, <1>5, <1>6 DEF AInv, Types

----------------------------------------------------------------------------
(* The theorem *)

LEMMA ArenaStep == AInv /\ ArenaNext => AInv'
<1> SUFFICES ASSUME AInv, ArenaNext PROVE AInv'
  OBVIOUS
<1>1. PICK p \in Procs :
       \/ \E fixed, joins, thread \in BOOLEAN, lo \in 1 .. NArena, n \in 1 .. MaxArena, k \in 1 .. MaxArena :
            k <= n /\ ArenaSpawn(p, fixed, lo, n, k, joins, thread)
       \/ \E n \in 1 .. MaxArena : ArenaGrow(p, n)
       \/ ArenaExit(p) \/ ArenaActivate(p)
       \/ \E f \in 1 .. NArena, v \in Vals : ArenaStore(p, f, v)
  BY DEF ArenaNext
<1>2. ASSUME NEW fixed \in BOOLEAN, NEW joins \in BOOLEAN, NEW thread \in BOOLEAN, NEW lo \in 1 .. NArena,
             NEW n \in 1 .. MaxArena, NEW k \in 1 .. MaxArena, k <= n, ArenaSpawn(p, fixed, lo, n, k, joins, thread)
      PROVE  AInv'
  BY <1>2, SpawnStep
<1>3. ASSUME NEW n \in 1 .. MaxArena, ArenaGrow(p, n) PROVE AInv'
  BY <1>3, GrowStep
<1>4. ASSUME NEW f \in 1 .. NArena, NEW v \in Vals, ArenaStore(p, f, v) PROVE AInv'
  BY <1>4, StoreStep
<1> QED
  BY <1>1, <1>2, <1>3, <1>4, ExitStep, ActivateStep

\* The two backends never mix: a machine without V stays with the arenas.
NommuInv == mm_vm \/ AInv

LEMMA NommuHolds == MmSpec => []NommuInv
<1>1. MmInit => NommuInv
  BY ArenaInit DEF NommuInv
<1>2. NommuInv /\ [MmNext]_allVars => NommuInv'
  <2> SUFFICES ASSUME NommuInv, [MmNext]_allVars PROVE NommuInv'
    OBVIOUS
  <2>1. CASE UNCHANGED allVars
    <3>1. UNCHANGED <<mm, mm_vm, arena, cpu, active>>
      BY <2>1 DEF allVars, vars, avars
    <3>2. AInv => AInv'
      BY <3>1 DEF AInv, Types, PoolT, IsPool, ArenaT, CpuT, ArenasShaped, Apart, CountedOnce, Held, Own,
                  DirtyIsReached, Reach, CpuFollows
    <3> QED
      BY <3>1, <3>2 DEF NommuInv
  <2>2. CASE MmNext
    BY <2>2, ArenaStep DEF MmNext, NommuInv
  <2> QED
    BY <2>1, <2>2
<1>3. QED
  BY <1>1, <1>2, PTL DEF MmSpec

\* The regions of the CPU are the running process's own, inside its arena, whatever ran before; and a page
\* no process holds is zero, so nothing is found in it (slot_activate, proc_mem_grow, proc_exit).
THEOREM ArenasAreKeptApart == MmSpec => []ArenasArePrivate
<1>1. NommuInv => ArenasArePrivate
  <2> SUFFICES ASSUME ~mm_vm, AInv PROVE RegionsAreOwn /\ FreePagesAreZero
    BY DEF NommuInv, ArenasArePrivate, RegionsAreOwn, FreePagesAreZero
  <2>1. RegionsAreOwn
    <3> SUFFICES ASSUME active # Nobody
                 PROVE  LET on == {i \in 1 .. NRegions : cpu.r[i].on}
                            a  == arena[active]
                        IN  /\ on = DOMAIN a.regions
                            /\ \A i \in on : /\ cpu.r[i].start = a.regions[i].start /\ cpu.r[i].end = a.regions[i].end
                                             /\ a.lo <= a.regions[i].start /\ a.regions[i].end <= a.hi
      BY DEF RegionsAreOwn
    <3> DEFINE on == {i \in 1 .. NRegions : cpu.r[i].on}
               a  == arena[active]
    <3>1. active \in Procs /\ a \in Arena /\ Shaped(a) /\ cpu.n = Len(a.regions) /\ DOMAIN a.regions = 1 .. Len(a.regions)
      <4>1. active \in Procs /\ a \in Arena /\ a.live /\ cpu.n = Len(a.regions)
        BY DEF AInv, Types, ArenaT, CpuFollows
      <4> QED
        BY <4>1, LenProperties DEF AInv, ArenasShaped, Arena
    <3>2. cpu.n \in 1 .. NRegions
      BY <3>1 DEF Shaped
    <3>3. on = 1 .. cpu.n
      BY <3>2, ArenaAssumption DEF AInv, CpuFollows
    <3>4. \A i \in 1 .. cpu.n : /\ cpu.r[i].start = a.regions[i].start /\ cpu.r[i].end = a.regions[i].end
                                /\ a.lo <= a.regions[i].start /\ a.regions[i].end <= a.hi
      BY <3>1 DEF AInv, CpuFollows, Shaped
    <3> HIDE DEF on, a
    <3> QED
      BY <3>1, <3>3, <3>4 DEF on, a
  <2>2. FreePagesAreZero
    <3> SUFFICES ASSUME NEW f \in Frames, mm.refs[f] = 0, mm.data[f] # 0 PROVE FALSE
      BY DEF FreePagesAreZero
    <3>1. PICK p \in Procs : arena[p].live /\ f \in Reach(arena, p)
      BY DEF AInv, DirtyIsReached
    <3>2. PICK i \in 1 .. Len(arena[p].regions) : f \in Span(arena[p].regions[i])
      BY <3>1 DEF Reach
    <3>3. arena[p] \in Arena /\ Shaped(arena[p])
      BY <3>1 DEF AInv, Types, ArenaT, ArenasShaped
    <3>4. arena[p].regions[i] \in Region /\ arena[p].lo \in Nat /\ arena[p].hi \in Nat
      BY <3>3, ElementOfSeq, ArenaAssumption DEF Arena, Addr
    <3>5. arena[p].lo <= arena[p].regions[i].start /\ arena[p].regions[i].end <= arena[p].hi
      BY <3>3 DEF Shaped
    <3>6. f \in Own(arena, p)
      BY <3>2, <3>4, <3>5, RegionBounds, SMTT(30) DEF Own, Span
    <3> QED
      BY <3>1, <3>6 DEF AInv, CountedOnce, Held
  <2> QED
    BY <2>1, <2>2
<1>2. QED
  BY <1>1, NommuHolds, PTL

----------------------------------------------------------------------------
(* The count of free pages *)

FreePages(R) == {f \in 1 .. NArena : R[f] = 0}
FreeExact == mm.free = Cardinality(FreePages(mm.refs))

\* A run of pages that is free on one side and taken on the other is the difference.
LEMMA RunCount ==
  ASSUME NEW R, NEW R2, NEW lo \in Nat, NEW hi \in Nat, 1 <= lo, lo <= hi, hi <= NArena + 1,
         \A f \in lo .. hi - 1 : R[f] = 0 /\ R2[f] # 0,
         \A f \in (1 .. NArena) \ (lo .. hi - 1) : R2[f] = R[f]
  PROVE  /\ Cardinality(FreePages(R)) = Cardinality(FreePages(R2)) + (hi - lo)
         /\ Cardinality(FreePages(R)) \in Nat /\ Cardinality(FreePages(R2)) \in Nat
<1>1. IsFiniteSet(1 .. NArena) /\ IsFiniteSet(lo .. hi - 1) /\ Cardinality(lo .. hi - 1) = hi - lo
  <2>1. NArena \in Int /\ hi - 1 \in Int
    BY ArenaAssumption, MmAssumption
  <2>2. /\ IsFiniteSet(1 .. NArena) /\ IsFiniteSet(lo .. hi - 1)
        /\ Cardinality(lo .. hi - 1) = IF lo > hi - 1 THEN 0 ELSE hi - 1 - lo + 1
    BY <2>1, FS_Interval
  <2> QED
    BY <2>2
<1>2. IsFiniteSet(FreePages(R2)) /\ IsFiniteSet(FreePages(R))
  BY <1>1, FS_Subset DEF FreePages
<1>3. FreePages(R) = FreePages(R2) \cup (lo .. hi - 1)
  BY ArenaAssumption, MmAssumption DEF FreePages
<1>4. FreePages(R2) \cap (lo .. hi - 1) = {}
  BY DEF FreePages
<1>5. Cardinality(FreePages(R)) = Cardinality(FreePages(R2)) + Cardinality(lo .. hi - 1) - Cardinality(FreePages(R2) \cap (lo .. hi - 1))
  BY <1>1, <1>2, <1>3, FS_Union
<1>6. Cardinality({}) = 0
  BY FS_EmptySet
<1>7. Cardinality(FreePages(R2)) \in Nat /\ Cardinality(FreePages(R)) \in Nat
  BY <1>2, FS_CardinalityType
<1>8. Cardinality(FreePages(R2) \cap (lo .. hi - 1)) = 0
  BY <1>4, <1>6, Zenon
<1>9. PICK a \in Nat, b \in Nat : a = Cardinality(FreePages(R)) /\ b = Cardinality(FreePages(R2))
  BY <1>7, Zenon
<1>10. a = b + (hi - lo) - 0
  BY <1>1, <1>5, <1>8, <1>9
<1> QED
  BY <1>9, <1>10

\* A free run that is taken
LEMMA TakeCount ==
  ASSUME AInv, FreeExact, NEW lo \in Nat, NEW hi \in Nat, RangeFree(lo, hi)
  PROVE  LET m == RangeTake(mm, lo, hi) IN m.free = Cardinality(FreePages(m.refs))
<1> DEFINE m == RangeTake(mm, lo, hi)
<1>1. m.refs = [f \in Frames |-> IF f \in lo .. hi - 1 THEN 1 ELSE mm.refs[f]] /\ m.free = mm.free - (hi - lo)
  <2>1. m.refs = [f \in Frames |-> IF f \in lo .. hi - 1 THEN 1 ELSE mm.refs[f]]
    BY TakenPool DEF AInv, Types
  <2>2. m.free = mm.free - (hi - lo)
    <3> DEFINE taken == [f \in Frames |-> IF f \in lo .. hi - 1 THEN 1 ELSE mm.refs[f]]
    <3>1. m = [mm EXCEPT !.refs = taken, !.free = @ - (hi - lo)]
      BY DEF RangeTake
    <3> HIDE DEF taken, m
    <3> QED
      BY <3>1 DEF AInv, Types, PoolT, IsPool
  <2> QED
    BY <2>1, <2>2
<1>2. 1 <= lo /\ lo < hi /\ hi <= NArena + 1 /\ \A f \in lo .. hi - 1 : mm.refs[f] = 0
  BY DEF RangeFree
<1>3. 1 .. NArena \subseteq Frames
  BY ArenaAssumption, MmAssumption DEF Frames
<1>4. lo .. hi - 1 \subseteq 1 .. NArena
  BY <1>2, ArenaAssumption, MmAssumption
<1> HIDE DEF m
<1>5. Cardinality(FreePages(mm.refs)) = Cardinality(FreePages(m.refs)) + (hi - lo) /\ Cardinality(FreePages(m.refs)) \in Nat
  <2>1. \A f \in lo .. hi - 1 : m.refs[f] # 0
    BY <1>1, <1>3, <1>4
  <2>2. \A f \in (1 .. NArena) \ (lo .. hi - 1) : m.refs[f] = mm.refs[f]
    BY <1>1, <1>3
  <2>3. lo <= hi /\ \A f \in lo .. hi - 1 : mm.refs[f] = 0 /\ m.refs[f] # 0
    BY <1>2, <2>1
  <2>4. PICK R, R2 : R = mm.refs /\ R2 = m.refs
    OBVIOUS
  <2>5. /\ Cardinality(FreePages(R)) = Cardinality(FreePages(R2)) + (hi - lo)
        /\ Cardinality(FreePages(R)) \in Nat /\ Cardinality(FreePages(R2)) \in Nat
    <3>1. /\ \A f \in lo .. hi - 1 : R[f] = 0 /\ R2[f] # 0
          /\ \A f \in (1 .. NArena) \ (lo .. hi - 1) : R2[f] = R[f]
      BY <2>2, <2>3, <2>4
    <3> QED
      BY <1>2, <2>3, <3>1, RunCount, SMTT(30)
  <2> QED
    BY <2>4, <2>5
<1> QED
  BY <1>1, <1>5 DEF FreeExact, m

\* A run of taken pages that is given back
LEMMA ReturnCount ==
  ASSUME NEW m, IsPool(m), m.refs \in [Frames -> Nat], m.free = Cardinality(FreePages(m.refs)),
         NEW lo \in Nat, NEW hi \in Nat, 1 <= lo, lo < hi, hi <= NArena + 1, \A f \in lo .. hi - 1 : m.refs[f] # 0
  PROVE  LET n == RangeReturn(m, lo, hi) IN n.free = Cardinality(FreePages(n.refs))
<1> DEFINE n == RangeReturn(m, lo, hi)
           taken == {f \in lo .. hi - 1 : m.refs[f] # 0}
           left == [f \in Frames |-> IF f \in taken THEN 0 ELSE m.refs[f]]
<1>1. n = [m EXCEPT !.refs = left, !.free = @ + Cardinality(taken)]
  BY DEF RangeReturn
<1>2. taken = lo .. hi - 1
  OBVIOUS
<1>3. n.refs = left /\ n.free = m.free + Cardinality(lo .. hi - 1)
  <2> HIDE DEF n, left, taken
  <2> QED
    BY <1>1, <1>2 DEF IsPool
<1>4. 1 .. NArena \subseteq Frames /\ lo .. hi - 1 \subseteq 1 .. NArena
  BY ArenaAssumption, MmAssumption DEF Frames
<1>5. Cardinality(lo .. hi - 1) = hi - lo
  <2>1. Cardinality(lo .. hi - 1) = IF lo > hi - 1 THEN 0 ELSE hi - 1 - lo + 1
    BY FS_Interval
  <2> QED
    BY <2>1
<1>6. Cardinality(FreePages(left)) = Cardinality(FreePages(m.refs)) + (hi - lo)
  <2>1. \A f \in lo .. hi - 1 : left[f] = 0
    BY <1>2, <1>4
  <2>2. \A f \in (1 .. NArena) \ (lo .. hi - 1) : m.refs[f] = left[f]
    BY <1>2, <1>4
  <2> HIDE DEF left
  <2> QED
    BY <2>1, <2>2, RunCount
<1> HIDE DEF n, left
<1> QED
  BY <1>3, <1>5, <1>6 DEF n

LEMMA FreeStep ==
  ASSUME AInv, FreeExact, ArenaNext
  PROVE  FreeExact'
<1> USE MmAssumption, ArenaAssumption
<1>1. PICK p \in Procs :
       \/ \E fixed, joins, thread \in BOOLEAN, lo \in 1 .. NArena, n \in 1 .. MaxArena, k \in 1 .. MaxArena :
            k <= n /\ ArenaSpawn(p, fixed, lo, n, k, joins, thread)
       \/ \E n \in 1 .. MaxArena : ArenaGrow(p, n)
       \/ ArenaExit(p) \/ ArenaActivate(p)
       \/ \E f \in 1 .. NArena, v \in Vals : ArenaStore(p, f, v)
  BY DEF ArenaNext
<1>2. IsPool(mm) /\ mm.refs \in [Frames -> Nat] /\ mm.data \in [Frames -> Vals]
  BY DEF AInv, Types, PoolT
<1>3. ASSUME NEW fixed, NEW joins, NEW thread \in BOOLEAN, NEW lo \in 1 .. NArena, NEW n \in 1 .. MaxArena,
             NEW k \in 1 .. MaxArena, ArenaSpawn(p, fixed, lo, n, k, joins, thread)
      PROVE  FreeExact'
  <2> DEFINE m == RangeTake(mm, lo, lo + n)
  <2>1. RangeFree(lo, lo + n) /\ (IF thread THEN mm' = m ELSE mm' = RangeReturn(m, lo, lo + n)) /\ lo \in Nat /\ lo + n \in Nat
    BY <1>3 DEF ArenaSpawn
  <2>2. m.free = Cardinality(FreePages(m.refs))
    BY <2>1, TakeCount
  <2>3. IsPool(m) /\ m.refs = [f \in Frames |-> IF f \in lo .. lo + n - 1 THEN 1 ELSE mm.refs[f]]
    BY TakenPool DEF AInv, Types
  <2> HIDE DEF m
  <2>4. CASE thread
    BY <2>1, <2>2, <2>4 DEF FreeExact
  <2>5. CASE ~thread
    <3>1. 1 <= lo /\ lo < lo + n /\ lo + n <= NArena + 1
      BY <2>1 DEF RangeFree
    <3>2. m.refs \in [Frames -> Nat] /\ \A f \in lo .. lo + n - 1 : m.refs[f] # 0
      BY <1>2, <2>3, <3>1 DEF Frames
    <3>3. LET r == RangeReturn(m, lo, lo + n) IN r.free = Cardinality(FreePages(r.refs))
      BY <2>1, <2>2, <2>3, <3>1, <3>2, ReturnCount
    <3> QED
      BY <2>1, <2>5, <3>3 DEF FreeExact
  <2> QED
    BY <2>4, <2>5
<1>4. ASSUME NEW n \in 1 .. MaxArena, ArenaGrow(p, n) PROVE FreeExact'
  <2> DEFINE want == arena[p].heapEnd + n
             more == want > arena[p].limit
             m == IF more THEN RangeTake(mm, arena[p].hi, want) ELSE mm
  <2>1. (more => RangeFree(arena[p].hi, want)) /\ (mm' = m \/ \E from : mm' = Zeroed(m, from, want))
    BY <1>4 DEF ArenaGrow
  <2>2. arena[p].hi \in Nat /\ want \in Nat
    BY SMTT(30) DEF AInv, Types, ArenaT, Arena, Addr
  <2>3. IsPool(m) /\ m.free = Cardinality(FreePages(m.refs))
    <3>1. CASE more
      BY <2>1, <2>2, <3>1, TakeCount, TakenPool DEF AInv, Types
    <3>2. CASE ~more
      BY <1>2, <3>2 DEF FreeExact
    <3> QED
      BY <3>1, <3>2
  <2> HIDE DEF m
  <2>4. mm'.free = m.free /\ mm'.refs = m.refs
    BY <2>1, <2>3 DEF Zeroed, IsPool
  <2> QED
    BY <2>3, <2>4 DEF FreeExact
<1>5. ASSUME ArenaExit(p) PROVE FreeExact'
  <2> DEFINE a == arena[p]
             z == ZeroRegions(mm, a)
  <2>1. a \in Arena /\ Shaped(a) /\ a.live /\ mm' = RangeReturn(z, a.lo, a.hi)
    BY <1>5 DEF ArenaExit, AInv, Types, ArenaT, ArenasShaped
  <2>2. a.lo \in Nat /\ a.hi \in Nat /\ 1 <= a.lo /\ a.lo < a.hi /\ a.hi <= NArena + 1
    BY <2>1 DEF Arena, Addr, Shaped
  <2>3. IsPool(z) /\ z.refs = mm.refs /\ z.free = mm.free
    BY <1>2 DEF ZeroRegions, IsPool
  <2>4. \A f \in a.lo .. a.hi - 1 : mm.refs[f] # 0
    BY <2>1, <2>2 DEF AInv, CountedOnce, Held, Own, Frames
  <2> HIDE DEF z, a
  <2>5. PICK lo \in Nat, hi \in Nat : lo = a.lo /\ hi = a.hi
    BY <2>2
  <2>6. z.refs \in [Frames -> Nat] /\ z.free = Cardinality(FreePages(z.refs)) /\ (\A f \in lo .. hi - 1 : z.refs[f] # 0)
        /\ 1 <= lo /\ lo < hi /\ hi <= NArena + 1
    BY <1>2, <2>2, <2>3, <2>4, <2>5 DEF FreeExact
  <2>7. LET n == RangeReturn(z, lo, hi) IN n.free = Cardinality(FreePages(n.refs))
    BY <2>3, <2>6, ReturnCount
  <2> QED
    BY <2>1, <2>5, <2>7 DEF FreeExact
<1>6. ASSUME ArenaActivate(p) PROVE FreeExact'
  BY <1>6 DEF ArenaActivate, FreeExact
<1>7. ASSUME NEW f, NEW v, ArenaStore(p, f, v) PROVE FreeExact'
  <2>1. mm'.refs = mm.refs /\ mm'.free = mm.free
    BY <1>2, <1>7 DEF ArenaStore, IsPool
  <2> QED
    BY <2>1 DEF FreeExact
<1> QED
  BY <1>1, <1>3, <1>4, <1>5, <1>6, <1>7

\* Without V the pool is exact: a page is counted once when it lies in the arena of a process, and then of one
\* only, and free_frames counts the rest (mm_arena_alloc, mm_arena_free, and the growth in proc_mem_grow).
\* With V the count of PoolExact is that of the page tables, which loops build: that part is model-checked.
THEOREM ArenaPoolIsExact == MmSpec => [](mm_vm \/ PoolExact)
<1> DEFINE FInv == mm_vm \/ (AInv /\ FreeExact)
<1>1. MmInit => FInv
  <2> SUFFICES ASSUME MmInit, ~mm_vm PROVE FreeExact
    BY ArenaInit
  <2>1. mm.free = NArena /\ mm.refs = [f \in Frames |-> 0]
    BY DEF MmInit
  <2>2. FreePages(mm.refs) = 1 .. NArena
    BY <2>1, ArenaAssumption, MmAssumption DEF FreePages, Frames
  <2>3. NArena \in Nat \ {0}
    BY ArenaAssumption, MmAssumption
  <2>4. Cardinality(1 .. NArena) = IF 1 > NArena THEN 0 ELSE NArena - 1 + 1
    BY <2>3, FS_Interval
  <2> QED
    BY <2>1, <2>2, <2>3, <2>4 DEF FreeExact
<1>2. FInv /\ [MmNext]_allVars => FInv'
  <2> SUFFICES ASSUME FInv, [MmNext]_allVars PROVE FInv'
    OBVIOUS
  <2>1. CASE UNCHANGED allVars
    <3>1. UNCHANGED <<mm, mm_vm, arena, cpu, active>>
      BY <2>1 DEF allVars, vars, avars
    <3>2. AInv => AInv'
      BY <3>1 DEF AInv, Types, PoolT, IsPool, ArenaT, CpuT, ArenasShaped, Apart, CountedOnce, Held, Own,
                  DirtyIsReached, Reach, CpuFollows
    <3>3. FreeExact => FreeExact'
      BY <3>1 DEF FreeExact
    <3> QED
      BY <3>1, <3>2, <3>3
  <2>2. CASE MmNext
    <3>1. UNCHANGED mm_vm /\ (~mm_vm => ArenaNext)
      BY <2>2 DEF MmNext
    <3> QED
      BY <3>1, ArenaStep, FreeStep
  <2> QED
    BY <2>1, <2>2
<1>3. FInv => mm_vm \/ PoolExact
  <2> SUFFICES ASSUME ~mm_vm, AInv, FreeExact PROVE PoolExact
    OBVIOUS
  <2>1. ASSUME NEW f \in Frames
        PROVE  mm.refs[f] = Cardinality({p \in Procs : arena[p].live /\ f \in arena[p].lo .. arena[p].hi - 1}) /\ mm.refs[f] <= 1
    <3> DEFINE holders == {p \in Procs : arena[p].live /\ f \in arena[p].lo .. arena[p].hi - 1}
    <3>1. CASE Held(f)
      <4>1. PICK p \in Procs : holders = {p}
        BY <3>1 DEF AInv, Apart, Held, Own
      <4>2. mm.refs[f] = 1
        BY <3>1 DEF AInv, CountedOnce
      <4>3. Cardinality(holders) = 1
        BY <4>1, FS_Singleton
      <4> QED
        BY <4>2, <4>3
    <3>2. CASE ~Held(f)
      <4>1. holders = {}
        BY <3>2 DEF Held, Own
      <4>2. mm.refs[f] = 0
        BY <3>2 DEF AInv, CountedOnce
      <4>3. Cardinality(holders) = 0
        BY <4>1, FS_EmptySet
      <4> QED
        BY <4>2, <4>3
    <3> QED
      BY <3>1, <3>2
  <2> QED
    BY <2>1 DEF PoolExact, FreeExact, FreePages
<1> QED
  BY <1>1, <1>2, <1>3, PTL DEF MmSpec
=============================================================================

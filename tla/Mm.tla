--------------------------------- MODULE Mm ---------------------------------
(***************************************************************************)
(* Memory of processes under the vm backend of src/foundation/kernel/mm.c:      *)
(* the frame pool, page tables, copy on write, the CPU's TLB and the cache of    *)
(* checked ranges, with the callers in proc.c and trap.c.                       *)
(*                                                                         *)
(* An address is a page; a page's content is one value.  The kernel runs with    *)
(* interrupts off, so a system call or a fault is one step.  A call that blocks   *)
(* has its output page checked first and written when it ends.                  *)
(***************************************************************************)
EXTENDS Naturals, FiniteSets, Sequences, SequencesExt

CONSTANTS
  Procs,       \* process records
  Nobody,      \* no process
  NFrames,     \* pool_frames
  Reserved,    \* the frames of the DMA bounce buffer, the first of the pool
  NPages,      \* pages of an address space
  PerTable,    \* entries of a level-2 table
  Text, Data,  \* the pages of an image: code (RX), and data and stack (RW)
  Device,      \* the page of a granted device register
  HeapStart, HeapLimit,   \* the pages mem_grow may add: HeapStart .. HeapLimit - 1
  Vals, ImageVal          \* contents of pages, and what the loader puts into Text

Frames == 1 .. NFrames
Pages  == 1 .. NPages
Tables == 1 .. (NPages + PerTable - 1) \div PerTable
TableOf(a) == ((a - 1) \div PerTable) + 1

ASSUME MmAssumption ==
  /\ NFrames \in Nat \ {0} /\ NPages \in Nat \ {0} /\ PerTable \in Nat \ {0} /\ Reserved \in 0 .. NFrames
  /\ Text \subseteq Pages /\ Data \subseteq Pages /\ Text \cap Data = {} /\ Nobody \notin Procs
  /\ HeapStart \in Nat \ {0} /\ HeapLimit \in Nat /\ HeapLimit <= NPages + 1
  /\ (HeapStart .. HeapLimit - 1) \cap (Text \cup Data \cup {Device}) = {}
  /\ Device \in (Pages \ (Text \cup Data)) \cup {0} /\ Vals \subseteq Nat /\ {0, ImageVal} \subseteq Vals

VARIABLES
  mm,       \* the pool (refs, free, data) and space[p]: page table of p (root, table, pte, pages)
  live,     \* the processes that exist, with heap_end, the threads, and the page a blocked call will fill
  active,   \* the process whose memory the CPU enforces
  tlb,      \* the translations the CPU holds
  checked   \* range_cache, of one entry, if it is of this vm_epoch: <<process, page, writable>>

vars == <<mm, live, active, tlb, checked>>

NoPte  == [v |-> FALSE, frame |-> 0, w |-> FALSE, owned |-> FALSE, cow |-> FALSE, dev |-> FALSE]
NoProc == [live |-> FALSE, heap |-> 0, threads |-> 0, out |-> 0]
EmptySpace == [root |-> 0, table |-> [i \in Tables |-> 0], pte |-> [a \in Pages |-> NoPte], pages |-> 0]

----------------------------------------------------------------------------
(* The pool.  An operation on m gives a record with the new m, and what it returns. *)

\* frame_alloc: a free frame, zeroed; 0 when there is none.  Which one does not matter (next_hint is left
\* out): the lowest is taken, so that frames are reused soon.
Uncleared(data, f) == data
Clear(data, f) == [data EXCEPT ![f] = 0]
FrameAlloc(m) ==
  LET unused == {f \in Frames : m.refs[f] = 0}
      f      == Min(unused)
  IN  IF m.free = 0 \/ unused = {} THEN [m |-> m, f |-> 0]
      ELSE [m |-> [m EXCEPT !.refs[f] = 1, !.free = @ - 1, !.data = Clear(@, f)], f |-> f]

\* frame_free
FrameFree(m, f) ==
  IF f = 0 \/ m.refs[f] = 0 THEN m
  ELSE [m EXCEPT !.refs[f] = @ - 1, !.free = @ + (IF m.refs[f] = 1 THEN 1 ELSE 0)]

\* mm_vm_create
VmCreate(m, p) ==
  LET r == FrameAlloc([m EXCEPT !.space[p] = EmptySpace])
  IN  [ok |-> r.f # 0, m |-> [r.m EXCEPT !.space[p].root = r.f]]

\* l2_entry with create
L2Entry(m, p, a) ==
  LET r == FrameAlloc(m)
  IN  IF m.space[p].table[TableOf(a)] # 0 THEN [ok |-> TRUE, m |-> m]
      ELSE [ok |-> r.f # 0, m |-> [r.m EXCEPT !.space[p].table[TableOf(a)] = r.f]]

\* mm_vm_cow: the last owner takes the frame, another gets a copy.
VmCow(m, p, a) ==
  LET e == m.space[p].pte[a]
      r == FrameAlloc(m)
      copied == FrameFree([r.m EXCEPT !.data[r.f] = m.data[e.frame], !.space[p].pte[a].frame = r.f], e.frame)
      own(n) == [n EXCEPT !.space[p].pte[a].w = TRUE, !.space[p].pte[a].cow = FALSE]
  IN  IF ~(e.v /\ e.owned /\ e.cow /\ ~e.dev) THEN [ok |-> FALSE, m |-> m]
      ELSE IF m.refs[e.frame] = 1 THEN [ok |-> TRUE, m |-> own(m)]
      ELSE IF r.f = 0 THEN [ok |-> FALSE, m |-> m]
      ELSE [ok |-> TRUE, m |-> own(copied)]

\* mm_vm_map of one page; a page already there keeps its frame and gains the permission.
VmMap(m, p, a, w) ==
  LET t == L2Entry(m, p, a)
      e == t.m.space[p].pte[a]
      c == IF e.cow /\ w THEN VmCow(t.m, p, a) ELSE [ok |-> TRUE, m |-> t.m]
      r == FrameAlloc(t.m)
  IN  IF ~t.ok THEN t
      ELSE IF e.v THEN [ok |-> c.ok, m |-> IF c.ok /\ w THEN [c.m EXCEPT !.space[p].pte[a].w = TRUE] ELSE c.m]
      ELSE IF r.f = 0 THEN [ok |-> FALSE, m |-> t.m]
      ELSE [ok |-> TRUE, m |-> [r.m EXCEPT !.space[p].pages = @ + 1,
                                           !.space[p].pte[a] = [NoPte EXCEPT !.v = TRUE, !.frame = r.f,
                                                                            !.w = w, !.owned = TRUE]]]

\* mm_vm_map_phys of a device page
VmMapPhys(m, p, a) ==
  LET t == L2Entry(m, p, a)
      e == t.m.space[p].pte[a]
  IN  IF ~t.ok \/ (e.v /\ (e.owned \/ ~e.dev)) THEN [t EXCEPT !.ok = FALSE]
      ELSE [ok |-> TRUE, m |-> [t.m EXCEPT !.space[p].pte[a] = [NoPte EXCEPT !.v = TRUE, !.w = TRUE, !.dev = TRUE]]]

\* The loops: op on the pages lo .. hi - 1 in order, until it fails.
Each(op(_, _), r0, lo, hi) ==
  LET at[k \in (lo - 1) .. Max({lo, hi}) - 1] ==
        IF k = lo - 1 THEN r0 ELSE LET r == at[k - 1] IN IF r.ok THEN op(r.m, k) ELSE r
  IN  at[Max({lo, hi}) - 1]

\* vm_destroy
VmDestroyKeepsTables(m, p) ==
  LET s == m.space[p]
      page(n, a) == [ok |-> TRUE, m |-> IF s.pte[a].v /\ s.pte[a].owned THEN FrameFree(n, s.pte[a].frame) ELSE n]
      freed == Each(page, [ok |-> TRUE, m |-> m], 1, NPages + 1)
  IN  IF s.root = 0 THEN m ELSE [FrameFree(freed.m, s.root) EXCEPT !.space[p] = EmptySpace]
VmDestroy(m, p) ==
  LET s == m.space[p]
      page(n, a)  == [ok |-> TRUE, m |-> IF s.pte[a].v /\ s.pte[a].owned THEN FrameFree(n, s.pte[a].frame) ELSE n]
      table(n, i) == [ok |-> TRUE, m |-> FrameFree(n, s.table[i])]
      pagesFreed  == Each(page, [ok |-> TRUE, m |-> m], 1, NPages + 1)
      tablesFreed == Each(table, pagesFreed, 1, Cardinality(Tables) + 1)
  IN  IF s.root = 0 THEN m ELSE [FrameFree(tablesFreed.m, s.root) EXCEPT !.space[p] = EmptySpace]

\* mm_vm_clone: the child is complete before the parent loses its W bits.
Shared(e) == IF e.owned /\ e.w THEN [e EXCEPT !.w = FALSE, !.cow = TRUE] ELSE e
VmClone(m, c, p) ==
  LET copy(n, a) ==
        LET e == n.space[p].pte[a]
            t == IF n.space[p].table[TableOf(a)] = 0 THEN [ok |-> TRUE, m |-> n] ELSE L2Entry(n, c, a)
        IN  IF ~t.ok \/ ~e.v THEN t
            ELSE IF e.dev \/ (e.w /\ ~e.owned) THEN [t EXCEPT !.ok = FALSE]
            ELSE IF e.owned
            THEN [ok |-> TRUE, m |-> [t.m EXCEPT !.refs[e.frame] = @ + 1, !.space[c].pages = @ + 1,
                                                 !.space[c].pte[a] = Shared(e)]]
            ELSE [ok |-> TRUE, m |-> [t.m EXCEPT !.space[c].pte[a] = e]]
      r == Each(copy, VmCreate(m, c), 1, NPages + 1)
  IN  IF r.ok THEN [ok |-> TRUE, m |-> [r.m EXCEPT !.space[p].pte = [a \in Pages |-> Shared(@[a])]]]
      ELSE [ok |-> FALSE, m |-> VmDestroy(r.m, c)]

----------------------------------------------------------------------------
(* Processes *)

Fresh == [live |-> TRUE, heap |-> HeapStart, threads |-> 1, out |-> 0]

\* p runs: the CPU enforces it and a thread of it is not blocked.
Runnable(p) == live[p].live /\ live[p].threads > (IF live[p].out = 0 THEN 0 ELSE 1)
Runs(p) == active = p /\ Runnable(p)

\* What mm_reload does when the mappings of p changed.
NoReload(p) == UNCHANGED tlb
Reload(p) == tlb' = IF active = p THEN {} ELSE tlb
CowResolved(n, p) == \E a \in Pages : mm.space[p].pte[a].cow /\ ~n.space[p].pte[a].cow /\ n.space[p].pte[a].v

\* spawn_image: the space is built, and given up again when memory runs out; then the image is loaded.
Load(m, p) ==
  LET frames == {m.space[p].pte[a].frame : a \in Text}
  IN  [m EXCEPT !.data = [f \in Frames |-> IF f \in frames THEN ImageVal ELSE @[f]]]
Spawn(p, grant) ==
  LET block(m, a) == IF a \in Text THEN VmMap(m, p, a, FALSE)
                     ELSE IF a \in Data THEN VmMap(m, p, a, TRUE) ELSE [ok |-> TRUE, m |-> m]
      image == Each(block, VmCreate(mm, p), 1, NPages + 1)
      all   == IF image.ok /\ grant THEN VmMapPhys(image.m, p, Device) ELSE image
  IN  /\ ~live[p].live /\ (grant => Device # 0)
      /\ IF all.ok THEN mm' = Load(all.m, p) /\ live' = [live EXCEPT ![p] = Fresh]
         ELSE mm' = VmDestroy(all.m, p) /\ UNCHANGED live
      /\ checked' = {}
      /\ UNCHANGED <<active, tlb>>

\* proc_fork
MayFork(p) == live[p].threads = 1 /\ \A a \in Pages : ~mm.space[p].pte[a].dev
Fork(p, c) ==
  LET r == VmClone(mm, c, p)
  IN  /\ Runs(p) /\ MayFork(p) /\ ~live[c].live
      /\ mm' = r.m
      /\ IF r.ok THEN live' = [live EXCEPT ![c] = [Fresh EXCEPT !.heap = live[p].heap]] /\ Reload(p)
         ELSE UNCHANGED <<live, tlb>>
      /\ checked' = {}
      /\ UNCHANGED active

\* proc_mem_grow by n pages; what was mapped before frames ran out stays.
MemGrow(p, n) ==
  LET grow(m, a) == VmMap(m, p, a, TRUE)
      r == Each(grow, [ok |-> TRUE, m |-> mm], live[p].heap, live[p].heap + n)
  IN  /\ Runs(p) /\ live[p].heap + n <= HeapLimit
      /\ mm' = r.m
      /\ IF r.ok THEN live' = [live EXCEPT ![p].heap = @ + n] /\ Reload(p)
         ELSE UNCHANGED live /\ (IF CowResolved(r.m, p) THEN Reload(p) ELSE UNCHANGED tlb)
      /\ checked' = {}
      /\ UNCHANGED active

\* proc_exit: by p itself, by proc_kill or by a fault
Gone(p) ==
  /\ mm' = VmDestroy(mm, p) /\ live' = [live EXCEPT ![p] = NoProc]
  /\ active' = IF active = p THEN Nobody ELSE active
  /\ checked' = {} /\ UNCHANGED tlb
ProcExit(p) == live[p].live /\ Gone(p)

\* thread_create: a second thread
ThreadCreate(p) ==
  /\ Runs(p) /\ live[p].threads = 1
  /\ live' = [live EXCEPT ![p].threads = 2]
  /\ UNCHANGED <<mm, active, tlb, checked>>

\* sched_next: proc_activate, which writes PTBR and so empties the TLB.
ProcActivate(p) ==
  /\ Runnable(p) /\ active # p
  /\ active' = p /\ tlb' = {}
  /\ UNCHANGED <<mm, live, checked>>

----------------------------------------------------------------------------
(* The CPU in user mode *)

\* A translation the CPU has, else the one in the page table.
Walk(p, a) == LET e == mm.space[p].pte[a] IN IF e.v THEN {[a |-> a, frame |-> e.frame, w |-> e.w]} ELSE {}
Translation(p, a) == IF \E e \in tlb : e.a = a THEN {e \in tlb : e.a = a} ELSE Walk(p, a)

\* A load fills the TLB; without a translation it faults and ends the process.
UserLoad(p, a) ==
  /\ Runs(p)
  /\ IF Translation(p, a) # {} THEN tlb' = tlb \cup Translation(p, a) /\ UNCHANGED <<mm, live, active, checked>>
     ELSE Gone(p)

\* A store through a writable translation; otherwise kernel_trap resolves copy on write, and the store is
\* retried, or the process ends.
UserStore(p, a, v) ==
  LET t == Translation(p, a)
      r == VmCow(mm, p, a)
  IN  /\ Runs(p) /\ \A e \in t : e.frame # 0
      /\ IF \E e \in t : e.w
         THEN /\ \E e \in t : mm' = [mm EXCEPT !.data[e.frame] = v]
              /\ tlb' = tlb \cup t /\ UNCHANGED <<live, active, checked>>
         ELSE IF r.ok /\ t # {}
         THEN mm' = r.m /\ Reload(p) /\ checked' = {} /\ UNCHANGED <<live, active>>
         ELSE Gone(p)

----------------------------------------------------------------------------
(* The kernel's accesses for a process *)

\* proc_user_range_ok of one page, wanting W or R: an entry of the cache answers, else vm_range_ok, which
\* resolves copy on write.
Permits(e, w) == e.v /\ ~e.dev /\ (w => e.w \/ e.cow)
RangeOk(p, a, w) ==
  LET e == mm.space[p].pte[a]
      r == VmCow(mm, p, a)
  IN  IF <<p, a, w>> \in checked THEN [ok |-> TRUE, m |-> mm, checked |-> checked]
      ELSE IF ~Permits(e, w) THEN [ok |-> FALSE, m |-> mm, checked |-> checked]
      ELSE IF ~w \/ ~e.cow
      THEN [ok |-> TRUE, m |-> mm, checked |-> {x \in checked : x[1] = p /\ x[2] = a} \cup {<<p, a, w>>}]
      ELSE [ok |-> r.ok, m |-> r.m, checked |-> IF r.ok THEN {<<p, a, w>>} ELSE {}]

\* A system call checks a buffer; one that blocks keeps the page for its output.
CheckRange(p, a, w, blocks) ==
  LET r == RangeOk(p, a, w)
  IN  /\ Runs(p) /\ live[p].out = 0
      /\ mm' = r.m /\ checked' = r.checked
      /\ IF CowResolved(r.m, p) THEN Reload(p) ELSE UNCHANGED tlb
      /\ live' = IF r.ok /\ blocks THEN [live EXCEPT ![p].out = a] ELSE live
      /\ UNCHANGED active

\* vm_prepare_write of one page
Prepared(p, a) == IF mm.space[p].pte[a].cow THEN VmCow(mm, p, a) ELSE [ok |-> mm.space[p].pte[a].v, m |-> mm]

\* mm_vm_copy_to and mm_vm_copy: the blocked call ends and its output is written, if the page can be had.
KernelOutput(p, v) ==
  LET a == live[p].out
      e == mm.space[p].pte[a]
      r == Prepared(p, a)
  IN  /\ live[p].live /\ a # 0
      /\ mm' = IF r.ok THEN [r.m EXCEPT !.data[r.m.space[p].pte[a].frame] = v] ELSE mm
      /\ live' = [live EXCEPT ![p].out = 0]
      /\ checked' = IF e.cow THEN {} ELSE checked
      /\ IF e.cow /\ r.ok THEN Reload(p) ELSE UNCHANGED tlb
      /\ UNCHANGED active

----------------------------------------------------------------------------
\* vm_init
Init ==
  /\ mm = [refs |-> [f \in Frames |-> IF f <= Reserved THEN 1 ELSE 0], free |-> NFrames - Reserved,
           data |-> [f \in Frames |-> 0], space |-> [p \in Procs |-> EmptySpace]]
  /\ live = [p \in Procs |-> NoProc]
  /\ active = Nobody /\ tlb = {} /\ checked = {}

Next ==
  \E p \in Procs :
    \/ \E grant \in BOOLEAN : Spawn(p, grant)
    \/ \E c \in Procs : Fork(p, c)
    \/ \E n \in 1 .. HeapLimit : MemGrow(p, n)
    \/ ProcExit(p) \/ ThreadCreate(p) \/ ProcActivate(p)
    \/ \E a \in Pages : UserLoad(p, a) \/ \E v \in Vals : UserStore(p, a, v)
    \/ \E a \in Pages, w, blocks \in BOOLEAN : (blocks => w) /\ CheckRange(p, a, w, blocks)
    \/ \E v \in Vals : KernelOutput(p, v)

Spec == Init /\ [][Next]_vars

----------------------------------------------------------------------------
(* Properties *)

\* frame_refs counts exactly the page tables, tables and pages that use a frame, free_frames the free
\* ones, vm_pages the pages of a process: no fork that fails half way, exit or copy on write leaks a
\* frame or frees one twice, and no frame is a table and a page, or a page and the bounce buffer.
FramesExact ==
  /\ \A f \in Frames :
       mm.refs[f] = (IF f <= Reserved THEN 1 ELSE 0)
                    + Cardinality({p \in Procs : mm.space[p].root = f})
                    + Cardinality({x \in Procs \X Tables : mm.space[x[1]].table[x[2]] = f})
                    + Cardinality({x \in Procs \X Pages : LET e == mm.space[x[1]].pte[x[2]]
                                                          IN  e.v /\ e.owned /\ e.frame = f})
  /\ \A f \in Frames : mm.refs[f] > 1 => \A p \in Procs : mm.space[p].root # f /\ \A i \in Tables : mm.space[p].table[i] # f
  /\ mm.free = Cardinality({f \in Frames : mm.refs[f] = 0})
  /\ \A p \in Procs : mm.space[p].pages = Cardinality({a \in Pages : mm.space[p].pte[a].v /\ mm.space[p].pte[a].owned})

\* A frame that two pages share is writable through none of them, in the page tables and in the TLB of
\* the running process; the TLB never allows what the page table does not (mm_reload, proc_activate).
SharedIsReadOnly ==
  /\ \A p \in Procs, a \in Pages :
       LET e == mm.space[p].pte[a] IN e.v /\ e.owned /\ e.w => mm.refs[e.frame] = 1 /\ ~e.cow
  /\ active # Nobody =>
       \A e \in tlb : LET t == mm.space[active].pte[e.a] IN t.v /\ t.frame = e.frame /\ (e.w => t.w)

\* An answer of range_cache is the one vm_range_ok would give, and a page it calls writable needs no copy:
\* everything that changes a page table, or gives a process record to another process, bumps vm_epoch.
CheckedIsTrue ==
  \A x \in checked : LET e == mm.space[x[1]].pte[x[2]] IN Permits(e, x[3]) /\ (x[3] => ~e.cow)

\* The page a blocked call will fill stays mapped and private until then, so its output is never lost
\* (proc_fork refuses a process with two threads; vm_range_ok resolves copy on write before blocking).
OutputCannotFail ==
  \A p \in Procs : live[p].out # 0 =>
    LET e == mm.space[p].pte[live[p].out] IN e.v /\ e.owned /\ e.w

\* Nothing the CPU or the kernel remembers of a page is stale when it is used: translations, checked
\* ranges, and the output page of a blocked call.
NothingIsStale == SharedIsReadOnly /\ CheckedIsTrue /\ OutputCannotFail

\* Copy on write is invisible: every process sees its memory as if a fork had copied it, new pages are
\* zero, and nothing of a process that ended is seen by another.
View == [p \in Procs |-> [a \in Pages |-> LET e == mm.space[p].pte[a]
                                          IN  IF e.v /\ e.owned THEN <<mm.data[e.frame]>> ELSE <<>>]]
Private == INSTANCE MmPrivate WITH view <- View
ImplementsPrivate == Private!Spec
=============================================================================

----------------------------- MODULE IpcProofs -----------------------------
(***************************************************************************)
(* Proofs about Ipc for any number of threads, processes, ports, channels,    *)
(* interrupts and handles: its types, that no wakeup is lost, and that a       *)
(* process that ended owns nothing, which need no exact reference counts; then  *)
(* that nothing refers to what has ended: counts are exact, every CLIENT_GONE   *)
(* is owed once, and no wait, name, channel or interrupt leads to a record that  *)
(* is gone.                                                                   *)
(***************************************************************************)
EXTENDS Ipc, SequenceTheorems, FiniteSetTheorems, TLAPS

-----------------------------------------------------------------------------
(* Types, one part per variable.                                            *)

IrqRecords == [owner : Procs \cup {Null}, port : Ports \cup {Null}, pending : BOOLEAN,
               delivered : BOOLEAN, enable : BOOLEAN, latch : BOOLEAN]

ThrT     == thr \in [Threads -> ThreadRecords]
PstateT  == pstate \in [Procs -> {"FREE", "LIVE", "EXITED"}]
SpawnedT == spawned \in [Procs -> BOOLEAN]
HandlesT == handles \in [Procs -> [HandleNos -> Objects \cup {NoObj}]]
RefsT    == refs \in [Objects -> Int]
GoneT    == gone \in [Ports -> Seq(Chans)]
ChanT    == chan \in [Chans -> [used : BOOLEAN, port : Ports \cup {Null}]]
IrqT     == irq \in [Irqs -> IrqRecords]
ServiceT == service \in [Names -> Ports \cup {Null}]

\* The call the kernel is in the middle of, and the thread it serves.
KopT ==
  /\ kop \in [op : {"none", "recv", "call", "exit"}, thread : Threads \cup {Null},
              port : Ports \cup {Null}, proc : Procs \cup {Null},
              timeout : {"zero", "ticks", "forever"}]
  /\ kop.op = "recv" => /\ kop.thread \in Threads /\ kop.port \in Ports
                        /\ thr[kop.thread].state = "READY"
  /\ kop.op = "call" => /\ kop.thread \in Threads /\ kop.port \in Ports
                        /\ thr[kop.thread].state = "RECV" /\ thr[kop.thread].port = kop.port
  /\ kop.op = "exit" => kop.proc \in Procs

\* A thread that is not free belongs to a process; one in RECV is on a port.
HomeT ==
  \A t \in Threads :
    /\ thr[t].state # "FREE" => thr[t].proc \in Procs
    /\ thr[t].state = "RECV" => thr[t].port \in Ports

Types ==
  /\ ThrT /\ PstateT /\ SpawnedT /\ HandlesT /\ RefsT /\ GoneT /\ ChanT /\ IrqT /\ ServiceT
  /\ KopT /\ HomeT

-----------------------------------------------------------------------------
(* Lemmas about the helpers.                                                *)

\* What handles name is of the kind they say.
LEMMA Kinds ==
  ASSUME NEW o \in Objects \cup {NoObj}
  PROVE  /\ o[1] = "port" => o[2] \in Ports
         /\ o[1] = "chan" => o[2] \in Chans
         /\ o[1] = "proc" => o[2] \in Procs
         /\ o[1] = "thread" => o[2] \in Threads
BY DEF Objects, NoObj, PortObj, ChanObj, ProcObj, ThreadObj

\* A record of a ready thread is a thread record.
LEMMA ReadyType ==
  ASSUME NEW p \in Procs \cup {Null}
  PROVE  /\ ReadyThread(p) \in ThreadRecords
         /\ ReadyThread(p).state = "READY" /\ ReadyThread(p).proc = p
BY DEF ReadyThread, ThreadRecords, ThreadStates, HandleNos, NoHandle

\* sched_wake leaves everyone but those woken alone.
LEMMA WokenType ==
  ASSUME ThrT, NEW S
  PROVE  /\ Woken(S) \in [Threads -> ThreadRecords]
         /\ \A t \in Threads : /\ Woken(S)[t].proc = thr[t].proc
                               /\ t \notin S => Woken(S)[t] = thr[t]
                               /\ t \in S => Woken(S)[t].state = "READY"
<1>1. \A t \in Threads : thr[t] \in ThreadRecords /\ thr[t].proc \in Procs \cup {Null}
  BY DEF ThrT, ThreadRecords
<1>2. \A t \in Threads : ReadyThread(thr[t].proc) \in ThreadRecords
  BY <1>1, ReadyType
<1>3. QED
  BY <1>1, <1>2, ReadyType DEF Woken

\* A thread that calls waits in SEND; nobody else changes state.
LEMMA SendingType ==
  ASSUME ThrT, NEW t \in Threads, NEW k \in Ports, NEW x \in HandleNos \cup {NoHandle}
  PROVE  /\ Sending(t, k, x) \in [Threads -> ThreadRecords]
         /\ \A u \in Threads : /\ Sending(t, k, x)[u].proc = thr[u].proc
                               /\ u # t => /\ Sending(t, k, x)[u].state = thr[u].state
                                           /\ Sending(t, k, x)[u].port = thr[u].port
         /\ Sending(t, k, x)[t].state = "SEND" /\ Sending(t, k, x)[t].port = k
<1> DEFINE after(u) == IF u # t THEN [thr[u] EXCEPT !.ahead = @ \ {t}]
                       ELSE [thr[t] EXCEPT !.state = "SEND", !.port = k, !.xfer = x,
                                           !.ahead = {v \in Threads : thr[v].state = "SEND"}]
<1>1. ASSUME NEW u \in Threads
      PROVE  /\ after(u) \in ThreadRecords /\ after(u).proc = thr[u].proc
             /\ u # t => after(u).state = thr[u].state /\ after(u).port = thr[u].port
             /\ u = t => after(u).state = "SEND" /\ after(u).port = k
  <2>1. thr[u] \in ThreadRecords
    BY DEF ThrT
  <2>2. CASE u # t
    BY <2>1, <2>2 DEF ThreadRecords
  <2>3. CASE u = t
    BY <2>1, <2>3 DEF ThreadRecords, ThreadStates
  <2>4. QED
    BY <2>2, <2>3
<1>2. Sending(t, k, x) = [u \in Threads |-> after(u)]
  BY DEF Sending
<1> HIDE DEF after
<1>3. QED
  BY <1>1, <1>2

\* handle_add and handle_move keep the handle tables well formed.
LEMMA AddType ==
  ASSUME HandlesT, RefsT, NEW p \in Procs, NEW h \in HandleNos, NEW o \in Objects, HandleAdd(p, h, o)
  PROVE  HandlesT' /\ RefsT'
BY DEF HandlesT, RefsT, HandleAdd

LEMMA MoveType ==
  ASSUME HandlesT, NEW p \in Procs, NEW q \in Procs, NEW h \in HandleNos, HandleMove(p, h, q)
  PROVE  HandlesT'
<1>1. PICK g \in HandleNos : handles' = [handles EXCEPT ![q][g] = handles[p][h], ![p][h] = NoObj]
  BY DEF HandleMove
<1>2. handles[p][h] \in Objects \cup {NoObj}
  BY DEF HandlesT
<1> DEFINE mid == [handles EXCEPT ![q][g] = handles[p][h]]
<1>3. mid \in [Procs -> [HandleNos -> Objects \cup {NoObj}]]
  BY <1>2 DEF HandlesT
<1>4. handles' = [mid EXCEPT ![p][h] = NoObj]
  BY <1>1
<1>5. QED
  BY <1>3, <1>4 DEF HandlesT

\* Releasing interrupts.
LEMMA ReleaseType ==
  ASSUME IrqT, NEW S, IrqRelease(S)
  PROVE  /\ IrqT'
         /\ \A i \in Irqs : IF i \in S THEN irq'[i] = Unbound ELSE irq'[i] = irq[i]
BY DEF IrqT, IrqRelease, IrqRecords, Unbound

\* The threads after a step that only wakes some of them, none of which is the
\* thread the kernel is busy with.
LEMMA WakeTypes ==
  ASSUME ThrT, HomeT, NEW S, thr' = Woken(S), \A t \in S \cap Threads : thr[t].state # "FREE"
  PROVE  /\ ThrT' /\ HomeT'
         /\ (KopT /\ UNCHANGED kop /\ kop.op \in {"none", "recv", "exit"}) => KopT'
<1>1. /\ ThrT'
      /\ \A t \in Threads : /\ thr'[t].proc = thr[t].proc
                            /\ t \notin S => thr'[t] = thr[t]
                            /\ t \in S => thr'[t].state = "READY"
  BY WokenType DEF ThrT
<1>2. HomeT'
  BY <1>1 DEF HomeT
<1>3. ASSUME KopT, UNCHANGED kop, kop.op \in {"none", "recv", "exit"}
      PROVE  KopT'
  <2>1. kop.op # "call"
    BY <1>3
  <2>2. kop.op = "recv" => kop.thread \in Threads /\ thr[kop.thread].state = "READY"
    BY <1>3 DEF KopT
  <2>3. kop.op = "recv" => thr'[kop.thread].state = "READY"
    BY <1>1, <2>2
  <2>4. QED
    BY <1>3, <2>1, <2>3 DEF KopT
<1>4. QED
  BY <1>1, <1>2, <1>3

\* obj_unref and what the end of an object does.
LEMMA UnrefTypes ==
  ASSUME Types, NEW o \in Objects, Unref(o), UNCHANGED kop, kop.op \in {"none", "exit"}
  PROVE  /\ ThrT' /\ PstateT' /\ SpawnedT' /\ RefsT' /\ GoneT' /\ ChanT' /\ IrqT' /\ ServiceT'
         /\ KopT' /\ HomeT'
<1>1. RefsT'
  BY DEF Types, RefsT, Unref
<1>2. CASE o[1] = "port" /\ PortDestroy(o[2])
  <2>1. o[2] \in Ports
    BY <1>2, Kinds
  <2>2. ThrT' /\ HomeT' /\ KopT'
    <3>1. \A t \in OnPort(o[2]) : thr[t].state # "FREE"
      BY DEF OnPort
    <3>2. QED
      BY <1>2, <3>1, WakeTypes DEF PortDestroy, Types
  <2>3. IrqT'
    BY <1>2, ReleaseType DEF PortDestroy, Types
  <2>4. ChanT'
    BY <1>2 DEF PortDestroy, CutOff, Types, ChanT
  <2>5. ServiceT'
    BY <1>2 DEF PortDestroy, Forget, Types, ServiceT
  <2>6. GoneT'
    BY <1>2, <2>1 DEF PortDestroy, Types, GoneT
  <2>7. QED
    BY <1>1, <1>2, <2>2, <2>3, <2>4, <2>5, <2>6 DEF PortDestroy, Types, PstateT, SpawnedT
<1>3. CASE o[1] = "chan" /\ ChanLastClosed(o[2])
  <2> DEFINE c == o[2]
             k == chan[c].port
  <2>1. c \in Chans /\ k \in Ports \cup {Null}
    BY <1>3, Kinds DEF Types, ChanT
  <2>2. ThrT' /\ HomeT' /\ KopT'
    <3>1. CASE UNCHANGED thr
      BY <3>1 DEF Types, ThrT, HomeT, KopT
    <3>2. CASE \E r \in Receivers(k) : thr' = Woken({r})
      <4>1. \A r \in Receivers(k) : thr[r].state # "FREE"
        BY DEF Receivers
      <4>2. QED
        BY <3>2, <4>1, WakeTypes DEF Types
    <3>3. QED
      BY <1>3, <3>1, <3>2 DEF ChanLastClosed
  <2>3. GoneT' /\ ChanT'
    <3>1. CASE k = Null
      <4>1. chan' = [chan EXCEPT ![c].used = FALSE] /\ UNCHANGED gone
        BY <1>3, <3>1 DEF ChanLastClosed
      <4>2. QED
        BY <2>1, <4>1 DEF Types, GoneT, ChanT
    <3>2. CASE k # Null
      <4>1. k \in Ports /\ gone[k] \in Seq(Chans)
        BY <2>1, <3>2 DEF Types, GoneT
      <4>2. Append(gone[k], c) \in Seq(Chans) /\ Append(gone[k], c) # <<>>
        BY <4>1, <2>1, AppendProperties
      <4>3. Tail(Append(gone[k], c)) \in Seq(Chans) /\ Head(Append(gone[k], c)) \in Chans
        BY <4>2
      <4>4. CASE gone' = [gone EXCEPT ![k] = Append(@, c)] /\ UNCHANGED chan
        BY <4>1, <4>2, <4>4 DEF Types, GoneT, ChanT
      <4>5. CASE /\ gone' = [gone EXCEPT ![k] = Tail(Append(gone[k], c))]
                 /\ chan' = [chan EXCEPT ![Head(Append(gone[k], c))].used = FALSE]
        BY <4>1, <4>3, <4>5 DEF Types, GoneT, ChanT
      <4>6. QED
        BY <1>3, <3>2, <4>4, <4>5 DEF ChanLastClosed
    <3>3. QED
      BY <3>1, <3>2
  <2>4. QED
    BY <1>1, <1>3, <2>2, <2>3 DEF ChanLastClosed, Types, PstateT, SpawnedT, IrqT, ServiceT
<1>4. CASE o[1] = "proc" /\ ProcLastClosed(o[2])
  BY <1>1, <1>4, Kinds DEF ProcLastClosed, Types, ThrT, PstateT, SpawnedT, GoneT, ChanT, IrqT, ServiceT, KopT, HomeT
<1>5. CASE UNCHANGED <<thr, pstate, spawned, used, gone, chan, irq, service, send_blocked>>
  BY <1>1, <1>5 DEF Types, ThrT, PstateT, SpawnedT, GoneT, ChanT, IrqT, ServiceT, KopT, HomeT
<1>6. QED
  BY <1>2, <1>3, <1>4, <1>5 DEF Unref

LEMMA CloseTypes ==
  ASSUME Types, NEW p \in Procs, NEW h \in HandleNos, Close(p, h), UNCHANGED kop, kop.op \in {"none", "exit"}
  PROVE  Types'
<1>1. handles[p][h] \in Objects
  BY DEF Types, HandlesT, Close
<1>2. HandlesT'
  BY DEF Types, HandlesT, Close
<1>3. QED
  BY <1>1, <1>2, UnrefTypes DEF Types, Close

\* What a step leaves alone keeps its type.
LEMMA Keep ==
  /\ ThrT /\ UNCHANGED thr => ThrT'
  /\ HomeT /\ UNCHANGED thr => HomeT'
  /\ PstateT /\ UNCHANGED pstate => PstateT'
  /\ SpawnedT /\ UNCHANGED spawned => SpawnedT'
  /\ HandlesT /\ UNCHANGED handles => HandlesT'
  /\ RefsT /\ UNCHANGED refs => RefsT'
  /\ GoneT /\ UNCHANGED gone => GoneT'
  /\ ChanT /\ UNCHANGED chan => ChanT'
  /\ IrqT /\ UNCHANGED irq => IrqT'
  /\ ServiceT /\ UNCHANGED service => ServiceT'
  /\ KopT /\ UNCHANGED <<thr, kop>> => KopT'
BY DEF ThrT, HomeT, PstateT, SpawnedT, HandlesT, RefsT, GoneT, ChanT, IrqT, ServiceT, KopT

\* Between system calls nothing is asked of kop but its type.
LEMMA KopBetween ==
  ASSUME KopT, kop.op = "none", UNCHANGED kop
  PROVE  KopT'
BY DEF KopT

\* The thread that makes a system call has a process, and names objects.
LEMMA CallerHome ==
  ASSUME Types, NEW t \in Threads, NEW op, Calls(t, op)
  PROVE  /\ thr[t].proc \in Procs /\ thr[t].state = "READY" /\ kop.op = "none"
         /\ \A h \in HandleNos : /\ Holds(t, h, "port") => Named(t, h) \in Ports
                                 /\ Holds(t, h, "chan") => Named(t, h) \in Chans
                                 /\ Holds(t, h, "proc") => Named(t, h) \in Procs
                                 /\ Holds(t, h, "thread") => Named(t, h) \in Threads
<1>1. thr[t].proc \in Procs /\ thr[t].state = "READY" /\ kop.op = "none"
  BY DEF Types, HomeT, Calls
<1>2. \A h \in HandleNos : handles[thr[t].proc][h] \in Objects \cup {NoObj}
  BY <1>1 DEF Types, HandlesT
<1>3. QED
  BY <1>1, <1>2, Kinds DEF Holds, Named

LEMMA NewChannelTypes ==
  ASSUME Types, NEW t \in Threads, thr[t].proc \in Procs, NEW k \in Ports \cup {Null}, NewChannel(t, k)
  PROVE  Types'
<1>1. PICK c \in Chans, h \in HandleNos :
        HandleAdd(thr[t].proc, h, ChanObj(c)) /\ chan' = [chan EXCEPT ![c] = [used |-> TRUE, port |-> k]]
  BY DEF NewChannel
<1>2. HandlesT' /\ RefsT'
  <2>1. ChanObj(c) \in Objects
    BY DEF Objects
  <2>2. QED
    BY <1>1, <2>1, AddType DEF Types
<1>3. ChanT'
  BY <1>1 DEF Types, ChanT
<1>4. QED
  BY <1>2, <1>3, Keep DEF Types, NewChannel

\* Nothing but one interrupt line, with a well formed record, and threads woken.
LEMMA SetIrqTypes ==
  ASSUME Types, NEW i \in Irqs, NEW b \in IrqRecords, SetIrq(i, b),
         UNCHANGED thr \/ (kop.op = "none" /\ \E r \in Threads : thr[r].state = "RECV" /\ thr' = Woken({r}))
  PROVE  Types'
<1>1. IrqT'
  BY DEF Types, IrqT, SetIrq
<1>2. ThrT' /\ HomeT' /\ KopT'
  <2>1. CASE UNCHANGED thr
    BY <2>1, Keep DEF Types, SetIrq
  <2>2. CASE kop.op = "none" /\ \E r \in Threads : thr[r].state = "RECV" /\ thr' = Woken({r})
    BY <2>2, WakeTypes DEF Types, SetIrq
  <2>3. QED
    BY <2>1, <2>2
<1>3. QED
  BY <1>1, <1>2, Keep DEF Types, SetIrq

\* sys_ipc_reply wakes the caller and may move a handle.
LEMMA ReplyTypes ==
  ASSUME Types, NEW t \in Threads, thr[t].proc \in Procs, NEW u \in Threads,
         NEW x \in HandleNos \cup {NoHandle}, Reply(t, u, x)
  PROVE  /\ ThrT' /\ HomeT' /\ HandlesT' /\ PstateT' /\ SpawnedT' /\ RefsT' /\ GoneT' /\ ChanT' /\ IrqT' /\ ServiceT'
         /\ thr[u].state = "REPLY" /\ thr' = Woken({u})
<1>1. thr[u].state = "REPLY" /\ thr' = Woken({u}) /\ thr[u].proc \in Procs
  BY DEF Reply, TokenCaller, Types, HomeT
<1>2. ThrT' /\ HomeT'
  BY <1>1, WakeTypes DEF Types
<1>3. HandlesT'
  <2>1. CASE UNCHANGED handles
    BY <2>1, Keep DEF Types
  <2>2. CASE x # NoHandle /\ HandleMove(thr[t].proc, x, thr[u].proc)
    BY <1>1, <2>2, MoveType DEF Types
  <2>3. QED
    BY <2>1, <2>2 DEF Reply
<1>4. QED
  BY <1>1, <1>2, <1>3, Keep DEF Types, Reply

\* proc_exit begins.
LEMMA ExitBeginTypes ==
  ASSUME Types, NEW p \in Procs, ExitBegin(p)
  PROVE  Types'
<1>1. ThrT'
  <2>1. [ReadyThread(p) EXCEPT !.state = "DEAD"] \in ThreadRecords
    BY DEF ReadyThread, ThreadRecords, ThreadStates, HandleNos, NoHandle
  <2>2. QED
    BY <2>1 DEF ExitBegin, Types, ThrT
<1>2. HomeT'
  BY DEF ExitBegin, Types, HomeT, ReadyThread, LiveThreads, Alive
<1>3. IrqT'
  BY ReleaseType DEF ExitBegin, Types
<1>4. PstateT'
  BY DEF ExitBegin, Types, PstateT
<1>5. KopT'
  BY DEF ExitBegin, Types, KopT, Idle
<1>6. QED
  BY <1>1, <1>2, <1>3, <1>4, <1>5, Keep DEF Types, ExitBegin

\* A process starts with a table of handles.
LEMMA StartProcTypes ==
  ASSUME Types, NEW t \in Threads, thr[t].proc \in Procs, kop.op = "none", NEW c \in Procs,
         NEW table \in [HandleNos -> Objects \cup {NoObj}], StartProc(t, c, table)
  PROVE  Types'
<1>1. PICK u \in Threads : thr' = [thr EXCEPT ![u] = ReadyThread(c)]
  BY DEF StartProc
<1>2. ThrT' /\ HomeT'
  BY <1>1, ReadyType DEF Types, ThrT, HomeT
<1>3. HandlesT'
  <2>1. PICK h \in HandleNos : handles' = [handles EXCEPT ![c] = table, ![thr[t].proc][h] = ProcObj(c)]
    BY DEF StartProc
  <2>2. ProcObj(c) \in Objects
    BY DEF Objects
  <2> DEFINE mid == [handles EXCEPT ![c] = table]
  <2>3. mid \in [Procs -> [HandleNos -> Objects \cup {NoObj}]]
    BY DEF Types, HandlesT
  <2>4. handles' = [mid EXCEPT ![thr[t].proc][h] = ProcObj(c)]
    BY <2>1
  <2>5. QED
    BY <2>2, <2>3, <2>4 DEF HandlesT
<1>4. RefsT'
  <2>1. \A o : Naming(table, o) \in Int
    <3>1. ASSUME NEW o PROVE Naming(table, o) \in Int
      <4>1. IsFiniteSet(HandleNos)
        BY FS_Interval, IpcAssumption DEF HandleNos
      <4>2. IsFiniteSet({h \in HandleNos : table[h] = o})
        BY <4>1, FS_Subset
      <4>3. QED
        BY <4>2, FS_CardinalityType DEF Naming
    <3>2. QED
      BY <3>1
  <2>2. QED
    BY <2>1 DEF StartProc, Types, RefsT
<1>5. PstateT' /\ SpawnedT'
  BY DEF StartProc, Types, PstateT, SpawnedT
<1>6. KopT'
  BY KopBetween DEF StartProc, Types
<1>7. QED
  BY <1>2, <1>3, <1>4, <1>5, <1>6, Keep DEF StartProc, Types

\* Every system call keeps the types.
LEMMA SyscallTypes ==
  ASSUME Types, NEW t \in Threads, Syscall(t)
  PROVE  Types'
<1>1. CASE PortCreate(t)
  <2>1. PICK k \in Ports, h \in HandleNos :
          HandleAdd(thr[t].proc, h, PortObj(k)) /\ gone' = [gone EXCEPT ![k] = <<>>]
    BY <1>1 DEF PortCreate
  <2>2. PortObj(k) \in Objects /\ thr[t].proc \in Procs
    BY <1>1, CallerHome DEF Objects, PortCreate
  <2>3. HandlesT' /\ RefsT'
    BY <2>1, <2>2, AddType DEF Types
  <2>4. GoneT'
    BY <2>1 DEF Types, GoneT
  <2>5. QED
    BY <1>1, <2>3, <2>4, Keep DEF Types, PortCreate
<1>2. CASE ThreadCreate(t)
  <2>1. PICK u \in Threads, h \in HandleNos :
          HandleAdd(thr[t].proc, h, ThreadObj(u)) /\ thr' = [thr EXCEPT ![u] = ReadyThread(thr[t].proc)]
    BY <1>2 DEF ThreadCreate
  <2>2. ThreadObj(u) \in Objects /\ thr[t].proc \in Procs /\ kop.op = "none"
    BY <1>2, CallerHome DEF Objects, ThreadCreate
  <2>3. HandlesT' /\ RefsT'
    BY <2>1, <2>2, AddType DEF Types
  <2>4. ThrT' /\ HomeT'
    BY <2>1, <2>2, ReadyType DEF Types, ThrT, HomeT
  <2>5. KopT'
    BY <1>2, <2>2, KopBetween DEF Types, ThreadCreate
  <2>6. QED
    BY <1>2, <2>3, <2>4, <2>5, Keep DEF Types, ThreadCreate
<1>3. CASE \E h \in HandleNos : ChanCreate(t, h)
  BY <1>3, CallerHome, NewChannelTypes DEF ChanCreate
<1>4. CASE \E h \in HandleNos : HandleClose(t, h)
  BY <1>4, CallerHome, CloseTypes DEF HandleClose
<1>5. CASE \E h \in HandleNos : HandleDup(t, h)
  <2>1. PICK h \in HandleNos : HandleDup(t, h)
    BY <1>5
  <2>2. thr[t].proc \in Procs
    BY <2>1, CallerHome DEF HandleDup
  <2>3. handles[thr[t].proc][h] \in Objects
    BY <2>1, <2>2 DEF HandleDup, Holds, NoObj, Types, HandlesT
  <2>4. HandlesT' /\ RefsT'
    BY <2>1, <2>2, <2>3, AddType DEF Types, HandleDup
  <2>5. QED
    BY <2>1, <2>4, Keep DEF Types, HandleDup
<1>6. CASE \E n \in Names : SvcLookup(t, n)
  <2>1. PICK n \in Names : SvcLookup(t, n)
    BY <1>6
  <2>2. service[n] \in Ports \cup {Null} /\ thr[t].proc \in Procs
    BY <2>1, CallerHome DEF SvcLookup, Types, ServiceT
  <2>3. QED
    BY <2>1, <2>2, NewChannelTypes DEF SvcLookup
<1>7. CASE \E n \in Names, h \in HandleNos : SvcRegister(t, n, h)
  <2>1. PICK n \in Names, h \in HandleNos : SvcRegister(t, n, h)
    BY <1>7
  <2>2. Named(t, h) \in Ports
    BY <2>1, CallerHome DEF SvcRegister
  <2>3. ServiceT'
    BY <2>1, <2>2 DEF SvcRegister, Types, ServiceT
  <2>4. QED
    BY <2>1, <2>3, Keep DEF Types, SvcRegister
<1>8. CASE \E i \in Irqs : IrqAck(t, i)
  <2>1. PICK i \in Irqs : IrqAck(t, i)
    BY <1>8
  <2>2. [irq[i] EXCEPT !.delivered = FALSE, !.latch = FALSE, !.enable = TRUE] \in IrqRecords
    BY DEF Types, IrqT, IrqRecords
  <2>3. QED
    BY <2>1, <2>2, SetIrqTypes DEF IrqAck
<1>9. CASE \E i \in Irqs, h \in HandleNos : IrqBind(t, i, h)
  <2>1. PICK i \in Irqs, h \in HandleNos : IrqBind(t, i, h)
    BY <1>9
  <2>2. Named(t, h) \in Ports /\ thr[t].proc \in Procs
    BY <2>1, CallerHome DEF IrqBind
  <2>3. [owner |-> thr[t].proc, port |-> Named(t, h), pending |-> FALSE,
         delivered |-> FALSE, enable |-> TRUE, latch |-> irq[i].latch] \in IrqRecords
    BY <2>2 DEF Types, IrqT, IrqRecords
  <2>4. QED
    BY <2>1, <2>3, SetIrqTypes DEF IrqBind
<1>10. CASE \E h \in HandleNos, x \in HandleNos \cup {NoHandle} : IpcCall(t, h, x)
  <2>1. PICK h \in HandleNos, x \in HandleNos \cup {NoHandle} : IpcCall(t, h, x)
    BY <1>10
  <2> DEFINE k == chan[Named(t, h)].port
  <2>2. Named(t, h) \in Chans /\ thr[t].state = "READY" /\ thr[t].proc \in Procs /\ kop.op = "none"
    BY <2>1, CallerHome DEF IpcCall
  <2>3. k \in Ports /\ thr' = Sending(t, k, x)
    BY <2>1, <2>2 DEF IpcCall, Types, ChanT
  <2>4. ThrT' /\ \A u \in Threads : /\ thr'[u].proc = thr[u].proc
                                    /\ u # t => thr'[u].state = thr[u].state /\ thr'[u].port = thr[u].port
                                    /\ u = t => thr'[u].state = "SEND"
    BY <2>3, SendingType DEF Types, ThrT
  <2>5. HomeT'
    BY <2>2, <2>4 DEF Types, HomeT
  <2>6. KopT'
    <3>1. CASE UNCHANGED kop
      BY <3>1, <2>2, KopBetween DEF Types
    <3>2. CASE \E r \in Receivers(k) : kop' = [Idle EXCEPT !.op = "call", !.thread = r, !.port = k]
      BY <3>2, <2>2, <2>3, <2>4, ZenonT(60) DEF Receivers, KopT, Idle
    <3>3. QED
      BY <2>1, <3>1, <3>2 DEF IpcCall
  <2>7. QED
    BY <2>1, <2>4, <2>5, <2>6, Keep DEF Types, IpcCall
<1>11. CASE \E h \in HandleNos, timeout \in {"zero", "ticks", "forever"} : IpcRecv(t, h, timeout)
  <2>1. PICK h \in HandleNos, timeout \in {"zero", "ticks", "forever"} : IpcRecv(t, h, timeout)
    BY <1>11
  <2>2. Named(t, h) \in Ports /\ thr[t].state = "READY"
    BY <2>1, CallerHome DEF IpcRecv
  <2>3. KopT'
    BY <2>1, <2>2 DEF IpcRecv, BeginRecv, Idle, KopT
  <2>4. QED
    BY <2>1, <2>3, Keep DEF Types, IpcRecv
<1>12. CASE \E u \in Threads, x \in HandleNos \cup {NoHandle} : IpcReply(t, u, x)
  <2>1. PICK u \in Threads, x \in HandleNos \cup {NoHandle} : IpcReply(t, u, x)
    BY <1>12
  <2>2. thr[t].proc \in Procs /\ kop.op = "none"
    BY <2>1, CallerHome DEF IpcReply
  <2>3. KopT'
    BY <2>1, <2>2, KopBetween DEF Types, IpcReply
  <2>4. QED
    BY <2>1, <2>2, <2>3, ReplyTypes DEF Types, IpcReply
<1>13. CASE \E h \in HandleNos, u \in Threads, x \in HandleNos \cup {NoHandle},
               timeout \in {"zero", "ticks", "forever"} : IpcReplyRecv(t, u, x, h, timeout)
  <2>1. PICK h \in HandleNos, u \in Threads, x \in HandleNos \cup {NoHandle},
             timeout \in {"zero", "ticks", "forever"} : IpcReplyRecv(t, u, x, h, timeout)
    BY <1>13
  <2>2. thr[t].proc \in Procs /\ thr[t].state = "READY" /\ kop.op = "none"
    BY <2>1, CallerHome DEF IpcReplyRecv
  <2>3. HandlesT' /\ ThrT' /\ thr[u].state = "REPLY" /\ thr' = Woken({u})
    BY <2>1, <2>2, ReplyTypes DEF IpcReplyRecv
  <2>4. KopT'
    <3>1. CASE UNCHANGED kop
      BY <3>1, <2>2, KopBetween DEF Types
    <3>2. CASE /\ handles'[thr[t].proc][h][1] = "port"
               /\ BeginRecv(t, handles'[thr[t].proc][h][2], timeout)
      <4>1. handles'[thr[t].proc][h] \in Objects \cup {NoObj}
        BY <2>2, <2>3 DEF HandlesT
      <4>2. handles'[thr[t].proc][h][2] \in Ports
        BY <3>2, <4>1, Kinds
      <4>3. thr'[t].state = "READY"
        BY <2>2, <2>3, WokenType DEF Types
      <4>4. QED
        BY <3>2, <4>2, <4>3 DEF BeginRecv, Idle, KopT
    <3>3. QED
      BY <2>1, <3>1, <3>2 DEF IpcReplyRecv
  <2>5. QED
    BY <2>1, <2>2, <2>4, ReplyTypes DEF Types, IpcReplyRecv
<1>14. CASE \E h \in HandleNos, timeout \in {"ticks", "forever"} : Wait(t, h, timeout)
  <2>1. PICK h \in HandleNos, timeout \in {"ticks", "forever"} : Wait(t, h, timeout)
    BY <1>14
  <2>2. thr[t].proc \in Procs /\ kop.op = "none"
    BY <2>1, CallerHome DEF Wait
  <2>3. (Holds(t, h, "proc") => Named(t, h) \in Procs) /\ (Holds(t, h, "thread") => Named(t, h) \in Threads)
    BY <2>1, CallerHome DEF Wait
  <2>4. ThrT' /\ HomeT'
    BY <2>1, <2>2, <2>3 DEF Wait, Types, ThrT, HomeT, ThreadRecords, ThreadStates
  <2>5. KopT'
    BY <2>1, <2>2, KopBetween DEF Types, Wait
  <2>6. QED
    BY <2>1, <2>4, <2>5, Keep DEF Types, Wait
<1>15. CASE ProcExit(t) \/ LastThreadExit(t) \/ \E h \in HandleNos : ProcKill(t, h)
  BY <1>15, CallerHome, ExitBeginTypes DEF ProcExit, LastThreadExit, ProcKill
<1>16. CASE ThreadExit(t)
  <2>1. thr[t].proc \in Procs /\ kop.op = "none"
    BY <1>16, CallerHome DEF ThreadExit
  <2>2. /\ Woken(Joining(t)) \in [Threads -> ThreadRecords]
        /\ \A u \in Threads : /\ Woken(Joining(t))[u].proc = thr[u].proc
                              /\ u \notin Joining(t) => Woken(Joining(t))[u] = thr[u]
                              /\ u \in Joining(t) => thr[u].state = "WAIT" /\ Woken(Joining(t))[u].state = "READY"
    BY WokenType DEF Types, Joining
  <2>3. ThrT' /\ HomeT'
    BY <1>16, <2>1, <2>2, SMTT(30) DEF ThreadExit, Types, ThrT, HomeT, ThreadRecords, ThreadStates
  <2>4. KopT'
    BY <1>16, <2>1, KopBetween DEF Types, ThreadExit
  <2>5. QED
    BY <1>16, <2>3, <2>4, Keep DEF Types, ThreadExit
<1>17. CASE Fork(t)
  <2>1. thr[t].proc \in Procs /\ kop.op = "none"
    BY <1>17, CallerHome DEF Fork
  <2>2. handles[thr[t].proc] \in [HandleNos -> Objects \cup {NoObj}]
    BY <2>1 DEF Types, HandlesT
  <2>3. QED
    BY <1>17, <2>1, <2>2, StartProcTypes DEF Fork
<1>18. CASE \E n \in 0 .. MaxSpawnHandles : \E list \in [1 .. n -> HandleNos] : Spawn(t, list)
  <2>1. PICK n \in 0 .. MaxSpawnHandles : \E list \in [1 .. n -> HandleNos] : Spawn(t, list)
    BY <1>18
  <2>2. PICK list \in [1 .. n -> HandleNos] : Spawn(t, list)
    BY <2>1
  <2>3. thr[t].proc \in Procs /\ kop.op = "none"
    BY <2>2, CallerHome DEF Spawn
  <2>4. \A i \in 1 .. n : handles[thr[t].proc][list[i]] \in Objects \cup {NoObj}
    BY <2>3 DEF Types, HandlesT
  <2>5. PassedTable(thr[t].proc, list) \in [HandleNos -> Objects \cup {NoObj}]
    BY <2>4 DEF PassedTable
  <2>6. QED
    BY <2>2, <2>3, <2>5, StartProcTypes DEF Spawn
<1>19. QED
  BY <1>1, <1>2, <1>3, <1>4, <1>5, <1>6, <1>7, <1>8, <1>9, <1>10, <1>11, <1>12, <1>13, <1>14,
     <1>15, <1>16, <1>17, <1>18 DEF Syscall

\* So do the steps of the kernel inside a system call ...
LEMMA KernelTypes ==
  ASSUME Types, KernelStep
  PROVE  Types'
<1> DEFINE r == kop.thread
<1>1. Taking => /\ r \in Threads /\ kop.port \in Ports /\ thr[r].proc \in Procs
                /\ thr[r].state \in {"READY", "RECV"}
  BY DEF Taking, Types, KopT, HomeT
<1>2. ASSUME NEW table \in [Threads -> ThreadRecords], Taking, Served(table), kop' = Idle,
             \A u \in Threads : table[u].proc = thr[u].proc /\ (table[u].state = "RECV" => table[u].port \in Ports),
             \A u \in Threads : table[u].state # "FREE" => thr[u].state # "FREE"
      PROVE  ThrT' /\ HomeT' /\ KopT'
  <2>1. ReadyThread(thr[r].proc) \in ThreadRecords /\ ReadyThread(thr[r].proc).proc = thr[r].proc
        /\ ReadyThread(thr[r].proc).state = "READY"
    BY <1>1, <1>2, ReadyType
  <2>2. thr' = [table EXCEPT ![r] = ReadyThread(thr[r].proc)]
    BY <1>1, <1>2 DEF Served
  <2>3. ThrT'
    BY <2>1, <2>2 DEF ThrT
  <2>4. HomeT'
    BY <1>1, <1>2, <2>1, <2>2 DEF HomeT, Types
  <2>5. QED
    BY <1>2, <2>3, <2>4 DEF KopT, Idle
<1>3. CASE \E i \in Irqs : TakeIrq(i)
  <2>1. ThrT' /\ HomeT' /\ KopT'
    BY <1>2, <1>3 DEF TakeIrq, Types, ThrT, HomeT
  <2>2. IrqT'
    <3>1. PICK i \in Irqs : TakeIrq(i)
      BY <1>3
    <3>2. [irq[i] EXCEPT !.pending = FALSE, !.delivered = TRUE] \in IrqRecords
      BY DEF Types, IrqT, IrqRecords
    <3>3. irq' = [irq EXCEPT ![i] = [irq[i] EXCEPT !.pending = FALSE, !.delivered = TRUE]]
      BY <3>1 DEF TakeIrq, Types, IrqT, IrqRecords
    <3>4. QED
      BY <3>2, <3>3 DEF Types, IrqT
  <2>3. QED
    BY <1>3, <2>1, <2>2, Keep DEF Types, TakeIrq
<1>4. CASE TakeGone
  <2>1. ThrT' /\ HomeT' /\ KopT'
    BY <1>2, <1>4 DEF TakeGone, Types, ThrT, HomeT
  <2>2. Tail(gone[kop.port]) \in Seq(Chans) /\ Head(gone[kop.port]) \in Chans
    BY <1>1, <1>4, HeadTailProperties DEF TakeGone, Types, GoneT
  <2>3. GoneT' /\ ChanT'
    BY <1>1, <1>4, <2>2 DEF TakeGone, Types, GoneT, ChanT
  <2>4. QED
    BY <1>4, <2>1, <2>3, Keep DEF Types, TakeGone
<1>5. CASE \E u \in Threads : TakeCall(u)
  <2>1. PICK u \in Threads : TakeCall(u)
    BY <1>5
  <2>2. Taking /\ thr[u].state = "SEND" /\ thr[u].proc \in Procs
    BY <2>1 DEF TakeCall, NextItemIsCall, NextCaller, Callers, Types, HomeT
  <2> DEFINE table == [thr EXCEPT ![u].state = "REPLY", ![u].wait_proc = thr[r].proc, ![u].xfer = NoHandle]
  <2>3. /\ table \in [Threads -> ThreadRecords]
        /\ \A v \in Threads : /\ table[v].proc = thr[v].proc
                              /\ v # u => table[v] = thr[v]
                              /\ v = u => table[v].state = "REPLY"
    <3> DEFINE new == [thr[u] EXCEPT !.state = "REPLY", !.wait_proc = thr[r].proc, !.xfer = NoHandle]
    <3>1. thr[u] \in ThreadRecords
      BY DEF Types, ThrT
    <3>2. new \in ThreadRecords /\ new.proc = thr[u].proc /\ new.state = "REPLY"
      BY <1>1, <2>2, <3>1 DEF ThreadRecords, ThreadStates, NoHandle
    <3>3. table = [thr EXCEPT ![u] = new]
      BY DEF Types, ThrT
    <3> HIDE DEF new
    <3>4. QED
      BY <3>2, <3>3 DEF Types, ThrT
  <2>4. Served(table) /\ kop' = Idle
    BY <2>1 DEF TakeCall
  <2> HIDE DEF table
  <2>5. ThrT' /\ HomeT' /\ KopT'
    BY <1>2, <2>2, <2>3, <2>4 DEF Types, HomeT
  <2>6. HandlesT'
    <3>1. CASE UNCHANGED handles
      BY <3>1, Keep DEF Types
    <3>2. CASE thr[u].xfer # NoHandle /\ HandleMove(thr[u].proc, thr[u].xfer, thr[r].proc)
      <4>1. thr[u].xfer \in HandleNos
        BY <3>2 DEF Types, ThrT, ThreadRecords
      <4>2. QED
        BY <1>1, <2>2, <3>2, <4>1, MoveType DEF Types
    <3>3. QED
      BY <2>1, <3>1, <3>2 DEF TakeCall
  <2>7. QED
    BY <2>1, <2>5, <2>6, Keep DEF Types, TakeCall
<1>6. CASE \E u \in Threads : TakeCallFailed(u)
  <2>1. PICK u \in Threads : TakeCallFailed(u)
    BY <1>6
  <2>2. Taking /\ thr[u].state = "SEND" /\ thr' = Woken({u}) /\ UNCHANGED kop
    BY <2>1 DEF TakeCallFailed, NextItemIsCall, NextCaller, Callers
  <2>3. ThrT' /\ HomeT'
    BY <2>2, WakeTypes DEF Types
  <2>4. thr'[r] = thr[r]
    BY <1>1, <2>2, WokenType DEF Types
  <2>5. KopT'
    BY <2>2, <2>4 DEF Types, KopT, Taking
  <2>6. QED
    BY <2>1, <2>3, <2>5, Keep DEF Types, TakeCallFailed
<1>7. CASE TakeNone
  <2>1. ThrT' /\ HomeT'
    BY <1>1, <1>7 DEF TakeNone, Types, ThrT, HomeT, ThreadRecords, ThreadStates
  <2>2. KopT'
    BY <1>7 DEF TakeNone, KopT, Idle
  <2>3. QED
    BY <1>7, <2>1, <2>2, Keep DEF Types, TakeNone
<1>8. CASE \E h \in HandleNos : ExitClose(h)
  BY <1>8, CloseTypes DEF ExitClose, Types, KopT
<1>9. CASE ExitEnd
  <2>1. ThrT' /\ HomeT'
    <3>1. \A t \in Waiters(kop.proc) : thr[t].state # "FREE"
      BY DEF Waiters
    <3>2. QED
      BY <1>9, <3>1, WakeTypes DEF ExitEnd, Types
  <2>2. PstateT'
    BY <1>9 DEF ExitEnd, Types, PstateT
  <2>3. KopT'
    BY <1>9 DEF ExitEnd, KopT, Idle
  <2>4. QED
    BY <1>9, <2>1, <2>2, <2>3, Keep DEF Types, ExitEnd
<1>10. QED
  BY <1>3, <1>4, <1>5, <1>6, <1>7, <1>8, <1>9 DEF KernelStep

\* ... and the interrupts.
LEMMA InterruptTypes ==
  ASSUME Types, Interrupt
  PROVE  Types'
<1>1. CASE \E i \in Irqs : IrqRaise(i)
  <2>1. PICK i \in Irqs : IrqRaise(i)
    BY <1>1
  <2>2. [irq[i] EXCEPT !.latch = TRUE] \in IrqRecords
    BY DEF Types, IrqT, IrqRecords
  <2>3. QED
    BY <2>1, <2>2, SetIrqTypes DEF IrqRaise
<1>2. CASE \E i \in Irqs : IrqNotify(i)
  <2>1. PICK i \in Irqs : IrqNotify(i)
    BY <1>2
  <2>2. /\ Masked(i) \in IrqRecords
        /\ [Masked(i) EXCEPT !.pending = TRUE] \in IrqRecords
        /\ [Masked(i) EXCEPT !.delivered = TRUE] \in IrqRecords
    BY DEF Types, IrqT, IrqRecords, Masked
  <2>3. QED
    BY <2>1, <2>2, SetIrqTypes DEF IrqNotify, Notify, QueueIrq, Receivers
<1>3. CASE \E t \in Threads : TimedOut(t)
  <2>1. PICK t \in Threads : TimedOut(t)
    BY <1>3
  <2>2. ThrT' /\ HomeT' /\ KopT'
    BY <2>1, WakeTypes DEF TimedOut, Blocked, Types
  <2>3. QED
    BY <2>1, <2>2, Keep DEF Types, TimedOut
<1>4. QED
  BY <1>1, <1>2, <1>3 DEF Interrupt

\* The types hold at the start.
LEMMA InitTypes == Init => Types
<1> SUFFICES ASSUME Init PROVE Types
  OBVIOUS
<1>1. PICK t \in Threads, p \in Procs :
        thr = [u \in Threads |-> IF u = t THEN ReadyThread(p) ELSE [ReadyThread(Null) EXCEPT !.state = "FREE"]]
  BY DEF Init
<1>2. ThrT /\ HomeT
  BY <1>1 DEF ThrT, HomeT, ReadyThread, ThreadRecords, ThreadStates, HandleNos, NoHandle
<1>3. PstateT
  BY DEF Init, PstateT
<1>4. GoneT
  BY DEF Init, GoneT
<1>5. KopT
  BY DEF Init, KopT, Idle
<1>6. QED
  BY <1>2, <1>3, <1>4, <1>5 DEF Init, Types, SpawnedT, HandlesT, RefsT, ChanT, IrqT, IrqRecords, ServiceT

\* Types is an invariant of the kernel.
THEOREM TypesHold == Spec => []Types
<1>1. Types /\ [Next]_vars => Types'
  <2> SUFFICES ASSUME Types, [Next]_vars PROVE Types'
    OBVIOUS
  <2>1. CASE Next
    BY <2>1, SyscallTypes, KernelTypes, InterruptTypes DEF Next
  <2>2. CASE UNCHANGED vars
    BY <2>2, Keep DEF Types, vars
  <2>3. QED
    BY <2>1, <2>2
<1>2. QED
  BY <1>1, InitTypes, PTL DEF Spec

-----------------------------------------------------------------------------
(***************************************************************************)
(* NoLostWakeup: a thread blocked in RECV never has a call, a CLIENT_GONE or  *)
(* an interrupt waiting on its port.                                        *)
(***************************************************************************)

-----------------------------------------------------------------------------
(* The inductive invariant.  NoLostWakeup speaks of the states between       *)
(* system calls; inside sys_ipc_call the caller is already in SEND while the *)
(* receiver it found is still in RECV, so the invariant says that such a     *)
(* pair is the one the kernel is busy with, and that the caller is alone.    *)

Marked == \A u \in Threads : thr[u].state = "SEND" => u \in send_blocked

QuietPort(k) == gone[k] = <<>> /\ \A i \in Irqs : ~(irq[i].pending /\ irq[i].port = k)

Quiet == \A t \in Threads, k \in Ports : thr[t].state = "RECV" /\ thr[t].port = k => QuietPort(k)

MetInCall ==
  \A t, u \in Threads :
    thr[t].state = "RECV" /\ thr[u].state = "SEND" /\ thr[u].port = thr[t].port
      => kop.op = "call" /\ kop.port = thr[t].port

OneCaller ==
  kop.op = "call" =>
    \A u, v \in Threads :
      thr[u].state = "SEND" /\ thr[u].port = kop.port /\ thr[v].state = "SEND" /\ thr[v].port = kop.port => u = v

WakeInv == Marked /\ Quiet /\ MetInCall /\ OneCaller

-----------------------------------------------------------------------------
(* Most steps only take threads out of SEND and RECV and leave ports quiet.   *)

NoNewWaiters ==
  \A t \in Threads : thr'[t].state \in {"SEND", "RECV"} => thr[t].state = thr'[t].state /\ thr[t].port = thr'[t].port

StayMarked == \A u \in Threads : thr'[u].state = "SEND" /\ u \in send_blocked => u \in send_blocked'

StayQuiet ==
  \A t \in Threads, k \in Ports :
    thr'[t].state = "RECV" /\ thr[t].port = k /\ QuietPort(k) => QuietPort(k)'

SameCall == UNCHANGED kop \/ (kop.op # "call" /\ kop'.op # "call")

\* Such a step keeps the invariant.
LEMMA WakeStep ==
  ASSUME WakeInv, NoNewWaiters, StayMarked, StayQuiet, SameCall
  PROVE  WakeInv'
<1>1. Marked'
  BY DEF WakeInv, Marked, NoNewWaiters, StayMarked
<1>2. Quiet'
  BY DEF WakeInv, Quiet, StayQuiet, NoNewWaiters
<1>3. MetInCall'
  BY DEF WakeInv, MetInCall, NoNewWaiters, SameCall
<1>4. OneCaller'
  BY DEF WakeInv, OneCaller, NoNewWaiters, SameCall
<1>5. QED
  BY <1>1, <1>2, <1>3, <1>4 DEF WakeInv

\* Waking threads adds no waiter.
LEMMA WakingIsCalm ==
  ASSUME Types, NEW S, thr' = Woken(S)
  PROVE  NoNewWaiters
<1>1. \A t \in Threads : /\ t \notin S => thr'[t] = thr[t]
                         /\ t \in S => thr'[t].state = "READY"
  BY WokenType DEF Types
<1>2. QED
  BY <1>1 DEF NoNewWaiters

\* Steps that leave everything the invariant speaks of alone.
LEMMA SameIsCalm ==
  /\ UNCHANGED thr => NoNewWaiters
  /\ UNCHANGED send_blocked => StayMarked
  /\ UNCHANGED <<gone, irq>> => StayQuiet
  /\ UNCHANGED kop => SameCall
<1>1. UNCHANGED thr => NoNewWaiters
  BY DEF NoNewWaiters
<1>2. UNCHANGED send_blocked => StayMarked
  BY DEF StayMarked
<1>3. UNCHANGED <<gone, irq>> => StayQuiet
  BY DEF StayQuiet, QuietPort
<1>4. UNCHANGED kop => SameCall
  BY DEF SameCall
<1>5. QED
  BY <1>1, <1>2, <1>3, <1>4

-----------------------------------------------------------------------------
(* The end of objects and processes.                                        *)

\* port_destroy wakes everyone on the port.
LEMMA DestroyIsCalm ==
  ASSUME Types, NEW k \in Ports, PortDestroy(k)
  PROVE  NoNewWaiters /\ StayMarked /\ StayQuiet
<1>1. NoNewWaiters
  BY WakingIsCalm DEF PortDestroy
<1>2. StayMarked
  BY SameIsCalm DEF PortDestroy
<1>3. \A i \in Irqs : irq'[i].pending => irq[i].pending /\ irq[i].port = irq'[i].port
  BY DEF PortDestroy, IrqRelease, Unbound
<1>4. \A j : gone[j] = <<>> /\ j \in Ports => gone'[j] = <<>>
  BY DEF PortDestroy, Types, GoneT
<1>5. QED
  BY <1>1, <1>2, <1>3, <1>4 DEF StayQuiet, QuietPort

\* chan_last_closed queues CLIENT_GONE only where nobody waits; a receiver that
\* waits takes the only one there is.
LEMMA LastClosedIsCalm ==
  ASSUME Types, WakeInv, NEW c \in Chans, ChanLastClosed(c)
  PROVE  NoNewWaiters /\ StayMarked /\ StayQuiet
<1> DEFINE k == chan[c].port
<1>1. StayMarked
  BY SameIsCalm DEF ChanLastClosed
<1>2. ASSUME \A t \in Threads, j \in Ports :
               thr'[t].state = "RECV" /\ thr[t].port = j /\ gone[j] = <<>> => gone'[j] = <<>>
      PROVE  StayQuiet
  BY <1>2 DEF StayQuiet, QuietPort, ChanLastClosed
<1>3. CASE UNCHANGED <<thr, gone>>
  BY <1>1, <1>2, <1>3, SameIsCalm
<1>4. CASE Receivers(k) = {} /\ gone' = [gone EXCEPT ![k] = Append(@, c)] /\ UNCHANGED thr
  <2>1. \A t \in Threads : thr'[t].state = "RECV" => thr[t].port # k
    BY <1>4 DEF Receivers
  <2>2. \A j \in Ports : j # k => gone'[j] = gone[j]
    BY <1>4 DEF Types, GoneT
  <2>3. QED
    BY <1>1, <1>2, <1>4, <2>1, <2>2, SameIsCalm
<1>5. CASE k # Null /\ \E r \in Receivers(k) : thr' = Woken({r}) /\ gone' = [gone EXCEPT ![k] = Tail(Append(gone[k], c))]
  <2>1. PICK r \in Receivers(k) : thr' = Woken({r}) /\ gone' = [gone EXCEPT ![k] = Tail(Append(gone[k], c))]
    BY <1>5
  <2>2. gone[k] = <<>>
    BY <1>5, <2>1 DEF Receivers, WakeInv, Quiet, QuietPort, Types, ChanT
  <2>3. Tail(Append(gone[k], c)) = <<>>
    BY <2>2
  <2>4. NoNewWaiters
    BY <2>1, WakingIsCalm
  <2>5. k \in Ports
    BY <1>5 DEF Types, ChanT
  <2>6. \A j \in Ports : gone[j] = <<>> => gone'[j] = <<>>
    BY <2>1, <2>3, <2>5 DEF Types, GoneT
  <2>7. QED
    BY <1>1, <1>2, <2>4, <2>6
<1>6. QED
  BY <1>3, <1>4, <1>5 DEF ChanLastClosed

LEMMA CloseWake ==
  ASSUME Types, WakeInv, NEW p \in Procs, NEW h \in HandleNos, Close(p, h), UNCHANGED kop
  PROVE  WakeInv'
<1> DEFINE o == handles[p][h]
<1>1. o \in Objects
  BY DEF Types, HandlesT, Close
<1>2. NoNewWaiters /\ StayMarked /\ StayQuiet
  <2>1. CASE o[1] = "port" /\ PortDestroy(o[2])
    BY <1>1, <2>1, Kinds, DestroyIsCalm
  <2>2. CASE o[1] = "chan" /\ ChanLastClosed(o[2])
    BY <1>1, <2>2, Kinds, LastClosedIsCalm
  <2>3. CASE UNCHANGED <<thr, gone, irq, send_blocked>>
    BY <2>3, SameIsCalm
  <2>4. QED
    BY <2>1, <2>2, <2>3 DEF Close, Unref, ProcLastClosed
<1>3. QED
  BY <1>2, WakeStep, SameIsCalm

\* proc_exit takes threads out of their waits and releases interrupts.
LEMMA ExitBeginWake ==
  ASSUME Types, WakeInv, NEW p \in Procs, ExitBegin(p), kop.op = "none"
  PROVE  WakeInv'
<1>1. NoNewWaiters
  BY DEF ExitBegin, ReadyThread, NoNewWaiters
<1>2. StayMarked
  BY SameIsCalm DEF ExitBegin
<1>3. \A i \in Irqs : irq'[i].pending => irq[i].pending /\ irq[i].port = irq'[i].port
  BY DEF ExitBegin, IrqRelease, Unbound
<1>4. StayQuiet
  BY <1>3 DEF StayQuiet, QuietPort, ExitBegin
<1>5. SameCall
  BY DEF SameCall, ExitBegin, Idle
<1>6. QED
  BY <1>1, <1>2, <1>4, <1>5, WakeStep

-----------------------------------------------------------------------------
(* The steps.                                                               *)

\* Steps that leave the waiting threads as they are, and ports at least as quiet.
LEMMA PlainWake ==
  ASSUME Types, WakeInv, NoNewWaiters, UNCHANGED <<send_blocked, irq>>, kop.op = "none", kop'.op # "call",
         UNCHANGED gone \/ \E k \in Ports : gone' = [gone EXCEPT ![k] = <<>>]
  PROVE  WakeInv'
<1>1. StayQuiet
  <2>1. \A j \in Ports : gone[j] = <<>> => gone'[j] = <<>>
    BY DEF Types, GoneT
  <2>2. QED
    BY <2>1 DEF StayQuiet, QuietPort
<1>2. QED
  BY <1>1, WakeStep, SameIsCalm DEF SameCall

\* One interrupt line that does not become pending.
LEMMA IrqWake ==
  ASSUME Types, WakeInv, NEW i \in Irqs, NEW b \in IrqRecords, SetIrq(i, b), NoNewWaiters,
         b.pending => irq[i].pending /\ irq[i].port = b.port
  PROVE  WakeInv'
<1>1. \A j \in Irqs : irq'[j].pending => irq[j].pending /\ irq[j].port = irq'[j].port
  BY DEF SetIrq, Types, IrqT
<1>2. StayQuiet
  BY <1>1 DEF StayQuiet, QuietPort, SetIrq
<1>3. QED
  BY <1>2, WakeStep, SameIsCalm DEF SetIrq

\* A started process has a thread that waits for nothing.
LEMMA StartProcWake ==
  ASSUME Types, WakeInv, NEW t \in Threads, kop.op = "none", NEW c \in Procs, NEW table, StartProc(t, c, table)
  PROVE  WakeInv'
<1>1. NoNewWaiters
  BY ReadyType DEF StartProc, NoNewWaiters, Types, ThrT
<1>2. QED
  BY <1>1, PlainWake DEF StartProc

\* sys_ipc_call: the caller is the only one on the port if a receiver waits.
LEMMA CallWake ==
  ASSUME Types, WakeInv, NEW t \in Threads, NEW h \in HandleNos, NEW x \in HandleNos \cup {NoHandle}, IpcCall(t, h, x)
  PROVE  WakeInv'
<1> DEFINE k == chan[Named(t, h)].port
<1>1. Named(t, h) \in Chans /\ thr[t].state = "READY" /\ kop.op = "none"
  BY CallerHome DEF IpcCall
<1>2. k \in Ports /\ thr' = Sending(t, k, x) /\ send_blocked' = send_blocked \cup {t} /\ UNCHANGED <<gone, irq>>
  BY <1>1 DEF IpcCall, Types, ChanT
<1>3. /\ thr'[t].state = "SEND" /\ thr'[t].port = k
      /\ \A u \in Threads : u # t => thr'[u].state = thr[u].state /\ thr'[u].port = thr[u].port
  BY <1>2, SendingType DEF Types
<1>4. \/ UNCHANGED kop /\ Receivers(k) = {}
      \/ kop'.op = "call" /\ kop'.port = k /\ Receivers(k) # {}
  BY DEF IpcCall, Idle
<1> HIDE DEF k
<1>5. Marked'
  BY <1>2, <1>3 DEF WakeInv, Marked
<1>6. Quiet'
  BY <1>1, <1>2, <1>3 DEF WakeInv, Quiet, QuietPort
<1>7. MetInCall'
  BY <1>1, <1>3, <1>4 DEF WakeInv, MetInCall, Receivers
<1>8. OneCaller'
  <2>1. CASE UNCHANGED kop
    BY <1>1, <2>1 DEF OneCaller
  <2>2. CASE kop'.op = "call" /\ kop'.port = k /\ Receivers(k) # {}
    <3>1. \A u \in Threads : ~(thr[u].state = "SEND" /\ thr[u].port = k)
      BY <1>1, <2>2 DEF WakeInv, MetInCall, Receivers
    <3>2. QED
      BY <1>3, <2>2, <3>1 DEF OneCaller
  <2>3. QED
    BY <1>4, <2>1, <2>2
<1>9. QED
  BY <1>5, <1>6, <1>7, <1>8 DEF WakeInv

\* sys_ipc_reply, and sys_ipc_reply_recv up to its receive.
LEMMA ReplyWake ==
  ASSUME Types, WakeInv, NEW t \in Threads, NEW u \in Threads, NEW x, Reply(t, u, x), kop.op = "none", kop'.op # "call"
  PROVE  WakeInv'
<1>1. NoNewWaiters
  BY WakingIsCalm DEF Reply
<1>2. QED
  BY <1>1, PlainWake DEF Reply

\* Every system call keeps the invariant.
LEMMA SyscallWake ==
  ASSUME Types, WakeInv, NEW t \in Threads, Syscall(t)
  PROVE  WakeInv'
<1>1. CASE PortCreate(t)
  <2>1. UNCHANGED thr /\ kop.op = "none"
    BY <1>1 DEF PortCreate, Calls
  <2>2. QED
    BY <1>1, <2>1, PlainWake, SameIsCalm DEF PortCreate
<1>2. CASE ThreadCreate(t)
  <2>1. NoNewWaiters
    BY <1>2, CallerHome, ReadyType DEF ThreadCreate, NoNewWaiters, Types, ThrT
  <2>2. QED
    BY <1>2, <2>1, PlainWake DEF ThreadCreate, Calls
<1>3. CASE \E h \in HandleNos : ChanCreate(t, h) \/ HandleDup(t, h)
  BY <1>3, PlainWake, SameIsCalm DEF ChanCreate, NewChannel, HandleDup, Calls
<1>4. CASE \E h \in HandleNos : HandleClose(t, h)
  BY <1>4, CallerHome, CloseWake DEF HandleClose
<1>5. CASE \E n \in Names : SvcLookup(t, n) \/ \E h \in HandleNos : SvcRegister(t, n, h)
  BY <1>5, PlainWake, SameIsCalm DEF SvcLookup, NewChannel, SvcRegister, Calls
<1>6. CASE \E i \in Irqs : IrqAck(t, i)
  <2>1. PICK i \in Irqs : IrqAck(t, i)
    BY <1>6
  <2> DEFINE b == [irq[i] EXCEPT !.delivered = FALSE, !.latch = FALSE, !.enable = TRUE]
  <2>2. b \in IrqRecords /\ b.pending = irq[i].pending /\ b.port = irq[i].port
    BY DEF Types, IrqT, IrqRecords
  <2>3. SetIrq(i, b) /\ UNCHANGED thr
    BY <2>1 DEF IrqAck
  <2> HIDE DEF b
  <2>4. QED
    BY <2>2, <2>3, IrqWake, SameIsCalm
<1>7. CASE \E i \in Irqs, h \in HandleNos : IrqBind(t, i, h)
  <2>1. PICK i \in Irqs, h \in HandleNos : IrqBind(t, i, h)
    BY <1>7
  <2> DEFINE b == [owner |-> thr[t].proc, port |-> Named(t, h), pending |-> FALSE,
                   delivered |-> FALSE, enable |-> TRUE, latch |-> irq[i].latch]
  <2>2. Named(t, h) \in Ports /\ thr[t].proc \in Procs
    BY <2>1, CallerHome DEF IrqBind
  <2>3. b \in IrqRecords /\ ~b.pending
    BY <2>2 DEF Types, IrqT, IrqRecords
  <2>4. SetIrq(i, b) /\ UNCHANGED thr
    BY <2>1 DEF IrqBind
  <2> HIDE DEF b
  <2>5. QED
    BY <2>3, <2>4, IrqWake, SameIsCalm
<1>8. CASE \E h \in HandleNos, x \in HandleNos \cup {NoHandle} : IpcCall(t, h, x)
  BY <1>8, CallWake
<1>9. CASE \E h \in HandleNos, timeout \in {"zero", "ticks", "forever"} : IpcRecv(t, h, timeout)
  BY <1>9, PlainWake, SameIsCalm DEF IpcRecv, Calls, BeginRecv, Idle
<1>10. CASE \E u \in Threads, x \in HandleNos \cup {NoHandle} : IpcReply(t, u, x)
  BY <1>10, ReplyWake DEF IpcReply, Calls
<1>11. CASE \E h \in HandleNos, u \in Threads, x \in HandleNos \cup {NoHandle},
               timeout \in {"zero", "ticks", "forever"} : IpcReplyRecv(t, u, x, h, timeout)
  BY <1>11, ReplyWake DEF IpcReplyRecv, Calls, BeginRecv, Idle
<1>12. CASE \E h \in HandleNos, timeout \in {"ticks", "forever"} : Wait(t, h, timeout)
  <2>1. PICK h \in HandleNos, timeout \in {"ticks", "forever"} : Wait(t, h, timeout)
    BY <1>12
  <2>2. thr'[t].state = "WAIT" /\ \A u \in Threads : u # t => thr'[u] = thr[u]
    BY <2>1 DEF Wait, Types, ThrT, ThreadRecords
  <2>3. NoNewWaiters
    BY <2>2 DEF NoNewWaiters
  <2>4. QED
    BY <2>1, <2>3, PlainWake DEF Wait, Calls
<1>13. CASE ProcExit(t) \/ LastThreadExit(t) \/ \E h \in HandleNos : ProcKill(t, h)
  BY <1>13, CallerHome, ExitBeginWake DEF ProcExit, LastThreadExit, ProcKill
<1>14. CASE ThreadExit(t)
  <2>1. /\ Woken(Joining(t)) \in [Threads -> ThreadRecords]
        /\ \A u \in Threads : /\ u \notin Joining(t) => Woken(Joining(t))[u] = thr[u]
                              /\ u \in Joining(t) => Woken(Joining(t))[u].state = "READY"
    BY WokenType DEF Types
  <2>2. thr' = [Woken(Joining(t)) EXCEPT ![t] = [@ EXCEPT !.state = "DEAD"]]
    BY <1>14 DEF ThreadExit
  <2>3. thr'[t].state = "DEAD" /\ \A u \in Threads : u # t => thr'[u] = Woken(Joining(t))[u]
    BY <2>1, <2>2 DEF ThreadRecords
  <2>4. NoNewWaiters
    BY <2>1, <2>3 DEF NoNewWaiters
  <2>5. QED
    BY <1>14, <2>4, PlainWake DEF ThreadExit, Calls
<1>15. CASE Fork(t)
  BY <1>15, StartProcWake DEF Fork, Calls
<1>16. CASE \E n \in 0 .. MaxSpawnHandles : \E list \in [1 .. n -> HandleNos] : Spawn(t, list)
  BY <1>16, StartProcWake DEF Spawn, Calls
<1>17. QED
  BY <1>1, <1>2, <1>3, <1>4, <1>5, <1>6, <1>7, <1>8, <1>9, <1>10, <1>11, <1>12, <1>13, <1>14,
     <1>15, <1>16 DEF Syscall

\* take_next and proc_exit.  A receiver that sys_ipc_call found has nothing but
\* that call to take; one that blocks has seen its port empty.
LEMMA KernelWake ==
  ASSUME Types, WakeInv, KernelStep
  PROVE  WakeInv'
<1> DEFINE r == kop.thread
           k == kop.port
<1>1. ASSUME Taking
      PROVE  /\ r \in Threads /\ k \in Ports /\ thr[r].proc \in Procs \cup {Null}
             /\ kop.op = "call" => thr[r].state = "RECV" /\ thr[r].port = k
  BY <1>1 DEF Taking, Types, KopT, ThrT, ThreadRecords
<1>2. ASSUME Taking, PendingIrqs(k) # {} \/ gone[k] # <<>>
      PROVE  kop.op # "call"
  BY <1>1, <1>2 DEF WakeInv, Quiet, QuietPort, PendingIrqs
<1>3. StillSending = {u \in send_blocked : thr[u].state = "SEND"}
  BY DEF StillSending
<1>4. CASE \E i \in Irqs : TakeIrq(i)
  <2>1. PICK i \in Irqs : TakeIrq(i)
    BY <1>4
  <2>2. Taking /\ kop.op # "call" /\ kop'.op # "call"
    BY <1>2, <2>1 DEF TakeIrq, Idle
  <2>3. NoNewWaiters
    BY <1>1, <2>1, <2>2, ReadyType DEF TakeIrq, Served, NoNewWaiters, Types, ThrT
  <2>4. \A j \in Irqs : irq'[j].pending => irq[j].pending /\ irq[j].port = irq'[j].port
    <3>1. irq[i] \in IrqRecords
      BY DEF Types, IrqT
    <3>2. irq' = [irq EXCEPT ![i] = [irq[i] EXCEPT !.pending = FALSE, !.delivered = TRUE]]
      BY <2>1, <3>1 DEF TakeIrq, Types, IrqT, IrqRecords
    <3>3. ~irq'[i].pending
      BY <3>1, <3>2 DEF Types, IrqT, IrqRecords
    <3>4. QED
      BY <3>2, <3>3 DEF Types, IrqT
  <2>5. StayQuiet
    BY <2>1, <2>4 DEF StayQuiet, QuietPort, TakeIrq
  <2>6. QED
    BY <2>1, <2>2, <2>3, <2>5, WakeStep, SameIsCalm DEF TakeIrq, SameCall
<1>5. CASE TakeGone
  <2>1. Taking /\ kop.op # "call" /\ kop'.op # "call"
    BY <1>2, <1>5 DEF TakeGone, Idle
  <2>2. NoNewWaiters
    BY <1>1, <1>5, <2>1, ReadyType DEF TakeGone, Served, NoNewWaiters, Types, ThrT
  <2>3. \A j \in Ports : gone[j] = <<>> => gone'[j] = <<>>
    BY <1>5 DEF TakeGone, Types, GoneT
  <2>4. StayQuiet
    BY <1>5, <2>3 DEF StayQuiet, QuietPort, TakeGone
  <2>5. QED
    BY <1>5, <2>1, <2>2, <2>4, WakeStep, SameIsCalm DEF TakeGone, SameCall
<1>6. CASE \E u \in Threads : TakeCall(u)
  <2>1. PICK u \in Threads : TakeCall(u)
    BY <1>6
  <2>2. Taking /\ thr[u].state = "SEND" /\ thr[u].port = k
    BY <2>1 DEF TakeCall, NextItemIsCall, NextCaller, Callers
  <2>3. /\ thr'[u].state \notin {"SEND", "RECV"}
        /\ thr'[r].state = "READY"
        /\ \A v \in Threads : v # u /\ v # r => thr'[v] = thr[v]
    <3> DEFINE table == [thr EXCEPT ![u].state = "REPLY", ![u].wait_proc = thr[r].proc, ![u].xfer = NoHandle]
    <3>1. thr' = [table EXCEPT ![r] = ReadyThread(table[r].proc)]
      BY <2>1 DEF TakeCall, Served
    <3>2. /\ table[u].state = "REPLY" /\ DOMAIN table = Threads
          /\ \A v \in Threads : v # u => table[v] = thr[v]
      BY DEF Types, ThrT, ThreadRecords
    <3>3. ReadyThread(table[r].proc).state = "READY"
      BY DEF ReadyThread
    <3> HIDE DEF table
    <3>4. QED
      BY <1>1, <2>2, <3>1, <3>2, <3>3
  <2>4. NoNewWaiters
    BY <2>3 DEF NoNewWaiters
  <2>5. UNCHANGED <<gone, irq>> /\ send_blocked' = StillSending /\ kop'.op = "none"
    BY <2>1 DEF TakeCall, Idle
  <2>6. Marked' /\ Quiet'
    BY <1>3, <2>4, <2>5 DEF WakeInv, Marked, Quiet, QuietPort, NoNewWaiters
  <2>7. MetInCall'
    BY <2>2, <2>3, <2>4 DEF WakeInv, MetInCall, OneCaller, NoNewWaiters
  <2>8. OneCaller'
    BY <2>5 DEF OneCaller
  <2>9. QED
    BY <2>6, <2>7, <2>8 DEF WakeInv
<1>7. CASE \E u \in Threads : TakeCallFailed(u)
  <2>1. NoNewWaiters
    BY <1>7, WakingIsCalm DEF TakeCallFailed
  <2>2. StayMarked
    BY <1>3, <1>7, <2>1 DEF StayMarked, NoNewWaiters, TakeCallFailed
  <2>3. QED
    BY <1>7, <2>1, <2>2, WakeStep, SameIsCalm DEF TakeCallFailed
<1>8. CASE TakeNone
  <2>1. Taking /\ PendingIrqs(k) = {} /\ gone[k] = <<>> /\ Callers(k) = {} /\ kop'.op = "none"
    BY <1>8 DEF TakeNone, Idle
  <2>2. \A u \in Threads : ~(thr[u].state = "SEND" /\ thr[u].port = k)
    BY <2>1 DEF Callers, WakeInv, Marked
  <2>3. \A u \in Threads :
          thr'[u] = thr[u] \/ (u = r /\ thr'[u].state = "RECV" /\ thr'[u].port = k)
    <3> DEFINE new == [thr[r] EXCEPT !.state = "RECV", !.port = k, !.timed = (kop.timeout = "ticks")]
    <3>1. thr[r] \in ThreadRecords
      BY <1>1, <2>1 DEF Types, ThrT
    <3>2. new.state = "RECV" /\ new.port = k
      BY <3>1 DEF ThreadRecords
    <3>3. UNCHANGED thr \/ thr' = [thr EXCEPT ![r] = new]
      BY <1>1, <1>8, <2>1 DEF TakeNone, Types, ThrT
    <3> HIDE DEF new
    <3>4. QED
      BY <1>1, <2>1, <3>2, <3>3 DEF Types, ThrT
  <2>4. UNCHANGED <<gone, irq>> /\ send_blocked' = StillSending
    BY <1>8 DEF TakeNone
  <2>5. Marked'
    BY <1>3, <2>3, <2>4 DEF WakeInv, Marked
  <2>6. Quiet'
    BY <2>1, <2>3, <2>4 DEF WakeInv, Quiet, QuietPort, PendingIrqs
  <2>7. MetInCall'
    BY <2>2, <2>3 DEF WakeInv, MetInCall
  <2>8. OneCaller'
    BY <2>1 DEF OneCaller
  <2>9. QED
    BY <2>5, <2>6, <2>7, <2>8 DEF WakeInv
<1>9. CASE \E h \in HandleNos : ExitClose(h)
  BY <1>9, CloseWake DEF ExitClose, Types, KopT
<1>10. CASE ExitEnd
  <2>1. NoNewWaiters
    BY <1>10, WakingIsCalm DEF ExitEnd
  <2>2. QED
    BY <1>10, <2>1, WakeStep, SameIsCalm DEF ExitEnd, SameCall, Idle
<1>11. QED
  BY <1>4, <1>5, <1>6, <1>7, <1>8, <1>9, <1>10 DEF KernelStep

\* A notification is queued only on a port where nobody waits.
LEMMA InterruptWake ==
  ASSUME Types, WakeInv, Interrupt
  PROVE  WakeInv'
<1>1. CASE \E i \in Irqs : IrqRaise(i)
  <2>1. PICK i \in Irqs : IrqRaise(i)
    BY <1>1
  <2> DEFINE b == [irq[i] EXCEPT !.latch = TRUE]
  <2>2. b \in IrqRecords /\ b.pending = irq[i].pending /\ b.port = irq[i].port
    BY DEF Types, IrqT, IrqRecords
  <2>3. SetIrq(i, b) /\ UNCHANGED thr
    BY <2>1 DEF IrqRaise
  <2> HIDE DEF b
  <2>4. QED
    BY <2>2, <2>3, IrqWake, SameIsCalm
<1>2. CASE \E i \in Irqs : IrqNotify(i)
  <2>1. PICK i \in Irqs : IrqNotify(i)
    BY <1>2
  <2>2. Masked(i) \in IrqRecords /\ Masked(i).pending = irq[i].pending /\ Masked(i).port = irq[i].port
    BY DEF Types, IrqT, IrqRecords, Masked
  <2>3. CASE SetIrq(i, Masked(i)) /\ UNCHANGED thr
    BY <2>2, <2>3, IrqWake, SameIsCalm
  <2>4. CASE Receivers(irq[i].port) = {} /\ QueueIrq(i)
    <3>1. UNCHANGED <<thr, gone, send_blocked, kop>>
      BY <2>4 DEF QueueIrq, SetIrq
    <3>2. \A j \in Irqs : j # i => irq'[j] = irq[j]
      BY <2>4 DEF QueueIrq, SetIrq, Types, IrqT
    <3>3. irq'[i].port = irq[i].port
      BY <2>2, <2>4 DEF QueueIrq, SetIrq, Types, IrqT, IrqRecords
    <3>4. StayQuiet
      BY <2>4, <3>1, <3>2, <3>3 DEF StayQuiet, QuietPort, Receivers
    <3>5. QED
      BY <3>1, <3>4, WakeStep, SameIsCalm
  <2>5. CASE \E r \in Receivers(irq[i].port) :
               SetIrq(i, [Masked(i) EXCEPT !.delivered = TRUE]) /\ thr' = Woken({r})
    <3> DEFINE b == [Masked(i) EXCEPT !.delivered = TRUE]
    <3>1. b \in IrqRecords /\ b.pending = irq[i].pending /\ b.port = irq[i].port
      BY <2>2 DEF IrqRecords
    <3>2. SetIrq(i, b) /\ NoNewWaiters
      BY <2>5, WakingIsCalm
    <3> HIDE DEF b
    <3>3. QED
      BY <3>1, <3>2, IrqWake
  <2>6. QED
    BY <2>1, <2>3, <2>4, <2>5 DEF IrqNotify, Notify
<1>3. CASE \E t \in Threads : TimedOut(t)
  <2>1. NoNewWaiters
    BY <1>3, WakingIsCalm DEF TimedOut
  <2>2. QED
    BY <1>3, <2>1, WakeStep, SameIsCalm DEF TimedOut
<1>4. QED
  BY <1>1, <1>2, <1>3 DEF Interrupt

\* A thread blocked in RECV (sys_ipc_recv) has nothing to receive, in every
\* instance and after every sequence of system calls and interrupts.
THEOREM NothingIsMissed == Spec => []NoLostWakeup
<1>1. Init => WakeInv
  <2> SUFFICES ASSUME Init PROVE WakeInv
    OBVIOUS
  <2>1. \A t \in Threads : thr[t].state \notin {"SEND", "RECV"}
    BY DEF Init, ReadyThread
  <2>2. kop.op = "none"
    BY DEF Init, Idle
  <2>3. QED
    BY <2>1, <2>2 DEF WakeInv, Marked, Quiet, MetInCall, OneCaller
<1>2. Types /\ WakeInv /\ [Next]_vars => WakeInv'
  <2> SUFFICES ASSUME Types, WakeInv, [Next]_vars PROVE WakeInv'
    OBVIOUS
  <2>1. CASE Next
    BY <2>1, SyscallWake, KernelWake, InterruptWake DEF Next
  <2>2. CASE UNCHANGED vars
    BY <2>2, WakeStep, SameIsCalm DEF vars
  <2>3. QED
    BY <2>1, <2>2
<1>3. Types /\ WakeInv => NoLostWakeup
  <2> SUFFICES ASSUME Types, WakeInv, kop.op = "none", NEW t \in Threads, thr[t].state = "RECV"
               PROVE  /\ gone[thr[t].port] = <<>> /\ PendingIrqs(thr[t].port) = {}
                      /\ \A u \in Threads : ~(thr[u].state = "SEND" /\ thr[u].port = thr[t].port)
    BY DEF NoLostWakeup
  <2>1. thr[t].port \in Ports
    BY DEF Types, HomeT
  <2>2. QED
    BY <2>1 DEF WakeInv, Quiet, QuietPort, PendingIrqs, MetInCall
<1>4. QED
  BY <1>1, <1>2, <1>3, TypesHold, PTL DEF Spec

-----------------------------------------------------------------------------
(***************************************************************************)
(* ExitedOwnsNothing: a process record that is not LIVE has no live thread, no *)
(* interrupt and, once its proc_exit is over, no handle, so claim_record may   *)
(* give it to a new process.                                                *)
(***************************************************************************)

-----------------------------------------------------------------------------
(* The inductive invariant adds that kop names a process exactly during its   *)
(* proc_exit.                                                               *)

NoLiveThread == \A t \in Threads, p \in Procs : thr[t].proc = p /\ pstate[p] # "LIVE" => thr[t].state \in {"FREE", "DEAD"}
NoIrqOwned   == \A i \in Irqs, p \in Procs : irq[i].owner = p => pstate[p] = "LIVE"
NoHandles    == \A p \in Procs : pstate[p] # "LIVE" /\ kop.proc # p => \A h \in HandleNos : handles[p][h] = NoObj
ExitingProc  == /\ kop.op # "exit" => kop.proc = Null
                /\ kop.op = "exit" => pstate[kop.proc] # "LIVE"

OwnInv == NoLiveThread /\ NoIrqOwned /\ NoHandles /\ ExitingProc

-----------------------------------------------------------------------------
(* What most steps do: nothing ends, and what a process gets, it gets alive.  *)

LiveStays == \A p \in Procs : pstate[p] = "LIVE" => pstate'[p] = "LIVE"

ThreadsLive ==
  \A t \in Threads : \/ thr'[t].state \in {"FREE", "DEAD"}
                     \/ thr'[t].proc = thr[t].proc /\ thr[t].state \notin {"FREE", "DEAD"}
                     \/ pstate'[thr'[t].proc] = "LIVE"

OwnersLive ==
  \A i \in Irqs : irq'[i].owner = irq[i].owner \/ irq'[i].owner = Null \/ pstate'[irq'[i].owner] = "LIVE"

HandlesLive ==
  \A p \in Procs : \A h \in HandleNos : handles'[p][h] \in {handles[p][h], NoObj} \/ pstate'[p] = "LIVE"

SameExit ==
  \/ UNCHANGED kop /\ (kop.op = "exit" => pstate'[kop.proc] # "LIVE")
  \/ kop.op # "exit" /\ kop'.op # "exit" /\ kop'.proc = Null

LEMMA OwnStep ==
  ASSUME Types, OwnInv, LiveStays, ThreadsLive, OwnersLive, HandlesLive, SameExit
  PROVE  OwnInv'
<1>1. NoLiveThread'
  BY DEF OwnInv, NoLiveThread, LiveStays, ThreadsLive
<1>2. NoIrqOwned'
  BY IpcAssumption DEF OwnInv, NoIrqOwned, LiveStays, OwnersLive
<1>3. NoHandles'
  BY IpcAssumption DEF OwnInv, NoHandles, ExitingProc, LiveStays, HandlesLive, SameExit
<1>4. ExitingProc'
  BY DEF OwnInv, ExitingProc, SameExit
<1>5. QED
  BY <1>1, <1>2, <1>3, <1>4 DEF OwnInv

LEMMA SameOwns ==
  /\ UNCHANGED pstate => LiveStays
  /\ UNCHANGED thr => ThreadsLive
  /\ UNCHANGED irq => OwnersLive
  /\ UNCHANGED handles => HandlesLive
  /\ kop.op = "none" /\ UNCHANGED kop => SameExit
<1>1. UNCHANGED pstate => LiveStays
  BY DEF LiveStays
<1>2. UNCHANGED thr => ThreadsLive
  BY DEF ThreadsLive
<1>3. UNCHANGED irq => OwnersLive
  BY DEF OwnersLive
<1>4. UNCHANGED handles => HandlesLive
  BY DEF HandlesLive
<1>5. kop.op = "none" /\ UNCHANGED kop => SameExit
  BY DEF SameExit
<1>6. QED
  BY <1>1, <1>2, <1>3, <1>4, <1>5

\* Woken threads were alive.
LEMMA WakingLives ==
  ASSUME Types, NEW S, thr' = Woken(S), \A t \in S \cap Threads : thr[t].state \notin {"FREE", "DEAD"}
  PROVE  ThreadsLive
<1>1. \A t \in Threads : /\ thr'[t].proc = thr[t].proc
                         /\ t \notin S => thr'[t] = thr[t]
  BY WokenType DEF Types
<1>2. QED
  BY <1>1 DEF ThreadsLive

\* The process of a thread that is alive is LIVE.
LEMMA AliveHome ==
  ASSUME Types, OwnInv, NEW t \in Threads, thr[t].state \notin {"FREE", "DEAD"}
  PROVE  thr[t].proc \in Procs /\ pstate[thr[t].proc] = "LIVE"
BY DEF Types, HomeT, OwnInv, NoLiveThread

\* handle_add and handle_move to a live process.
LEMMA AddLives ==
  ASSUME Types, NEW p \in Procs, NEW h \in HandleNos, NEW o, HandleAdd(p, h, o), pstate'[p] = "LIVE"
  PROVE  HandlesLive
BY DEF HandleAdd, HandlesLive, Types, HandlesT

LEMMA MoveLives ==
  ASSUME Types, NEW p \in Procs, NEW q \in Procs, NEW h \in HandleNos, HandleMove(p, h, q), pstate'[q] = "LIVE"
  PROVE  HandlesLive
<1>1. PICK g \in HandleNos : handles' = [handles EXCEPT ![q][g] = handles[p][h], ![p][h] = NoObj]
  BY DEF HandleMove
<1> DEFINE mid == [handles EXCEPT ![q][g] = handles[p][h]]
<1>2. /\ \A s \in Procs : s # q => mid[s] = handles[s]
      /\ DOMAIN mid = Procs /\ \A s \in Procs : DOMAIN mid[s] = HandleNos
  BY DEF Types, HandlesT
<1>3. handles' = [mid EXCEPT ![p][h] = NoObj]
  BY <1>1
<1> HIDE DEF mid
<1>4. \A s \in Procs : \A j \in HandleNos : handles'[s][j] \in {mid[s][j], NoObj}
  BY <1>2, <1>3
<1>5. QED
  BY <1>2, <1>4 DEF HandlesLive

-----------------------------------------------------------------------------
(* The end of objects, the end and the start of a process.                  *)

LEMMA CloseOwn ==
  ASSUME Types, OwnInv, NEW p \in Procs, NEW h \in HandleNos, Close(p, h), UNCHANGED kop, kop.op \in {"none", "exit"}
  PROVE  OwnInv'
<1> DEFINE o == handles[p][h]
<1>1. o \in Objects
  BY DEF Types, HandlesT, Close
<1>2. HandlesLive
  BY DEF HandlesLive, Close, Types, HandlesT
<1>3. /\ LiveStays /\ ThreadsLive /\ OwnersLive
      /\ \A q \in Procs : pstate[q] # "LIVE" => pstate'[q] # "LIVE"
  <2>1. CASE o[1] = "port" /\ PortDestroy(o[2])
    <3>1. ThreadsLive
      BY <2>1, WakingLives DEF PortDestroy, OnPort
    <3>2. OwnersLive
      BY <2>1 DEF PortDestroy, IrqRelease, Unbound, OwnersLive
    <3>3. QED
      BY <2>1, <3>1, <3>2, SameOwns DEF PortDestroy
  <2>2. CASE o[1] = "chan" /\ ChanLastClosed(o[2])
    <3>1. ThreadsLive
      <4>1. CASE UNCHANGED thr
        BY <4>1, SameOwns
      <4>2. CASE \E r \in Receivers(chan[o[2]].port) : thr' = Woken({r})
        BY <4>2, WakingLives DEF Receivers
      <4>3. QED
        BY <2>2, <4>1, <4>2 DEF ChanLastClosed
    <3>2. QED
      BY <2>2, <3>1, SameOwns DEF ChanLastClosed
  <2>3. CASE o[1] = "proc" /\ ProcLastClosed(o[2])
    <3>1. LiveStays /\ \A q \in Procs : pstate[q] # "LIVE" => pstate'[q] # "LIVE"
      BY <2>3 DEF ProcLastClosed, LiveStays, Types, PstateT
    <3>2. QED
      BY <2>3, <3>1, SameOwns DEF ProcLastClosed
  <2>4. CASE UNCHANGED <<thr, pstate, irq>>
    BY <2>4, SameOwns
  <2>5. QED
    BY <2>1, <2>2, <2>3, <2>4 DEF Close, Unref
<1>4. SameExit
  <2>1. kop.op = "exit" => kop.proc \in Procs
    BY DEF Types, KopT
  <2>2. QED
    BY <1>3, <2>1 DEF SameExit, OwnInv, ExitingProc
<1>5. QED
  BY <1>2, <1>3, <1>4, OwnStep

\* proc_exit begins: the process stops being LIVE and loses its threads and interrupts.
LEMMA ExitBeginOwn ==
  ASSUME Types, OwnInv, NEW p \in Procs, ExitBegin(p), kop.op = "none"
  PROVE  OwnInv'
<1>1. pstate'[p] = "EXITED" /\ \A q \in Procs : q # p => pstate'[q] = pstate[q]
  BY DEF ExitBegin, Types, PstateT
<1>2. NoLiveThread'
  BY <1>1 DEF ExitBegin, ReadyThread, LiveThreads, Alive, OwnInv, NoLiveThread
<1>3. NoIrqOwned'
  BY <1>1, IpcAssumption DEF ExitBegin, IrqRelease, OwnedIrqs, Unbound, OwnInv, NoIrqOwned
<1>4. kop'.op = "exit" /\ kop'.proc = p
  BY DEF ExitBegin, Idle
<1>5. NoHandles'
  <2>1. \A q \in Procs : pstate[q] # "LIVE" => \A h \in HandleNos : handles[q][h] = NoObj
    BY IpcAssumption DEF OwnInv, NoHandles, ExitingProc
  <2>2. QED
    BY <1>1, <1>4, <2>1 DEF NoHandles, ExitBegin
<1>6. ExitingProc'
  BY <1>1, <1>4 DEF ExitingProc
<1>7. QED
  BY <1>2, <1>3, <1>5, <1>6 DEF OwnInv

LEMMA StartProcOwn ==
  ASSUME Types, OwnInv, NEW t \in Threads, thr[t].state = "READY", kop.op = "none", NEW c \in Procs,
         NEW table \in [HandleNos -> Objects \cup {NoObj}], StartProc(t, c, table)
  PROVE  OwnInv'
<1> DEFINE p == thr[t].proc
<1>1. p \in Procs /\ pstate[p] = "LIVE"
  BY AliveHome
<1>2. pstate'[c] = "LIVE" /\ pstate'[p] = "LIVE" /\ LiveStays
  BY <1>1 DEF StartProc, Types, PstateT, LiveStays
<1>3. ThreadsLive
  <2>1. PICK u \in Threads : thr' = [thr EXCEPT ![u] = ReadyThread(c)]
    BY DEF StartProc
  <2>2. thr'[u].proc = c /\ \A v \in Threads : v # u => thr'[v] = thr[v]
    BY <2>1, ReadyType DEF Types, ThrT
  <2>3. QED
    BY <1>2, <2>2 DEF ThreadsLive
<1>4. HandlesLive
  <2>1. PICK h \in HandleNos : handles' = [handles EXCEPT ![c] = table, ![p][h] = ProcObj(c)]
    BY DEF StartProc
  <2>2. \A q \in Procs : q # c /\ q # p => handles'[q] = handles[q]
    BY <2>1 DEF Types, HandlesT
  <2>3. QED
    BY <1>2, <2>2 DEF HandlesLive
<1>5. QED
  BY <1>2, <1>3, <1>4, OwnStep, SameOwns DEF StartProc

-----------------------------------------------------------------------------
(* The steps.                                                               *)

\* A thread in user mode belongs to a process that is LIVE.
LEMMA CallerLives ==
  ASSUME Types, OwnInv, NEW t \in Threads, NEW op, Calls(t, op)
  PROVE  /\ thr[t].proc \in Procs /\ pstate[thr[t].proc] = "LIVE"
         /\ thr[t].state = "READY" /\ kop.op = "none" /\ kop.proc = Null
BY AliveHome DEF Calls, OwnInv, ExitingProc

\* One interrupt line changes, and keeps or loses its owner or gets a live one.
LEMMA IrqOwn ==
  ASSUME Types, OwnInv, NEW i \in Irqs, NEW b \in IrqRecords, SetIrq(i, b), ThreadsLive,
         b.owner = irq[i].owner \/ pstate[b.owner] = "LIVE"
  PROVE  OwnInv'
<1>1. OwnersLive
  BY DEF SetIrq, Types, IrqT, OwnersLive
<1>2. SameExit
  BY DEF SetIrq, SameExit, OwnInv, ExitingProc
<1>3. QED
  BY <1>1, <1>2, OwnStep, SameOwns DEF SetIrq

LEMMA ReplyOwn ==
  ASSUME Types, OwnInv, NEW t \in Threads, thr[t].state = "READY", NEW u \in Threads,
         NEW x \in HandleNos \cup {NoHandle}, Reply(t, u, x), kop.op = "none", SameExit
  PROVE  OwnInv'
<1>1. thr[u].state = "REPLY" /\ thr' = Woken({u})
  BY DEF Reply, TokenCaller
<1>2. ThreadsLive
  BY <1>1, WakingLives
<1>3. /\ thr[t].proc \in Procs /\ thr[u].proc \in Procs
      /\ pstate[thr[u].proc] = "LIVE"
  BY <1>1, AliveHome
<1>4. HandlesLive
  <2>1. CASE UNCHANGED handles
    BY <2>1, SameOwns
  <2>2. CASE x # NoHandle /\ HandleMove(thr[t].proc, x, thr[u].proc)
    <3>1. pstate'[thr[u].proc] = "LIVE"
      BY <1>3 DEF Reply
    <3>2. QED
      BY <1>3, <2>2, <3>1, MoveLives
  <2>3. QED
    BY <2>1, <2>2 DEF Reply
<1>5. QED
  BY <1>2, <1>4, OwnStep, SameOwns DEF Reply

\* Every system call keeps the invariant.
LEMMA SyscallOwn ==
  ASSUME Types, OwnInv, NEW t \in Threads, Syscall(t)
  PROVE  OwnInv'
<1>1. CASE PortCreate(t)
  <2>1. thr[t].proc \in Procs /\ pstate'[thr[t].proc] = "LIVE" /\ kop.op = "none"
    BY <1>1, CallerLives DEF PortCreate
  <2>2. HandlesLive
    BY <1>1, <2>1, AddLives DEF PortCreate
  <2>3. QED
    BY <1>1, <2>1, <2>2, OwnStep, SameOwns DEF PortCreate
<1>2. CASE ThreadCreate(t)
  <2>1. PICK u \in Threads, h \in HandleNos :
          HandleAdd(thr[t].proc, h, ThreadObj(u)) /\ thr' = [thr EXCEPT ![u] = ReadyThread(thr[t].proc)]
    BY <1>2 DEF ThreadCreate
  <2>2. thr[t].proc \in Procs /\ pstate'[thr[t].proc] = "LIVE" /\ kop.op = "none"
    BY <1>2, CallerLives DEF ThreadCreate
  <2>3. HandlesLive
    BY <2>1, <2>2, AddLives
  <2>4. thr'[u].proc = thr[t].proc /\ \A v \in Threads : v # u => thr'[v] = thr[v]
    BY <2>1, <2>2, ReadyType DEF Types, ThrT
  <2>5. ThreadsLive
    BY <2>2, <2>4 DEF ThreadsLive
  <2>6. QED
    BY <1>2, <2>2, <2>3, <2>5, OwnStep, SameOwns DEF ThreadCreate
<1>3. ASSUME NEW k, NewChannel(t, k), NEW op, Calls(t, op)
      PROVE  OwnInv'
  <2>1. thr[t].proc \in Procs /\ pstate'[thr[t].proc] = "LIVE" /\ kop.op = "none"
    BY <1>3, CallerLives DEF NewChannel
  <2>2. HandlesLive
    BY <1>3, <2>1, AddLives DEF NewChannel
  <2>3. QED
    BY <1>3, <2>1, <2>2, OwnStep, SameOwns DEF NewChannel
<1>4. CASE \E h \in HandleNos : ChanCreate(t, h)
  BY <1>3, <1>4 DEF ChanCreate
<1>5. CASE \E n \in Names : SvcLookup(t, n)
  BY <1>3, <1>5 DEF SvcLookup
<1>6. CASE \E h \in HandleNos : HandleClose(t, h)
  BY <1>6, CallerLives, CloseOwn DEF HandleClose
<1>7. CASE \E h \in HandleNos : HandleDup(t, h)
  <2>1. thr[t].proc \in Procs /\ pstate'[thr[t].proc] = "LIVE" /\ kop.op = "none"
    BY <1>7, CallerLives DEF HandleDup
  <2>2. HandlesLive
    BY <1>7, <2>1, AddLives DEF HandleDup
  <2>3. QED
    BY <1>7, <2>1, <2>2, OwnStep, SameOwns DEF HandleDup
<1>8. CASE \E n \in Names, h \in HandleNos : SvcRegister(t, n, h)
  BY <1>8, CallerLives, OwnStep, SameOwns DEF SvcRegister
<1>9. CASE \E i \in Irqs : IrqAck(t, i)
  <2>1. PICK i \in Irqs : IrqAck(t, i)
    BY <1>9
  <2> DEFINE b == [irq[i] EXCEPT !.delivered = FALSE, !.latch = FALSE, !.enable = TRUE]
  <2>2. b \in IrqRecords /\ b.owner = irq[i].owner
    BY DEF Types, IrqT, IrqRecords
  <2>3. SetIrq(i, b) /\ UNCHANGED thr
    BY <2>1 DEF IrqAck
  <2> HIDE DEF b
  <2>4. QED
    BY <2>2, <2>3, IrqOwn, SameOwns
<1>10. CASE \E i \in Irqs, h \in HandleNos : IrqBind(t, i, h)
  <2>1. PICK i \in Irqs, h \in HandleNos : IrqBind(t, i, h)
    BY <1>10
  <2> DEFINE b == [owner |-> thr[t].proc, port |-> Named(t, h), pending |-> FALSE,
                   delivered |-> FALSE, enable |-> TRUE, latch |-> irq[i].latch]
  <2>2. Named(t, h) \in Ports /\ thr[t].proc \in Procs /\ pstate[thr[t].proc] = "LIVE"
    BY <2>1, CallerHome, CallerLives DEF IrqBind
  <2>3. b \in IrqRecords /\ b.owner = thr[t].proc
    BY <2>2 DEF Types, IrqT, IrqRecords
  <2>4. SetIrq(i, b) /\ UNCHANGED thr
    BY <2>1 DEF IrqBind
  <2> HIDE DEF b
  <2>5. QED
    BY <2>2, <2>3, <2>4, IrqOwn, SameOwns
<1>11. CASE \E h \in HandleNos, x \in HandleNos \cup {NoHandle} : IpcCall(t, h, x)
  <2>1. PICK h \in HandleNos, x \in HandleNos \cup {NoHandle} : IpcCall(t, h, x)
    BY <1>11
  <2> DEFINE k == chan[Named(t, h)].port
  <2>2. Named(t, h) \in Chans /\ thr[t].state = "READY" /\ kop.op = "none"
    BY <2>1, CallerHome DEF IpcCall
  <2>3. k \in Ports /\ thr' = Sending(t, k, x)
    BY <2>1, <2>2 DEF IpcCall, Types, ChanT
  <2>4. \A u \in Threads : thr'[u].proc = thr[u].proc /\ (u # t => thr'[u].state = thr[u].state)
    BY <2>3, SendingType DEF Types
  <2>5. ThreadsLive
    BY <2>2, <2>4 DEF ThreadsLive
  <2>6. SameExit
    BY <2>1, <2>2 DEF IpcCall, Idle, SameExit
  <2>7. QED
    BY <2>1, <2>5, <2>6, OwnStep, SameOwns DEF IpcCall
<1>12. CASE \E h \in HandleNos, timeout \in {"zero", "ticks", "forever"} : IpcRecv(t, h, timeout)
  <2>1. SameExit
    BY <1>12 DEF IpcRecv, Calls, BeginRecv, Idle, SameExit
  <2>2. QED
    BY <1>12, <2>1, OwnStep, SameOwns DEF IpcRecv
<1>13. CASE \E u \in Threads, x \in HandleNos \cup {NoHandle} : IpcReply(t, u, x)
  BY <1>13, CallerLives, ReplyOwn, SameOwns DEF IpcReply
<1>14. CASE \E h \in HandleNos, u \in Threads, x \in HandleNos \cup {NoHandle},
               timeout \in {"zero", "ticks", "forever"} : IpcReplyRecv(t, u, x, h, timeout)
  <2>1. SameExit
    BY <1>14 DEF IpcReplyRecv, Calls, BeginRecv, Idle, SameExit
  <2>2. QED
    BY <1>14, <2>1, CallerLives, ReplyOwn DEF IpcReplyRecv
<1>15. CASE \E h \in HandleNos, timeout \in {"ticks", "forever"} : Wait(t, h, timeout)
  <2>1. PICK h \in HandleNos, timeout \in {"ticks", "forever"} : Wait(t, h, timeout)
    BY <1>15
  <2>2. thr'[t].proc = thr[t].proc /\ \A u \in Threads : u # t => thr'[u] = thr[u]
    BY <2>1 DEF Wait, Types, ThrT, ThreadRecords
  <2>3. ThreadsLive
    BY <2>1, <2>2, CallerLives DEF Wait, ThreadsLive
  <2>4. QED
    BY <2>1, <2>3, OwnStep, SameOwns DEF Wait, Calls
<1>16. CASE ProcExit(t) \/ LastThreadExit(t) \/ \E h \in HandleNos : ProcKill(t, h)
  BY <1>16, CallerHome, ExitBeginOwn DEF ProcExit, LastThreadExit, ProcKill
<1>17. CASE ThreadExit(t)
  <2>1. /\ Woken(Joining(t)) \in [Threads -> ThreadRecords]
        /\ \A u \in Threads : /\ Woken(Joining(t))[u].proc = thr[u].proc
                              /\ u \notin Joining(t) => Woken(Joining(t))[u] = thr[u]
    BY WokenType DEF Types
  <2>2. thr' = [Woken(Joining(t)) EXCEPT ![t] = [@ EXCEPT !.state = "DEAD"]]
    BY <1>17 DEF ThreadExit
  <2>3. thr'[t].state = "DEAD" /\ \A u \in Threads : u # t => thr'[u] = Woken(Joining(t))[u]
    BY <2>1, <2>2 DEF ThreadRecords
  <2>4. ThreadsLive
    BY <2>1, <2>3 DEF ThreadsLive, Joining
  <2>5. QED
    BY <1>17, <2>4, OwnStep, SameOwns DEF ThreadExit, Calls
<1>18. CASE Fork(t)
  <2>1. thr[t].proc \in Procs /\ thr[t].state = "READY" /\ kop.op = "none"
    BY <1>18, CallerLives DEF Fork
  <2>2. handles[thr[t].proc] \in [HandleNos -> Objects \cup {NoObj}]
    BY <2>1 DEF Types, HandlesT
  <2>3. QED
    BY <1>18, <2>1, <2>2, StartProcOwn DEF Fork
<1>19. CASE \E n \in 0 .. MaxSpawnHandles : \E list \in [1 .. n -> HandleNos] : Spawn(t, list)
  <2>1. PICK n \in 0 .. MaxSpawnHandles : \E list \in [1 .. n -> HandleNos] : Spawn(t, list)
    BY <1>19
  <2>2. PICK list \in [1 .. n -> HandleNos] : Spawn(t, list)
    BY <2>1
  <2>3. thr[t].proc \in Procs /\ thr[t].state = "READY" /\ kop.op = "none"
    BY <2>2, CallerLives DEF Spawn
  <2>4. \A i \in 1 .. n : handles[thr[t].proc][list[i]] \in Objects \cup {NoObj}
    BY <2>3 DEF Types, HandlesT
  <2>5. PassedTable(thr[t].proc, list) \in [HandleNos -> Objects \cup {NoObj}]
    BY <2>4 DEF PassedTable
  <2>6. QED
    BY <2>2, <2>3, <2>5, StartProcOwn DEF Spawn
<1>20. QED
  BY <1>1, <1>2, <1>4, <1>5, <1>6, <1>7, <1>8, <1>9, <1>10, <1>11, <1>12, <1>13, <1>14,
     <1>15, <1>16, <1>17, <1>18, <1>19 DEF Syscall

\* So do take_next, which gives handles only to the process of a receiver, and
\* the steps of proc_exit.
LEMMA KernelOwn ==
  ASSUME Types, OwnInv, KernelStep
  PROVE  OwnInv'
<1> DEFINE r == kop.thread
<1>1. ASSUME Taking
      PROVE  /\ r \in Threads /\ thr[r].state \in {"READY", "RECV"}
             /\ thr[r].proc \in Procs /\ pstate[thr[r].proc] = "LIVE"
  <2>1. r \in Threads /\ thr[r].state \in {"READY", "RECV"}
    BY <1>1 DEF Taking, Types, KopT
  <2>2. QED
    BY <2>1, AliveHome
<1>2. ASSUME Taking, Served(thr)
      PROVE  ThreadsLive
  <2>1. thr'[r].proc = thr[r].proc /\ \A v \in Threads : v # r => thr'[v] = thr[v]
    BY <1>1, <1>2, ReadyType DEF Served, Types, ThrT
  <2>2. QED
    BY <1>1, <1>2, <2>1 DEF ThreadsLive
<1>3. ASSUME Taking, kop' = Idle
      PROVE  SameExit
  BY <1>3 DEF Taking, SameExit, Idle
<1>4. CASE \E i \in Irqs : TakeIrq(i)
  <2>1. PICK i \in Irqs : TakeIrq(i)
    BY <1>4
  <2>2. \A j \in Irqs : irq'[j].owner = irq[j].owner
    <3>1. irq[i] \in IrqRecords
      BY DEF Types, IrqT
    <3>2. irq' = [irq EXCEPT ![i] = [irq[i] EXCEPT !.pending = FALSE, !.delivered = TRUE]]
      BY <2>1, <3>1 DEF TakeIrq, Types, IrqT, IrqRecords
    <3>3. irq'[i].owner = irq[i].owner
      BY <3>1, <3>2 DEF Types, IrqT, IrqRecords
    <3>4. QED
      BY <3>2, <3>3 DEF Types, IrqT
  <2>3. OwnersLive
    BY <2>2 DEF OwnersLive
  <2>4. QED
    BY <1>2, <1>3, <2>1, <2>3, OwnStep, SameOwns DEF TakeIrq
<1>5. CASE TakeGone
  BY <1>2, <1>3, <1>5, OwnStep, SameOwns DEF TakeGone
<1>6. CASE \E u \in Threads : TakeCall(u)
  <2>1. PICK u \in Threads : TakeCall(u)
    BY <1>6
  <2>2. Taking /\ thr[u].state = "SEND" /\ kop' = Idle
    BY <2>1 DEF TakeCall, NextItemIsCall, NextCaller, Callers
  <2>3. \A v \in Threads : thr'[v].proc = thr[v].proc /\ (v # u /\ v # r => thr'[v] = thr[v])
    <3> DEFINE table == [thr EXCEPT ![u].state = "REPLY", ![u].wait_proc = thr[r].proc, ![u].xfer = NoHandle]
    <3>1. thr' = [table EXCEPT ![r] = ReadyThread(table[r].proc)]
      BY <2>1 DEF TakeCall, Served
    <3>2. /\ table[u].proc = thr[u].proc /\ DOMAIN table = Threads
          /\ \A v \in Threads : v # u => table[v] = thr[v]
      BY DEF Types, ThrT, ThreadRecords
    <3>3. ReadyThread(table[r].proc).proc = table[r].proc
      BY DEF ReadyThread
    <3> HIDE DEF table
    <3>4. QED
      BY <1>1, <2>2, <3>1, <3>2, <3>3
  <2>4. ThreadsLive
    BY <1>1, <2>2, <2>3 DEF ThreadsLive
  <2>5. HandlesLive
    <3>1. CASE UNCHANGED handles
      BY <3>1, SameOwns
    <3>2. CASE thr[u].xfer # NoHandle /\ HandleMove(thr[u].proc, thr[u].xfer, thr[r].proc)
      <4>1. thr[u].xfer \in HandleNos
        BY <3>2 DEF Types, ThrT, ThreadRecords
      <4>2. thr[u].proc \in Procs /\ pstate'[thr[r].proc] = "LIVE"
        BY <1>1, <2>1, <2>2, AliveHome DEF TakeCall
      <4>3. QED
        BY <1>1, <2>2, <3>2, <4>1, <4>2, MoveLives
    <3>3. QED
      BY <2>1, <3>1, <3>2 DEF TakeCall
  <2>6. QED
    BY <1>3, <2>1, <2>2, <2>4, <2>5, OwnStep, SameOwns DEF TakeCall
<1>7. CASE \E u \in Threads : TakeCallFailed(u)
  <2>1. PICK u \in Threads : TakeCallFailed(u)
    BY <1>7
  <2>2. thr[u].state = "SEND" /\ thr' = Woken({u}) /\ Taking
    BY <2>1 DEF TakeCallFailed, NextItemIsCall, NextCaller, Callers
  <2>3. ThreadsLive
    BY <2>2, WakingLives
  <2>4. SameExit
    BY <2>1, <2>2 DEF TakeCallFailed, SameExit, Taking
  <2>5. QED
    BY <2>1, <2>3, <2>4, OwnStep, SameOwns DEF TakeCallFailed
<1>8. CASE TakeNone
  <2>1. Taking /\ kop' = Idle
    BY <1>8 DEF TakeNone
  <2>2. \A u \in Threads : thr'[u].proc = thr[u].proc /\ (u # r => thr'[u] = thr[u])
    <3> DEFINE new == [thr[r] EXCEPT !.state = "RECV", !.port = kop.port, !.timed = (kop.timeout = "ticks")]
    <3>1. new.proc = thr[r].proc
      BY <1>1, <2>1 DEF Types, ThrT, ThreadRecords
    <3>2. UNCHANGED thr \/ thr' = [thr EXCEPT ![r] = new]
      BY <1>1, <1>8, <2>1 DEF TakeNone, Types, ThrT
    <3> HIDE DEF new
    <3>3. QED
      BY <1>1, <2>1, <3>1, <3>2 DEF Types, ThrT
  <2>3. ThreadsLive
    BY <1>1, <2>1, <2>2 DEF ThreadsLive
  <2>4. QED
    BY <1>3, <1>8, <2>1, <2>3, OwnStep, SameOwns DEF TakeNone
<1>9. CASE \E h \in HandleNos : ExitClose(h)
  BY <1>9, CloseOwn DEF ExitClose, Types, KopT
<1>10. CASE ExitEnd
  <2>1. kop.proc \in Procs /\ kop'.op = "none" /\ kop'.proc = Null
    BY <1>10 DEF ExitEnd, Idle, Types, KopT
  <2>2. ThreadsLive
    BY <1>10, WakingLives DEF ExitEnd, Waiters
  <2>3. LiveStays
    BY <1>10 DEF ExitEnd, LiveStays, Types, PstateT
  <2>4. NoLiveThread'
    BY <2>2, <2>3 DEF OwnInv, NoLiveThread, ThreadsLive, LiveStays
  <2>5. NoIrqOwned'
    BY <1>10, <2>3 DEF ExitEnd, OwnInv, NoIrqOwned, LiveStays
  <2>6. NoHandles'
    <3>1. \A h \in HandleNos : handles[kop.proc][h] = NoObj
      BY <1>10 DEF ExitEnd, AllClosed
    <3>2. UNCHANGED handles
      BY <1>10 DEF ExitEnd
    <3>3. QED
      BY <2>3, <3>1, <3>2 DEF OwnInv, NoHandles, LiveStays
  <2>7. ExitingProc'
    BY <2>1 DEF ExitingProc
  <2>8. QED
    BY <2>4, <2>5, <2>6, <2>7 DEF OwnInv
<1>11. QED
  BY <1>4, <1>5, <1>6, <1>7, <1>8, <1>9, <1>10 DEF KernelStep

\* ... and the interrupts.
LEMMA InterruptOwn ==
  ASSUME Types, OwnInv, Interrupt
  PROVE  OwnInv'
<1>1. ASSUME NEW i \in Irqs, NEW b \in IrqRecords, SetIrq(i, b), b.owner = irq[i].owner, ThreadsLive
      PROVE  OwnInv'
  BY <1>1, IrqOwn
<1>2. CASE \E i \in Irqs : IrqRaise(i)
  <2>1. PICK i \in Irqs : IrqRaise(i)
    BY <1>2
  <2> DEFINE b == [irq[i] EXCEPT !.latch = TRUE]
  <2>2. b \in IrqRecords /\ b.owner = irq[i].owner
    BY DEF Types, IrqT, IrqRecords
  <2>3. SetIrq(i, b) /\ UNCHANGED thr
    BY <2>1 DEF IrqRaise
  <2> HIDE DEF b
  <2>4. QED
    BY <1>1, <2>2, <2>3, SameOwns
<1>3. CASE \E i \in Irqs : IrqNotify(i)
  <2>1. PICK i \in Irqs : IrqNotify(i)
    BY <1>3
  <2> DEFINE b1 == [Masked(i) EXCEPT !.pending = TRUE]
             b2 == [Masked(i) EXCEPT !.delivered = TRUE]
  <2>2. Masked(i) \in IrqRecords /\ Masked(i).owner = irq[i].owner
    BY DEF Types, IrqT, IrqRecords, Masked
  <2>3. b1 \in IrqRecords /\ b1.owner = irq[i].owner /\ b2 \in IrqRecords /\ b2.owner = irq[i].owner
    BY <2>2 DEF IrqRecords
  <2>4. CASE SetIrq(i, Masked(i)) /\ UNCHANGED thr
    BY <1>1, <2>2, <2>4, SameOwns
  <2>5. CASE SetIrq(i, b1) /\ UNCHANGED thr
    <3> HIDE DEF b1
    <3>1. QED
      BY <1>1, <2>3, <2>5, SameOwns
  <2>6. CASE \E u \in Receivers(irq[i].port) : SetIrq(i, b2) /\ thr' = Woken({u})
    <3>1. ThreadsLive
      BY <2>6, WakingLives DEF Receivers
    <3> HIDE DEF b2
    <3>2. QED
      BY <1>1, <2>3, <2>6, <3>1
  <2>7. QED
    BY <2>1, <2>4, <2>5, <2>6 DEF IrqNotify, Notify, QueueIrq
<1>4. CASE \E t \in Threads : TimedOut(t)
  <2>1. ThreadsLive
    BY <1>4, WakingLives DEF TimedOut, Blocked
  <2>2. QED
    BY <1>4, <2>1, OwnStep, SameOwns DEF TimedOut
<1>5. QED
  BY <1>2, <1>3, <1>4 DEF Interrupt

\* OwnInv is an invariant of the kernel.
LEMMA OwnHolds == Spec => []OwnInv
<1>1. Init => OwnInv
  <2> SUFFICES ASSUME Init PROVE OwnInv
    OBVIOUS
  <2>1. NoLiveThread
    BY IpcAssumption DEF Init, NoLiveThread, ReadyThread
  <2>2. NoIrqOwned
    BY IpcAssumption DEF Init, NoIrqOwned
  <2>3. NoHandles
    BY DEF Init, NoHandles
  <2>4. ExitingProc
    BY DEF Init, ExitingProc, Idle
  <2>5. QED
    BY <2>1, <2>2, <2>3, <2>4 DEF OwnInv
<1>2. Types /\ OwnInv /\ [Next]_vars => OwnInv'
  <2> SUFFICES ASSUME Types, OwnInv, [Next]_vars PROVE OwnInv'
    OBVIOUS
  <2>1. CASE Next
    BY <2>1, SyscallOwn, KernelOwn, InterruptOwn DEF Next
  <2>2. CASE UNCHANGED vars
    BY <2>2 DEF vars, OwnInv, NoLiveThread, NoIrqOwned, NoHandles, ExitingProc
  <2>3. QED
    BY <2>1, <2>2
<1>3. QED
  BY <1>1, <1>2, TypesHold, PTL DEF Spec

\* A process that has ended (proc_exit) owns no thread, interrupt or handle, in
\* every instance.
THEOREM NothingOutlivesItsProcess == Spec => []ExitedOwnsNothing
<1>1. OwnInv => ExitedOwnsNothing
  BY DEF OwnInv, NoLiveThread, NoIrqOwned, NoHandles, ExitedOwnsNothing, LiveThreads, Alive
<1>2. QED
  BY <1>1, OwnHolds, PTL

-----------------------------------------------------------------------------
(* Counting handles.                                                        *)

Tables == [Procs -> [HandleNos -> Objects \cup {NoObj}]]

\* The entries of the handle tables H that name o.
Slots(H, o) == {e \in Procs \X HandleNos : H[e[1]][e[2]] = o}

\* The counts R are those of the tables H.
Exact(R, H) == \A o \in Objects : R[o] = Cardinality(Slots(H, o))

\* G names o once more, or once less, than H, and everything else as often.
OneMore(G, H, o) ==
  \A x \in Objects : Cardinality(Slots(G, x)) = IF x = o THEN Cardinality(Slots(H, x)) + 1 ELSE Cardinality(Slots(H, x))
OneLess(G, H, o) ==
  \A x \in Objects : Cardinality(Slots(G, x)) = IF x = o THEN Cardinality(Slots(H, x)) - 1 ELSE Cardinality(Slots(H, x))

\* An empty entry is no object.
LEMMA NoObjIsNone == NoObj \notin Objects
BY DEF NoObj, Objects, PortObj, ChanObj, ProcObj, ThreadObj

\* Entries are counted by natural numbers.
LEMMA FiniteSlots ==
  ASSUME NEW H, NEW o
  PROVE  IsFiniteSet(Slots(H, o)) /\ Cardinality(Slots(H, o)) \in Nat
<1>1. IsFiniteSet(HandleNos)
  BY FS_Interval, IpcAssumption DEF HandleNos
<1>2. IsFiniteSet(Procs \X HandleNos)
  BY <1>1, FS_Product, IpcAssumption
<1>3. Slots(H, o) \in SUBSET (Procs \X HandleNos)
  BY DEF Slots
<1>4. IsFiniteSet(Slots(H, o))
  BY <1>2, <1>3, FS_Subset
<1>5. QED
  BY <1>4, FS_CardinalityType

\* What a table names is counted.
LEMMA NamedCounts ==
  ASSUME NEW H, NEW p \in Procs, NEW h \in HandleNos
  PROVE  Cardinality(Slots(H, H[p][h])) > 0
<1>1. <<p, h>> \in Slots(H, H[p][h])
  BY DEF Slots
<1>2. Cardinality(Slots(H, H[p][h])) # 0
  BY <1>1, FiniteSlots, FS_EmptySet
<1>3. QED
  BY <1>2, FiniteSlots

\* Filling a free entry counts one more of what it names.
LEMMA FillSlot ==
  ASSUME NEW H \in Tables, NEW p \in Procs, NEW h \in HandleNos, H[p][h] = NoObj, NEW o \in Objects,
         NEW G, G = [H EXCEPT ![p][h] = o]
  PROVE  G \in Tables /\ OneMore(G, H, o)
<1>1. G \in Tables
  BY DEF Tables
<1>2. \A q \in Procs, g \in HandleNos : G[q][g] = IF q = p /\ g = h THEN o ELSE H[q][g]
  BY DEF Tables
<1>3. ASSUME NEW x \in Objects
      PROVE  Cardinality(Slots(G, x)) = IF x = o THEN Cardinality(Slots(H, x)) + 1 ELSE Cardinality(Slots(H, x))
  <2>1. <<p, h>> \notin Slots(H, x)
    BY NoObjIsNone DEF Slots
  <2>2. CASE x = o
    <3>1. Slots(G, x) = Slots(H, x) \cup {<<p, h>>}
      BY <1>2, <2>2 DEF Slots
    <3>2. QED
      BY <2>1, <2>2, <3>1, FiniteSlots, FS_AddElement, ZenonT(60)
  <2>3. CASE x # o
    <3>1. Slots(G, x) = Slots(H, x)
      BY <1>2, <2>1, <2>3 DEF Slots
    <3>2. QED
      BY <2>3, <3>1
  <2>4. QED
    BY <2>2, <2>3
<1>4. QED
  BY <1>1, <1>3 DEF OneMore

\* Emptying an entry counts one less.
LEMMA EmptySlot ==
  ASSUME NEW H \in Tables, NEW p \in Procs, NEW h \in HandleNos, H[p][h] # NoObj,
         NEW G, G = [H EXCEPT ![p][h] = NoObj]
  PROVE  G \in Tables /\ OneLess(G, H, H[p][h])
<1>1. G \in Tables
  BY DEF Tables
<1>2. \A q \in Procs, g \in HandleNos : G[q][g] = IF q = p /\ g = h THEN NoObj ELSE H[q][g]
  BY DEF Tables
<1>3. ASSUME NEW x \in Objects
      PROVE  Cardinality(Slots(G, x)) = IF x = H[p][h] THEN Cardinality(Slots(H, x)) - 1 ELSE Cardinality(Slots(H, x))
  <2>1. <<p, h>> \notin Slots(G, x)
    BY <1>2, NoObjIsNone DEF Slots
  <2>2. CASE x = H[p][h]
    <3>1. Slots(G, x) = Slots(H, x) \ {<<p, h>>} /\ <<p, h>> \in Slots(H, x)
      BY <1>2, <2>1, <2>2 DEF Slots
    <3>2. QED
      BY <2>2, <3>1, FiniteSlots, FS_RemoveElement, ZenonT(60)
  <2>3. CASE x # H[p][h]
    <3>1. Slots(G, x) = Slots(H, x)
      BY <1>2, <2>1, <2>3 DEF Slots
    <3>2. QED
      BY <2>3, <3>1
  <2>4. QED
    BY <2>2, <2>3
<1>4. QED
  BY <1>1, <1>3 DEF OneLess

\* handle_add, handle_move and sys_handle_close keep counts exact.
LEMMA AddExact ==
  ASSUME Types, Exact(refs, handles), NEW p \in Procs, NEW h \in HandleNos, NEW o \in Objects, HandleAdd(p, h, o)
  PROVE  /\ Exact(refs', handles')
         /\ refs'[o] > 0 /\ \A x \in Objects \ {o} : refs'[x] = refs[x]
         /\ \A q \in Procs, g \in HandleNos : handles'[q][g] = IF q = p /\ g = h THEN o ELSE handles[q][g]
<1>1. handles \in Tables /\ handles[p][h] = NoObj /\ handles' = [handles EXCEPT ![p][h] = o]
  BY DEF Types, HandlesT, Tables, HandleAdd, LowestFree, FreeHandles
<1>2. \A x \in Objects : refs'[x] = IF x = o THEN refs[x] + 1 ELSE refs[x]
  BY DEF HandleAdd, Types, RefsT
<1>3. OneMore(handles', handles, o)
  BY <1>1, FillSlot
<1>4. refs[o] \in Nat
  BY FiniteSlots DEF Exact
<1>5. Exact(refs', handles')
  BY <1>2, <1>3 DEF Exact, OneMore
<1>6. \A q \in Procs, g \in HandleNos : handles'[q][g] = IF q = p /\ g = h THEN o ELSE handles[q][g]
  BY <1>1 DEF Tables
<1>7. QED
  BY <1>2, <1>4, <1>5, <1>6

\* handle_move duplicates, then closes: what it moves is counted as before.
LEMMA MoveExact ==
  ASSUME Types, Exact(refs, handles), NEW p \in Procs, NEW h \in HandleNos, handles[p][h] # NoObj, NEW q \in Procs,
         HandleMove(p, h, q), UNCHANGED refs
  PROVE  /\ Exact(refs', handles')
         /\ \A s \in Procs, j \in HandleNos :
              handles'[s][j] \in {handles[s][j], NoObj} \/ (s = q /\ handles'[s][j] = handles[p][h])
<1> DEFINE o == handles[p][h]
<1>1. PICK g \in HandleNos : LowestFree(q, g) /\ handles' = [handles EXCEPT ![q][g] = o, ![p][h] = NoObj]
  BY DEF HandleMove
<1>2. handles \in Tables /\ handles[q][g] = NoObj /\ o \in Objects
  BY <1>1 DEF Types, HandlesT, Tables, LowestFree, FreeHandles
<1> DEFINE mid == [handles EXCEPT ![q][g] = o]
<1>3. mid \in Tables /\ OneMore(mid, handles, o)
  BY <1>2, FillSlot
<1>4. \A s \in Procs, j \in HandleNos : mid[s][j] = IF s = q /\ j = g THEN o ELSE handles[s][j]
  BY <1>2 DEF Tables
<1>5. handles' = [mid EXCEPT ![p][h] = NoObj]
  BY <1>1
<1> HIDE DEF mid
<1>6. mid[p][h] = o
  BY <1>2, <1>4
<1>7. OneLess(handles', mid, o)
  BY <1>2, <1>3, <1>5, <1>6, NoObjIsNone, EmptySlot
<1>8. Exact(refs', handles')
  <2>1. \A x \in Objects : Cardinality(Slots(handles', x)) = Cardinality(Slots(handles, x))
    BY <1>3, <1>7, FiniteSlots DEF OneMore, OneLess
  <2>2. QED
    BY <2>1 DEF Exact
<1>9. \A s \in Procs, j \in HandleNos : handles'[s][j] = IF s = p /\ j = h THEN NoObj ELSE mid[s][j]
  BY <1>3, <1>5 DEF Tables
<1>10. QED
  BY <1>4, <1>8, <1>9

\* sys_handle_close counts one less of what it empties.
LEMMA CloseExact ==
  ASSUME Types, Exact(refs, handles), NEW p \in Procs, NEW h \in HandleNos, Close(p, h)
  PROVE  /\ Exact(refs', handles')
         /\ handles[p][h] \in Objects /\ refs[handles[p][h]] \in Nat \ {0}
         /\ \A x \in Objects : refs'[x] = IF x = handles[p][h] THEN refs[x] - 1 ELSE refs[x]
         /\ \A s \in Procs, j \in HandleNos : handles'[s][j] \in {handles[s][j], NoObj}
<1> DEFINE o == handles[p][h]
<1>1. handles \in Tables /\ o \in Objects /\ o # NoObj /\ handles' = [handles EXCEPT ![p][h] = NoObj]
  BY DEF Types, HandlesT, Tables, Close
<1>2. \A x \in Objects : refs'[x] = IF x = o THEN refs[x] - 1 ELSE refs[x]
  BY <1>1 DEF Close, Unref, Types, RefsT
<1>3. OneLess(handles', handles, o)
  BY <1>1, EmptySlot
<1>4. Exact(refs', handles')
  BY <1>2, <1>3 DEF Exact, OneLess
<1>5. refs[o] \in Nat \ {0}
  BY <1>1, FiniteSlots, NamedCounts DEF Exact
<1>6. \A s \in Procs, j \in HandleNos : handles'[s][j] \in {handles[s][j], NoObj}
  BY <1>1 DEF Tables
<1>7. QED
  BY <1>1, <1>2, <1>4, <1>5, <1>6

\* A whole table for a process that had none.
NamingNat(table) == \A x \in Objects : Naming(table, x) \in Nat
AddsTable(G, H, table) ==
  \A x \in Objects : Cardinality(Slots(G, x)) = Cardinality(Slots(H, x)) + Naming(table, x)

\* A table given to a process that had none adds what it names.
LEMMA FillTable ==
  ASSUME NEW H \in Tables, NEW c \in Procs, \A g \in HandleNos : H[c][g] = NoObj,
         NEW table \in [HandleNos -> Objects \cup {NoObj}], NEW G, G = [H EXCEPT ![c] = table]
  PROVE  G \in Tables /\ AddsTable(G, H, table) /\ NamingNat(table)
<1>1. G \in Tables
  BY DEF Tables
<1>2. \A q \in Procs, g \in HandleNos : G[q][g] = IF q = c THEN table[g] ELSE H[q][g]
  BY DEF Tables
<1>3. ASSUME NEW x \in Objects
      PROVE  /\ Cardinality(Slots(G, x)) = Cardinality(Slots(H, x)) + Naming(table, x)
             /\ Naming(table, x) \in Nat
  <2> DEFINE N == {h \in HandleNos : table[h] = x}
  <2>1. IsFiniteSet(N)
    <3>1. IsFiniteSet(HandleNos) /\ N \in SUBSET HandleNos
      BY FS_Interval, IpcAssumption DEF HandleNos
    <3>2. QED
      BY <3>1, FS_Subset
  <2>2. Slots(G, x) = Slots(H, x) \cup ({c} \X N)
    BY <1>2, NoObjIsNone DEF Slots
  <2>3. Slots(H, x) \cap ({c} \X N) = {}
    BY NoObjIsNone DEF Slots
  <2>4. Cardinality(N) \in Nat /\ Naming(table, x) = Cardinality(N)
    BY <2>1, FS_CardinalityType DEF Naming
  <2> HIDE DEF N
  <2>5. IsFiniteSet({c}) /\ Cardinality({c}) = 1
    BY FS_Singleton
  <2>6. IsFiniteSet({c} \X N) /\ Cardinality({c} \X N) = Cardinality({c}) * Cardinality(N)
    BY <2>1, <2>5, FS_Product
  <2>7. Cardinality({c} \X N) = Cardinality(N)
    BY <2>4, <2>5, <2>6
  <2>8. Cardinality(Slots(H, x) \cup ({c} \X N))
          = Cardinality(Slots(H, x)) + Cardinality({c} \X N) - Cardinality(Slots(H, x) \cap ({c} \X N))
    BY <2>6, FiniteSlots, FS_Union
  <2>9. Cardinality(Slots(H, x) \cap ({c} \X N)) = 0
    BY <2>3, FS_EmptySet
  <2>10. Cardinality(Slots(H, x)) \in Nat
    BY FiniteSlots
  <2> DEFINE whole == Cardinality(Slots(H, x) \cup ({c} \X N))
             both == Cardinality(Slots(H, x) \cap ({c} \X N))
             added == Cardinality({c} \X N)
  <2>11. whole = Cardinality(Slots(H, x)) + added - both /\ both = 0 /\ added = Naming(table, x)
    BY <2>4, <2>7, <2>8, <2>9
  <2>12. Cardinality(Slots(G, x)) = whole
    BY <2>2
  <2> HIDE DEF whole, both, added
  <2>13. QED
    BY <2>4, <2>10, <2>11, <2>12
<1>4. QED
  BY <1>1, <1>3 DEF AddsTable, NamingNat

\* What is not named is not counted.
LEMMA NamingOfAbsent ==
  ASSUME NEW table, NEW x, \A h \in HandleNos : table[h] # x
  PROVE  Naming(table, x) = 0
<1>1. {h \in HandleNos : table[h] = x} = {}
  OBVIOUS
<1>2. QED
  BY <1>1, FS_EmptySet DEF Naming

\* The start of a process: its table names what its parent's names, and the
\* parent names the process.
StartEntries(p, c, table) ==
  \A q \in Procs, g \in HandleNos : \/ handles'[q][g] = handles[q][g]
                                    \/ q = p /\ handles'[q][g] = ProcObj(c)
                                    \/ q = c /\ handles'[q][g] = table[g]
SameHeld(S) == \A x \in Objects \ S : (refs'[x] > 0 <=> refs[x] > 0) /\ (refs'[x] = 0 <=> refs[x] = 0)

\* proc_spawn and proc_fork keep counts exact.
LEMMA StartExact ==
  ASSUME Types, OwnInv, Exact(refs, handles), kop.op = "none", NEW t \in Threads, thr[t].state = "READY",
         NEW c \in Procs, refs[ProcObj(c)] = 0,
         NEW table \in [HandleNos -> Objects \cup {NoObj}],
         \A h \in HandleNos : table[h] # NoObj => \E g \in HandleNos : handles[thr[t].proc][g] = table[h],
         StartProc(t, c, table)
  PROVE  /\ Exact(refs', handles') /\ SameHeld({ProcObj(c)})
         /\ refs'[ProcObj(c)] > 0 /\ StartEntries(thr[t].proc, c, table)
<1> DEFINE p == thr[t].proc
<1>1. p \in Procs /\ pstate[p] = "LIVE" /\ p # c
  BY AliveHome DEF StartProc, Claimable
<1>2. \A g \in HandleNos : handles[c][g] = NoObj
  <2>1. kop.proc # c /\ pstate[c] # "LIVE"
    BY IpcAssumption DEF OwnInv, ExitingProc, StartProc, Claimable
  <2>2. QED
    BY <2>1 DEF OwnInv, NoHandles
<1>3. PICK h \in HandleNos : LowestFree(p, h) /\ handles' = [handles EXCEPT ![c] = table, ![p][h] = ProcObj(c)]
  BY DEF StartProc
<1>4. handles \in Tables /\ handles[p][h] = NoObj /\ ProcObj(c) \in Objects
  BY <1>3 DEF Types, HandlesT, Tables, LowestFree, FreeHandles, Objects
<1> DEFINE mid == [handles EXCEPT ![c] = table]
<1>5. mid \in Tables /\ AddsTable(mid, handles, table) /\ NamingNat(table)
  BY <1>2, <1>4, FillTable
<1>6. \A q \in Procs, g \in HandleNos : mid[q][g] = IF q = c THEN table[g] ELSE handles[q][g]
  BY <1>4 DEF Tables
<1>7. handles' = [mid EXCEPT ![p][h] = ProcObj(c)]
  BY <1>3
<1> HIDE DEF mid
<1>8. mid[p][h] = NoObj
  BY <1>1, <1>4, <1>6
<1>9. OneMore(handles', mid, ProcObj(c))
  BY <1>1, <1>4, <1>5, <1>7, <1>8, FillSlot
<1>10. ASSUME NEW x \in Objects, refs[x] = 0
       PROVE  Naming(table, x) = 0
  <2>1. \A g \in HandleNos : handles[p][g] # x
    BY <1>1, <1>10, NamedCounts DEF Exact
  <2>2. \A g \in HandleNos : table[g] # x
    BY <1>10, <2>1, NoObjIsNone
  <2>3. QED
    BY <2>2, NamingOfAbsent
<1>11. \A x \in Objects : refs'[x] = IF x = ProcObj(c) THEN 1 ELSE refs[x] + Naming(table, x)
  BY DEF StartProc
<1>12. \A x \in Objects : refs[x] \in Nat /\ Naming(table, x) \in Nat
  BY <1>5, FiniteSlots DEF Exact, NamingNat
<1>13. Exact(refs', handles')
  <2>1. Naming(table, ProcObj(c)) = 0
    BY <1>4, <1>10
  <2>2. \A x \in Objects :
          Cardinality(Slots(handles', x)) = refs[x] + Naming(table, x) + (IF x = ProcObj(c) THEN 1 ELSE 0)
    BY <1>5, <1>9, <1>12 DEF OneMore, AddsTable, Exact
  <2>3. QED
    BY <1>11, <2>1, <2>2, <1>12 DEF Exact
<1>14. SameHeld({ProcObj(c)}) /\ refs'[ProcObj(c)] > 0
  <2>1. refs'[ProcObj(c)] > 0
    BY <1>4, <1>11
  <2>2. QED
    BY <1>10, <1>11, <1>12, <2>1 DEF SameHeld
<1>15. StartEntries(p, c, table)
  <2>1. \A q \in Procs, g \in HandleNos : handles'[q][g] = IF q = p /\ g = h THEN ProcObj(c) ELSE mid[q][g]
    BY <1>5, <1>7 DEF Tables
  <2>2. QED
    BY <1>6, <2>1 DEF StartEntries
<1>16. QED
  BY <1>13, <1>14, <1>15

-----------------------------------------------------------------------------
(* The inductive invariant.                                                 *)

\* Counts are exact, and what is counted exists.
PortsHeld   == \A k \in Ports : k \in used <=> refs[PortObj(k)] > 0
ChansHeld   == \A c \in Chans : refs[ChanObj(c)] > 0 => chan[c].used
ProcsHeld   == \A p \in Procs : refs[ProcObj(p)] > 0 => pstate[p] # "FREE"
ThreadsHeld == \A t \in Threads : refs[ThreadObj(t)] > 0 => thr[t].state # "FREE"
HeldInv == Exact(refs, handles) /\ PortsHeld /\ ChansHeld /\ ProcsHeld /\ ThreadsHeld

\* A THREAD handle stays in the process of its thread.
ThreadsAtHome == \A p \in Procs, h \in HandleNos, t \in Threads : handles[p][h] = ThreadObj(t) => thr[t].proc = p

\* The CLIENT_GONE lists G hold each channel that is used without handles, once,
\* on the list of its port; C are the channels and R the counts.
GoneAreOwed(G, C, R) ==
  \A k \in Ports : \A i \in 1 .. Len(G[k]) : C[G[k][i]].used /\ C[G[k][i]].port = k /\ R[ChanObj(G[k][i])] = 0
GoneOnce(G) == \A k \in Ports : \A i, j \in 1 .. Len(G[k]) : G[k][i] = G[k][j] => i = j
OwedAreGone(G, C, R) ==
  \A c \in Chans : C[c].used /\ R[ChanObj(c)] = 0 =>
    C[c].port \in Ports /\ \E i \in 1 .. Len(G[C[c].port]) : G[C[c].port][i] = c
OwedOnce(G, C, R) == GoneAreOwed(G, C, R) /\ GoneOnce(G) /\ OwedAreGone(G, C, R)
GoneInv == OwedOnce(gone, chan, refs)

\* What leads to a port leads to one in use.
WaitersOnPorts == \A t \in Threads : thr[t].state \in {"SEND", "REPLY", "RECV"} => thr[t].port \in used
KopOnPort      == kop.op \in {"recv", "call"} => kop.port \in used
NamesOnPorts   == \A n \in Names : service[n] # Null => service[n] \in used
ChansOnPorts   == \A c \in Chans : chan[c].used /\ chan[c].port # Null => chan[c].port \in used
IrqsRight ==
  \A i \in Irqs :
    IF irq[i].owner = Null
    THEN ~irq[i].enable /\ ~irq[i].pending /\ ~irq[i].delivered /\ irq[i].port = Null
    ELSE /\ irq[i].port \in used
         /\ irq[i].enable = (~irq[i].pending /\ ~irq[i].delivered)
         /\ ~(irq[i].pending /\ irq[i].delivered)
SendersMarked == \A t \in Threads : thr[t].state = "SEND" => t \in send_blocked
PortInv == WaitersOnPorts /\ KopOnPort /\ NamesOnPorts /\ ChansOnPorts /\ IrqsRight /\ SendersMarked

SoundInv == HeldInv /\ ThreadsAtHome /\ GoneInv /\ PortInv /\ WaitTargetLives

-----------------------------------------------------------------------------
(* What most steps do: threads do not begin to wait, nothing ends.            *)

\* Only a record that nothing names may get another process.
KeepHomes ==
  \A t \in Threads :
    /\ thr[t].state # "FREE" => thr'[t].state # "FREE"
    /\ refs[ThreadObj(t)] > 0 \/ thr[t].state \notin {"FREE", "DEAD"} => thr'[t].proc = thr[t].proc
NoNewBlock ==
  \A t \in Threads : thr'[t].state \in {"SEND", "REPLY", "RECV"} =>
    /\ thr[t].state \in {"SEND", "REPLY", "RECV"} /\ thr'[t].port = thr[t].port
    /\ thr'[t].state = "SEND" => thr[t].state = "SEND"
NoNewWait ==
  \A t \in Threads : thr'[t].state = "WAIT" =>
    thr[t].state = "WAIT" /\ thr'[t].wait_thread = thr[t].wait_thread /\ thr'[t].wait_proc = thr[t].wait_proc
AliveStay == \A t \in Threads : thr[t].state \notin {"FREE", "DEAD"} => thr'[t].state \notin {"FREE", "DEAD"}
Calm == KeepHomes /\ NoNewBlock /\ NoNewWait /\ AliveStay

\* Objects other than n, which may get its first or lose its last handle, exist as long as they are held.
PortsFollow(n) ==
  \A k \in Ports : IF n = PortObj(k) THEN k \in used' <=> refs'[PortObj(k)] > 0 ELSE k \in used' <=> k \in used
ChansFollow(n) ==
  \A c \in Chans : refs'[ChanObj(c)] > 0 /\ (chan[c].used \/ n = ChanObj(c)) => chan'[c].used
ProcsFollow(n) ==
  \A p \in Procs : refs'[ProcObj(p)] > 0 /\ (pstate[p] # "FREE" \/ n = ProcObj(p)) => pstate'[p] # "FREE"
ThreadsFollow(n) ==
  \A t \in Threads : refs'[ThreadObj(t)] > 0 /\ (thr[t].state # "FREE" \/ n = ThreadObj(t)) => thr'[t].state # "FREE"

\* A THREAD handle is only copied within its process.
ThreadSource ==
  \A p \in Procs, h \in HandleNos : handles'[p][h][1] = "thread" =>
    \E g \in HandleNos : handles[p][g] = handles'[p][h]

\* What an object is and what it is of.
LEMMA ObjKinds ==
  /\ \A k \in Ports : PortObj(k) \in Objects /\ PortObj(k)[1] = "port" /\ PortObj(k)[2] = k
  /\ \A c \in Chans : ChanObj(c) \in Objects /\ ChanObj(c)[1] = "chan" /\ ChanObj(c)[2] = c
  /\ \A p \in Procs : ProcObj(p) \in Objects /\ ProcObj(p)[1] = "proc" /\ ProcObj(p)[2] = p
  /\ \A t \in Threads : ThreadObj(t) \in Objects /\ ThreadObj(t)[1] = "thread" /\ ThreadObj(t)[2] = t
  /\ \A o \in Objects : /\ o[1] = "port" => o = PortObj(o[2])
                        /\ o[1] = "chan" => o = ChanObj(o[2])
                        /\ o[1] = "proc" => o = ProcObj(o[2])
                        /\ o[1] = "thread" => o = ThreadObj(o[2])
                        /\ o[1] \in {"port", "chan", "proc", "thread"}
BY DEF Objects, PortObj, ChanObj, ProcObj, ThreadObj

\* A step that keeps counts exact keeps what is counted, when at most n begins or ends to be held.
LEMMA HeldStep ==
  ASSUME HeldInv, Exact(refs', handles'), NEW n, SameHeld({n}),
         PortsFollow(n), ChansFollow(n), ProcsFollow(n), ThreadsFollow(n)
  PROVE  HeldInv'
<1>1. PortsHeld'
  BY ObjKinds DEF HeldInv, PortsHeld, PortsFollow, SameHeld
<1>2. ChansHeld'
  BY ObjKinds DEF HeldInv, ChansHeld, ChansFollow, SameHeld
<1>3. ProcsHeld'
  BY ObjKinds DEF HeldInv, ProcsHeld, ProcsFollow, SameHeld
<1>4. ThreadsHeld'
  BY ObjKinds DEF HeldInv, ThreadsHeld, ThreadsFollow, SameHeld
<1>5. QED
  BY <1>1, <1>2, <1>3, <1>4 DEF HeldInv

\* Steps that change nothing of a kind.
LEMMA Follows ==
  ASSUME NEW n
  PROVE  /\ UNCHANGED used /\ n[1] # "port" => PortsFollow(n)
         /\ UNCHANGED chan /\ n[1] # "chan" => ChansFollow(n)
         /\ UNCHANGED pstate /\ n[1] # "proc" => ProcsFollow(n)
         /\ KeepHomes /\ n[1] # "thread" => ThreadsFollow(n)
         /\ UNCHANGED refs => SameHeld({n})
<1>1. UNCHANGED used /\ n[1] # "port" => PortsFollow(n)
  BY ObjKinds DEF PortsFollow
<1>2. UNCHANGED chan /\ n[1] # "chan" => ChansFollow(n)
  BY ObjKinds DEF ChansFollow
<1>3. UNCHANGED pstate /\ n[1] # "proc" => ProcsFollow(n)
  BY ObjKinds DEF ProcsFollow
<1>4. KeepHomes /\ n[1] # "thread" => ThreadsFollow(n)
  BY ObjKinds DEF ThreadsFollow, KeepHomes
<1>5. UNCHANGED refs => SameHeld({n})
  BY DEF SameHeld
<1>6. QED
  BY <1>1, <1>2, <1>3, <1>4, <1>5

\* THREAD handles that are only copied within their process stay at home.
LEMMA HomesStay ==
  ASSUME Exact(refs, handles), ThreadsAtHome, KeepHomes, ThreadSource
  PROVE  ThreadsAtHome'
<1>1. ASSUME NEW p \in Procs, NEW h \in HandleNos, NEW t \in Threads, handles'[p][h] = ThreadObj(t)
      PROVE  thr'[t].proc = p
  <2>1. PICK g \in HandleNos : handles[p][g] = ThreadObj(t)
    BY <1>1, ObjKinds DEF ThreadSource
  <2>2. refs[ThreadObj(t)] > 0
    BY <2>1, NamedCounts, ObjKinds DEF Exact
  <2>3. QED
    BY <2>1, <2>2 DEF ThreadsAtHome, KeepHomes
<1>2. QED
  BY <1>1 DEF ThreadsAtHome

\* Other counts than those of channels leave the CLIENT_GONE lists right.
LEMMA GoneStays ==
  ASSUME Types, GoneInv, UNCHANGED <<gone, chan>>, NEW n, SameHeld({n}), n[1] # "chan"
  PROVE  GoneInv'
<1>1. \A c \in Chans : refs'[ChanObj(c)] = 0 <=> refs[ChanObj(c)] = 0
  BY ObjKinds DEF SameHeld
<1>2. \A k \in Ports : \A i \in 1 .. Len(gone[k]) : gone[k][i] \in Chans
  BY DEF Types, GoneT
<1>3. GoneAreOwed(gone, chan, refs')
  BY <1>1, <1>2 DEF GoneInv, OwedOnce, GoneAreOwed
<1>4. OwedAreGone(gone, chan, refs')
  BY <1>1 DEF GoneInv, OwedOnce, OwedAreGone
<1>5. QED
  BY <1>3, <1>4 DEF GoneInv, OwedOnce

\* A channel that loses its last handle joins the list of its port.
ChanTables == [Chans -> [used : BOOLEAN, port : Ports \cup {Null}]]

Joined(G, k, c) == [G EXCEPT ![k] = Append(@, c)]
OthersOwed(R2, R, c) == \A d \in Chans \ {c} : R2[ChanObj(d)] = 0 <=> R[ChanObj(d)] = 0

\* chan_last_closed appends a channel that was held.
LEMMA JoinsGone ==
  ASSUME NEW G \in [Ports -> Seq(Chans)], NEW C \in ChanTables, NEW R, NEW R2, OwedOnce(G, C, R),
         NEW c \in Chans, NEW k \in Ports, C[c].used, C[c].port = k, R[ChanObj(c)] # 0, R2[ChanObj(c)] = 0,
         OthersOwed(R2, R, c)
  PROVE  /\ Joined(G, k, c) \in [Ports -> Seq(Chans)] /\ OwedOnce(Joined(G, k, c), C, R2)
         /\ Joined(G, k, c)[k] = Append(G[k], c) /\ Joined(G, k, c)[k] # <<>>
<1>1. PICK G2 : G2 = Joined(G, k, c) /\ G2 = [G EXCEPT ![k] = Append(@, c)]
  BY DEF Joined
<1>2. /\ G2 \in [Ports -> Seq(Chans)] /\ G2[k] = Append(G[k], c) /\ \A j \in Ports : j # k => G2[j] = G[j]
      /\ \A j \in Ports : G[j] \in Seq(Chans)
  BY <1>1, AppendProperties
<1>3. /\ Len(G2[k]) = Len(G[k]) + 1 /\ G2[k][Len(G[k]) + 1] = c /\ Len(G[k]) \in Nat
      /\ \A i \in 1 .. Len(G[k]) : G2[k][i] = G[k][i]
  BY <1>2, AppendProperties
<1>4. \A j \in Ports : \A i \in 1 .. Len(G[j]) : G[j][i] \in Chans /\ G[j][i] # c
  BY <1>2 DEF OwedOnce, GoneAreOwed
<1>5. GoneAreOwed(G2, C, R2)
  <2>1. ASSUME NEW j \in Ports, NEW i \in 1 .. Len(G2[j])
        PROVE  C[G2[j][i]].used /\ C[G2[j][i]].port = j /\ R2[ChanObj(G2[j][i])] = 0
    <3>1. CASE j = k /\ i = Len(G[k]) + 1
      BY <1>3, <3>1
    <3>2. CASE i \in 1 .. Len(G[j]) /\ G2[j][i] = G[j][i]
      BY <1>4, <3>2 DEF OwedOnce, GoneAreOwed, OthersOwed
    <3>3. QED
      BY <1>1, <1>2, <1>3, <3>1, <3>2
  <2>2. QED
    BY <2>1 DEF GoneAreOwed
<1>6. GoneOnce(G2)
  BY <1>1, <1>2, <1>3, <1>4 DEF OwedOnce, GoneOnce
<1>7. OwedAreGone(G2, C, R2)
  <2>1. ASSUME NEW d \in Chans, C[d].used, R2[ChanObj(d)] = 0
        PROVE  C[d].port \in Ports /\ \E i \in 1 .. Len(G2[C[d].port]) : G2[C[d].port][i] = d
    <3>1. CASE d = c
      BY <1>3, <3>1
    <3>2. CASE d # c
      <4>1. PICK i \in 1 .. Len(G[C[d].port]) : C[d].port \in Ports /\ G[C[d].port][i] = d
        BY <2>1, <3>2 DEF OwedOnce, OwedAreGone, OthersOwed
      <4>2. i \in 1 .. Len(G2[C[d].port]) /\ G2[C[d].port][i] = d
        BY <1>1, <1>2, <1>3, <4>1
      <4>3. QED
        BY <4>1, <4>2
    <3>3. QED
      BY <3>1, <3>2
  <2>2. QED
    BY <2>1 DEF OwedAreGone
<1>8. QED
  BY <1>1, <1>2, <1>3, <1>5, <1>6, <1>7 DEF OwedOnce

\* The first of a list is delivered, which frees its channel.
FreedOnly(C2, C, R) ==
  \A c \in Chans : /\ C2[c].port = C[c].port
                   /\ C2[c].used => C[c].used
                   /\ C[c].used /\ R[ChanObj(c)] # 0 => C2[c].used

\* take_next delivers the first of a list.
LEMMA LeavesGone ==
  ASSUME NEW G \in [Ports -> Seq(Chans)], NEW C \in ChanTables, NEW R, OwedOnce(G, C, R),
         NEW k \in Ports, G[k] # <<>>, NEW G2, G2 = [G EXCEPT ![k] = Tail(@)],
         NEW C2, C2 = [C EXCEPT ![Head(G[k])].used = FALSE]
  PROVE  /\ OwedOnce(G2, C2, R)
         /\ FreedOnly(C2, C, R)
<1> DEFINE L == G[k]
           c == Head(L)
<1>1. L \in Seq(Chans) /\ Len(L) \in Nat \ {0} /\ c = L[1] /\ c \in Chans
  BY HeadTailProperties
<1>2. /\ Len(G2[k]) = Len(L) - 1 /\ \A i \in 1 .. Len(L) - 1 : G2[k][i] = L[i + 1]
      /\ \A j \in Ports : j # k => G2[j] = G[j]
  BY <1>1, HeadTailProperties
<1>3. \A d \in Chans : /\ C2[d].port = C[d].port
                       /\ C2[d].used = (C[d].used /\ d # c)
  BY <1>1 DEF ChanTables
<1>4. C[c].used /\ C[c].port = k /\ R[ChanObj(c)] = 0
  BY <1>1 DEF OwedOnce, GoneAreOwed
<1> HIDE DEF L, c
<1>5. \A i \in 1 .. Len(L) : L[i] \in Chans /\ (i # 1 => L[i] # c)
  <2>1. \A i, j \in 1 .. Len(L) : L[i] = L[j] => i = j
    BY DEF OwedOnce, GoneOnce, L
  <2>2. 1 \in 1 .. Len(L)
    BY <1>1
  <2>3. \A i \in 1 .. Len(L) : L[i] \in Chans
    BY <1>1
  <2>4. QED
    BY <1>1, <2>1, <2>2, <2>3
<1>6. GoneAreOwed(G2, C2, R)
  <2>1. ASSUME NEW j \in Ports, NEW i \in 1 .. Len(G2[j])
        PROVE  C2[G2[j][i]].used /\ C2[G2[j][i]].port = j /\ R[ChanObj(G2[j][i])] = 0
    <3>1. CASE j = k
      <4>1. i + 1 \in 1 .. Len(L) /\ i + 1 # 1 /\ G2[j][i] = L[i + 1]
        BY <1>1, <1>2, <3>1
      <4>2. C[L[i + 1]].used /\ C[L[i + 1]].port = k /\ R[ChanObj(L[i + 1])] = 0
        BY <4>1 DEF OwedOnce, GoneAreOwed, L
      <4>3. QED
        BY <1>3, <1>5, <3>1, <4>1, <4>2
    <3>2. CASE j # k
      <4>1. G2[j] = G[j] /\ G[j] \in Seq(Chans)
        BY <1>2, <3>2
      <4>2. G[j][i] \in Chans /\ C[G[j][i]].used /\ C[G[j][i]].port = j /\ R[ChanObj(G[j][i])] = 0
        BY <4>1 DEF OwedOnce, GoneAreOwed
      <4>3. QED
        BY <1>3, <1>4, <3>2, <4>1, <4>2
    <3>3. QED
      BY <3>1, <3>2
  <2>2. QED
    BY <2>1 DEF GoneAreOwed
<1>7. GoneOnce(G2)
  <2>1. ASSUME NEW i \in 1 .. Len(G2[k]), NEW j \in 1 .. Len(G2[k]), G2[k][i] = G2[k][j]
        PROVE  i = j
    <3> DEFINE m == Len(L)
    <3>1. i \in 1 .. m - 1 /\ j \in 1 .. m - 1 /\ m \in Nat
      BY <1>1, <1>2
    <3>2. L[i + 1] = L[j + 1]
      BY <1>2, <2>1, <3>1
    <3>3. i + 1 \in 1 .. m /\ j + 1 \in 1 .. m
      <4> HIDE DEF m
      <4>1. QED
        BY <3>1
    <3>4. i + 1 \in 1 .. Len(L) /\ j + 1 \in 1 .. Len(L) /\ L[i + 1] = L[j + 1]
      BY <3>2, <3>3
    <3>5. i + 1 = j + 1
      BY <3>4 DEF OwedOnce, GoneOnce, L
    <3>6. QED
      BY <1>1, <1>2, <3>5
  <2>2. QED
    BY <1>2, <2>1 DEF OwedOnce, GoneOnce
<1>8. OwedAreGone(G2, C2, R)
  <2>1. ASSUME NEW d \in Chans, C2[d].used, R[ChanObj(d)] = 0
        PROVE  C2[d].port \in Ports /\ \E i \in 1 .. Len(G2[C2[d].port]) : G2[C2[d].port][i] = d
    <3>1. C[d].used /\ d # c /\ C2[d].port = C[d].port
      BY <1>3, <2>1
    <3>2. PICK i \in 1 .. Len(G[C[d].port]) : C[d].port \in Ports /\ G[C[d].port][i] = d
      BY <2>1, <3>1 DEF OwedOnce, OwedAreGone
    <3>3. CASE C[d].port = k
      <4>1. i \in 1 .. Len(L) /\ L[i] = d /\ i # 1
        BY <1>1, <3>1, <3>2, <3>3 DEF L
      <4>2. i - 1 \in 1 .. Len(L) - 1 /\ (i - 1) + 1 = i
        <5> DEFINE n == Len(L)
        <5>1. n \in Nat /\ i \in 1 .. n /\ i # 1
          BY <1>1, <4>1
        <5> HIDE DEF n
        <5>2. i - 1 \in 1 .. n - 1 /\ (i - 1) + 1 = i
          BY ONLY <5>1
        <5> QED
          BY <5>2 DEF n
      <4>3. G2[k][i - 1] = d /\ i - 1 \in 1 .. Len(G2[k])
        BY <1>2, <4>1, <4>2
      <4>4. QED
        BY <3>1, <3>2, <3>3, <4>3
    <3>4. CASE C[d].port # k
      BY <1>2, <3>1, <3>2, <3>4, ZenonT(60)
    <3>5. QED
      BY <3>3, <3>4
  <2>2. QED
    BY <2>1 DEF OwedAreGone
<1>9. FreedOnly(C2, C, R)
  BY <1>3, <1>4 DEF FreedOnly
<1>10. QED
  BY <1>6, <1>7, <1>8, <1>9 DEF OwedOnce

\* What keeps each way to a port.
LEMMA PortsStay ==
  ASSUME PortInv, \A k \in used : k \in used'
  PROVE  /\ NoNewBlock => WaitersOnPorts'
         /\ UNCHANGED kop \/ kop'.op \notin {"recv", "call"} => KopOnPort'
         /\ UNCHANGED service => NamesOnPorts'
         /\ UNCHANGED chan => ChansOnPorts'
         /\ UNCHANGED irq => IrqsRight'
         /\ NoNewBlock /\ UNCHANGED send_blocked => SendersMarked'
         /\ NoNewBlock /\ send_blocked' = StillSending => SendersMarked'
<1>1. NoNewBlock => WaitersOnPorts'
  BY DEF PortInv, WaitersOnPorts, NoNewBlock
<1>2. UNCHANGED kop \/ kop'.op \notin {"recv", "call"} => KopOnPort'
  BY DEF PortInv, KopOnPort
<1>3. UNCHANGED service => NamesOnPorts'
  BY DEF PortInv, NamesOnPorts
<1>4. UNCHANGED chan => ChansOnPorts'
  BY DEF PortInv, ChansOnPorts
<1>5. UNCHANGED irq => IrqsRight'
  BY DEF PortInv, IrqsRight
<1>6. NoNewBlock /\ UNCHANGED send_blocked => SendersMarked'
  BY DEF PortInv, SendersMarked, NoNewBlock
<1>7. NoNewBlock /\ send_blocked' = StillSending => SendersMarked'
  BY DEF PortInv, SendersMarked, NoNewBlock, StillSending
<1>8. QED
  BY <1>1, <1>2, <1>3, <1>4, <1>5, <1>6, <1>7

SameKop == UNCHANGED kop \/ kop.op # "exit"

\* Who waits for something live goes on to.
LEMMA TargetsStay ==
  ASSUME Types, WaitTargetLives, KeepHomes, NoNewWait, AliveStay, LiveStays, SameKop
  PROVE  WaitTargetLives'
<1> SUFFICES ASSUME NEW t \in Threads, thr'[t].state = "WAIT"
             PROVE  \/ /\ thr'[t].wait_thread # Null /\ Alive(thr[t].wait_thread)'
                       /\ thr'[thr'[t].wait_thread].proc = thr'[t].proc
                    \/ /\ thr'[t].wait_proc # Null
                       /\ pstate'[thr'[t].wait_proc] = "LIVE" \/ (kop'.op = "exit" /\ kop'.proc = thr'[t].wait_proc)
  BY DEF WaitTargetLives
<1>1. /\ thr[t].state = "WAIT" /\ thr'[t].wait_thread = thr[t].wait_thread /\ thr'[t].wait_proc = thr[t].wait_proc
      /\ thr'[t].proc = thr[t].proc
      /\ thr[t].wait_thread \in Threads \cup {Null} /\ thr[t].wait_proc \in Procs \cup {Null}
  BY DEF NoNewWait, KeepHomes, Types, ThrT, ThreadRecords
<1>2. CASE thr[t].wait_thread # Null /\ Alive(thr[t].wait_thread) /\ thr[thr[t].wait_thread].proc = thr[t].proc
  BY <1>1, <1>2 DEF Alive, AliveStay, KeepHomes
<1>3. CASE thr[t].wait_proc # Null /\ (pstate[thr[t].wait_proc] = "LIVE" \/ (kop.op = "exit" /\ kop.proc = thr[t].wait_proc))
  BY <1>1, <1>3 DEF LiveStays, SameKop
<1>4. QED
  BY <1>1, <1>2, <1>3 DEF WaitTargetLives

-----------------------------------------------------------------------------
(* Threads that are woken, served or started are calm.                       *)

\* A step that leaves threads alone is calm.
LEMMA SameCalm ==
  ASSUME UNCHANGED thr
  PROVE  Calm
BY DEF Calm, KeepHomes, NoNewBlock, NoNewWait, AliveStay

\* sched_wake of blocked threads is calm.
LEMMA WakeCalm ==
  ASSUME Types, NEW S, thr' = Woken(S), \A t \in S \cap Threads : thr[t].state \notin {"FREE", "DEAD"}
  PROVE  Calm
<1>1. \A t \in Threads : /\ thr'[t].proc = thr[t].proc
                         /\ t \notin S => thr'[t] = thr[t]
                         /\ t \in S => thr'[t].state = "READY"
  BY WokenType DEF Types
<1>2. QED
  BY <1>1 DEF Calm, KeepHomes, NoNewBlock, NoNewWait, AliveStay

\* take_next serving its receiver is calm.
LEMMA ReadyCalm ==
  ASSUME Types, NEW r \in Threads, thr[r].state \notin {"FREE", "DEAD"}, thr' = [thr EXCEPT ![r] = ReadyThread(thr[r].proc)]
  PROVE  Calm
<1>1. /\ thr'[r].state = "READY" /\ thr'[r].proc = thr[r].proc
      /\ \A v \in Threads : v # r => thr'[v] = thr[v]
  BY ReadyType DEF Types, ThrT, ThreadRecords
<1>2. QED
  BY <1>1 DEF Calm, KeepHomes, NoNewBlock, NoNewWait, AliveStay

\* sched_alloc_thread takes a record that nothing names.
LEMMA AllocCalm ==
  ASSUME Types, ThreadsHeld, NEW u \in Threads, Allocatable(u), NEW q \in Procs, thr' = [thr EXCEPT ![u] = ReadyThread(q)]
  PROVE  Calm /\ thr'[u].proc = q
<1>1. /\ thr'[u].state = "READY" /\ thr'[u].proc = q
      /\ \A v \in Threads : v # u => thr'[v] = thr[v]
  BY ReadyType DEF Types, ThrT
<1>2. thr[u].state \in {"FREE", "DEAD"} /\ ~(refs[ThreadObj(u)] > 0)
  BY DEF Allocatable, ThreadsHeld
<1>3. QED
  BY <1>1, <1>2 DEF Calm, KeepHomes, NoNewBlock, NoNewWait, AliveStay

-----------------------------------------------------------------------------
(* Steps of one kind.                                                       *)

\* A step that leaves the handles alone keeps counts exact.
LEMMA SameHandles ==
  ASSUME SoundInv, UNCHANGED <<handles, refs>>
  PROVE  Exact(refs', handles') /\ ThreadSource
<1>1. Exact(refs', handles')
  BY DEF SoundInv, HeldInv
<1>2. ThreadSource
  BY DEF ThreadSource
<1>3. QED
  BY <1>1, <1>2

\* handle_move refuses a THREAD handle for another process.
LEMMA MoveSource ==
  ASSUME Types, SoundInv, NEW p \in Procs, NEW h \in HandleNos, NEW q \in Procs,
         CanMove(p, h, q), HandleMove(p, h, q), UNCHANGED refs
  PROVE  Exact(refs', handles') /\ ThreadSource
<1>1. /\ Exact(refs', handles')
      /\ \A s \in Procs, j \in HandleNos :
           handles'[s][j] \in {handles[s][j], NoObj} \/ (s = q /\ handles'[s][j] = handles[p][h])
  BY MoveExact DEF SoundInv, HeldInv, CanMove
<1>2. handles[p][h][1] = "thread" => p = q
  BY DEF CanMove
<1>3. NoObj[1] # "thread"
  BY DEF NoObj
<1>4. ThreadSource
  BY <1>1, <1>2, <1>3 DEF ThreadSource
<1>5. QED
  BY <1>1, <1>4

\* No object begins or ends to be held, no thread begins to wait.
LEMMA CalmStep ==
  ASSUME Types, SoundInv, Calm, UNCHANGED <<refs, used, gone, chan, service, pstate>>,
         Exact(refs', handles'), ThreadSource, IrqsRight', KopOnPort', SendersMarked', SameKop
  PROVE  SoundInv'
<1> DEFINE n == NoObj
<1>1. n[1] = "none"
  BY DEF NoObj
<1> HIDE DEF n
<1>2. SameHeld({n}) /\ PortsFollow(n) /\ ChansFollow(n) /\ ProcsFollow(n) /\ ThreadsFollow(n)
  BY <1>1, Follows DEF Calm
<1>3. HeldInv'
  BY <1>2, HeldStep DEF SoundInv
<1>4. ThreadsAtHome'
  BY HomesStay DEF SoundInv, HeldInv, Calm
<1>5. GoneInv'
  BY <1>1, <1>2, GoneStays DEF SoundInv
<1>6. PortInv'
  <2>1. WaitersOnPorts' /\ NamesOnPorts' /\ ChansOnPorts'
    BY PortsStay DEF SoundInv, Calm
  <2>2. QED
    BY <2>1 DEF PortInv
<1>7. WaitTargetLives'
  <2>1. LiveStays
    BY SameOwns
  <2>2. QED
    BY <2>1, TargetsStay DEF SoundInv, Calm
<1>8. QED
  BY <1>3, <1>4, <1>5, <1>6, <1>7 DEF SoundInv

\* One interrupt line changes.
LEMMA IrqStep ==
  ASSUME Types, SoundInv, Calm, NEW i \in Irqs, NEW b \in IrqRecords, SetIrq(i, b),
         IF b.owner = Null
         THEN ~b.enable /\ ~b.pending /\ ~b.delivered /\ b.port = Null
         ELSE b.port \in used /\ b.enable = (~b.pending /\ ~b.delivered) /\ ~(b.pending /\ b.delivered)
  PROVE  SoundInv'
<1>1. irq'[i] = b /\ \A j \in Irqs : j # i => irq'[j] = irq[j]
  BY DEF SetIrq, Types, IrqT
<1>2. IrqsRight'
  BY <1>1 DEF SetIrq, SoundInv, PortInv, IrqsRight
<1>3. KopOnPort' /\ SendersMarked'
  BY PortsStay DEF SetIrq, SoundInv, Calm
<1>4. SameKop
  BY DEF SameKop, SetIrq
<1>5. QED
  BY <1>2, <1>3, <1>4, CalmStep, SameHandles DEF SetIrq

\* A handle of o is added; what that means for o is left to the step.
LEMMA AddStep ==
  ASSUME Types, SoundInv, NEW p \in Procs, NEW h \in HandleNos, NEW o \in Objects, HandleAdd(p, h, o),
         PortsFollow(o), ChansFollow(o), ProcsFollow(o), ThreadsFollow(o)
  PROVE  HeldInv' /\ SameHeld({o}) /\ refs'[o] > 0
<1>1. /\ Exact(refs', handles') /\ refs'[o] > 0
      /\ \A x \in Objects \ {o} : refs'[x] = refs[x]
  BY AddExact DEF SoundInv, HeldInv
<1>2. SameHeld({o})
  BY <1>1 DEF SameHeld
<1>3. QED
  BY <1>1, <1>2, HeldStep DEF SoundInv

\* A new handle is not one of a thread of another process.
LEMMA AddSource ==
  ASSUME Types, SoundInv, NEW p \in Procs, NEW h \in HandleNos, NEW o \in Objects, HandleAdd(p, h, o),
         o[1] = "thread" => \E g \in HandleNos : handles[p][g] = o
  PROVE  ThreadSource
<1>1. \A q \in Procs, g \in HandleNos : handles'[q][g] = IF q = p /\ g = h THEN o ELSE handles[q][g]
  BY AddExact DEF SoundInv, HeldInv
<1>2. QED
  BY <1>1 DEF ThreadSource

-----------------------------------------------------------------------------
(* The end of objects.                                                      *)

\* port_destroy leaves nothing that leads to k.
LEMMA DestroySound ==
  ASSUME Types, SoundInv, NEW k \in Ports, PortDestroy(k), Exact(refs', handles'), ThreadSource,
         SameHeld({PortObj(k)}), refs'[PortObj(k)] = 0, UNCHANGED kop, kop.op \in {"none", "exit"}
  PROVE  SoundInv'
<1> DEFINE n == PortObj(k)
<1>1. n[1] = "port" /\ \A j \in Ports : n = PortObj(j) <=> j = k
  BY ObjKinds
<1>2. SameHeld({n}) /\ refs'[n] = 0
  OBVIOUS
<1>3. PortsFollow(n)
  BY <1>1 DEF PortDestroy, PortsFollow
<1> HIDE DEF n
<1>4. Calm /\ \A t \in Threads : t \in OnPort(k) => thr'[t].state = "READY"
  <2>1. \A t \in OnPort(k) \cap Threads : thr[t].state \notin {"FREE", "DEAD"}
    BY DEF OnPort
  <2>2. Calm
    BY <2>1, WakeCalm DEF PortDestroy
  <2>3. QED
    BY <2>2, WokenType DEF PortDestroy, Types
<1>5. \A c \in Chans : IF chan[c].used /\ chan[c].port = k
                        THEN chan'[c].port = Null /\ (chan'[c].used <=> refs[ChanObj(c)] # 0)
                        ELSE chan'[c] = chan[c]
  BY DEF PortDestroy, CutOff
<1>6. \A c \in Chans : (refs'[ChanObj(c)] > 0 <=> refs[ChanObj(c)] > 0) /\ (refs'[ChanObj(c)] = 0 <=> refs[ChanObj(c)] = 0)
  BY <1>1, <1>2, ObjKinds DEF SameHeld
<1>7. HeldInv'
  <2>1. ChansFollow(n)
    <3>1. \A c \in Chans : n # ChanObj(c)
      BY <1>1, ObjKinds
    <3>2. ASSUME NEW c \in Chans, refs'[ChanObj(c)] > 0, chan[c].used
          PROVE  chan'[c].used
      <4>1. refs'[ChanObj(c)] \in Nat /\ refs'[ChanObj(c)] # 0
        BY <3>2, FiniteSlots, ObjKinds DEF Exact
      <4>2. QED
        BY <1>5, <1>6, <3>2, <4>1
    <3>3. QED
      BY <3>1, <3>2 DEF ChansFollow
  <2>2. ProcsFollow(n) /\ ThreadsFollow(n)
    BY <1>1, <1>4, Follows DEF PortDestroy, Calm
  <2>3. QED
    BY <1>2, <1>3, <2>1, <2>2, HeldStep DEF SoundInv
<1>8. ThreadsAtHome'
  BY <1>4, HomesStay DEF SoundInv, HeldInv, Calm
<1>9. GoneInv'
  <2>1. gone'[k] = <<>> /\ \A j \in Ports : j # k => gone'[j] = gone[j]
    BY DEF PortDestroy, Types, GoneT
  <2>2. \A j \in Ports : \A i \in 1 .. Len(gone[j]) : gone[j][i] \in Chans
    BY DEF Types, GoneT
  <2>3. GoneAreOwed(gone', chan', refs')
    <3>1. ASSUME NEW j \in Ports, NEW i \in 1 .. Len(gone'[j])
          PROVE  chan'[gone'[j][i]].used /\ chan'[gone'[j][i]].port = j /\ refs'[ChanObj(gone'[j][i])] = 0
      <4>1. j # k /\ gone'[j] = gone[j] /\ gone[j][i] \in Chans
        BY <2>1, <2>2, <3>1
      <4>2. chan[gone[j][i]].used /\ chan[gone[j][i]].port = j /\ refs[ChanObj(gone[j][i])] = 0
        BY <4>1 DEF SoundInv, GoneInv, OwedOnce, GoneAreOwed
      <4>3. QED
        BY <1>5, <1>6, <4>1, <4>2
    <3>2. QED
      BY <3>1 DEF GoneAreOwed
  <2>4. GoneOnce(gone')
    BY <2>1 DEF SoundInv, GoneInv, OwedOnce, GoneOnce
  <2>5. OwedAreGone(gone', chan', refs')
    <3>1. ASSUME NEW c \in Chans, chan'[c].used, refs'[ChanObj(c)] = 0
          PROVE  chan'[c].port \in Ports /\ \E i \in 1 .. Len(gone'[chan'[c].port]) : gone'[chan'[c].port][i] = c
      <4>1. chan'[c] = chan[c] /\ chan[c].port # k
        BY <1>5, <1>6, <3>1
      <4>2. chan[c].port \in Ports /\ \E i \in 1 .. Len(gone[chan[c].port]) : gone[chan[c].port][i] = c
        BY <1>6, <3>1, <4>1 DEF SoundInv, GoneInv, OwedOnce, OwedAreGone
      <4>3. QED
        BY <2>1, <4>1, <4>2
    <3>2. QED
      BY <3>1 DEF OwedAreGone
  <2>6. QED
    BY <2>3, <2>4, <2>5 DEF GoneInv, OwedOnce
<1>10. PortInv'
  <2>1. used' = used \ {k}
    BY DEF PortDestroy
  <2>2. WaitersOnPorts'
    <3>1. \A t \in Threads : thr'[t].state \in {"SEND", "REPLY", "RECV"} => thr[t].port # k
      BY <1>4 DEF Calm, NoNewBlock, OnPort
    <3>2. QED
      BY <1>4, <2>1, <3>1 DEF SoundInv, PortInv, WaitersOnPorts, Calm, NoNewBlock
  <2>3. KopOnPort'
    BY DEF KopOnPort
  <2>4. NamesOnPorts'
    BY <2>1 DEF PortDestroy, Forget, SoundInv, PortInv, NamesOnPorts
  <2>5. ChansOnPorts'
    BY <1>5, <2>1 DEF SoundInv, PortInv, ChansOnPorts
  <2>6. IrqsRight'
    <3>1. \A i \in Irqs : IF irq[i].port = k THEN irq'[i] = Unbound ELSE irq'[i] = irq[i]
      BY DEF PortDestroy, IrqRelease
    <3>2. QED
      BY <2>1, <3>1 DEF SoundInv, PortInv, IrqsRight, Unbound
  <2>7. SendersMarked'
    BY <1>4 DEF PortDestroy, SoundInv, PortInv, SendersMarked, Calm, NoNewBlock
  <2>8. QED
    BY <2>2, <2>3, <2>4, <2>5, <2>6, <2>7 DEF PortInv
<1>11. WaitTargetLives'
  BY <1>4, SameOwns, TargetsStay DEF PortDestroy, SoundInv, Calm, SameKop
<1>12. QED
  BY <1>7, <1>8, <1>9, <1>10, <1>11 DEF SoundInv

\* chan_last_closed: the channel is free, or its port owes a CLIENT_GONE.
LEMMA LastClosedSound ==
  ASSUME Types, SoundInv, NEW c \in Chans, ChanLastClosed(c), Exact(refs', handles'), ThreadSource,
         SameHeld({ChanObj(c)}), refs[ChanObj(c)] > 0, refs'[ChanObj(c)] = 0, UNCHANGED kop
  PROVE  SoundInv'
<1> DEFINE n == ChanObj(c)
           k == chan[c].port
<1>1. n[1] = "chan" /\ \A d \in Chans : n = ChanObj(d) <=> d = c
  BY ObjKinds
<1>2. SameHeld({n}) /\ refs[n] > 0 /\ refs'[n] = 0 /\ refs[n] # 0
  BY DEF SoundInv, HeldInv, Exact
<1>3. chan[c].used /\ k \in Ports \cup {Null}
  BY DEF SoundInv, HeldInv, ChansHeld, Types, ChanT
<1>4. \A d \in Chans \ {c} : (refs'[ChanObj(d)] > 0 <=> refs[ChanObj(d)] > 0) /\ (refs'[ChanObj(d)] = 0 <=> refs[ChanObj(d)] = 0)
  BY <1>1, ObjKinds DEF SameHeld
<1>5. Calm
  <2>1. CASE UNCHANGED thr
    BY <2>1, SameCalm
  <2>2. CASE \E r \in Receivers(k) : thr' = Woken({r})
    BY <2>2, WakeCalm DEF Receivers
  <2>3. QED
    BY <2>1, <2>2 DEF ChanLastClosed
<1>6. /\ GoneInv'
      /\ \A d \in Chans : /\ chan'[d].port = chan[d].port
                          /\ chan'[d].used => chan[d].used
                          /\ refs'[ChanObj(d)] > 0 /\ chan[d].used => chan'[d].used
  <2>1. CASE k = Null
    <3>1. chan' = [chan EXCEPT ![c].used = FALSE] /\ UNCHANGED gone
      BY <2>1 DEF ChanLastClosed
    <3>2. \A d \in Chans : chan'[d].port = chan[d].port /\ chan'[d].used = (chan[d].used /\ d # c)
      BY <3>1 DEF Types, ChanT
    <3>3. \A j \in Ports : \A i \in 1 .. Len(gone[j]) : gone[j][i] \in Chans \ {c}
      BY <1>2 DEF Types, GoneT, SoundInv, GoneInv, OwedOnce, GoneAreOwed
    <3>4. GoneAreOwed(gone, chan', refs')
      <4>1. ASSUME NEW j \in Ports, NEW i \in 1 .. Len(gone[j])
            PROVE  chan'[gone[j][i]].used /\ chan'[gone[j][i]].port = j /\ refs'[ChanObj(gone[j][i])] = 0
        <5>1. gone[j][i] \in Chans \ {c}
          BY <3>3
        <5>2. chan[gone[j][i]].used /\ chan[gone[j][i]].port = j /\ refs[ChanObj(gone[j][i])] = 0
          BY DEF SoundInv, GoneInv, OwedOnce, GoneAreOwed
        <5>3. QED
          BY <1>4, <3>2, <5>1, <5>2
      <4>2. QED
        BY <4>1 DEF GoneAreOwed
    <3>5. OwedAreGone(gone, chan', refs')
      <4>1. ASSUME NEW d \in Chans, chan'[d].used, refs'[ChanObj(d)] = 0
            PROVE  chan'[d].port \in Ports /\ \E i \in 1 .. Len(gone[chan'[d].port]) : gone[chan'[d].port][i] = d
        <5>1. chan[d].used /\ d # c /\ chan'[d].port = chan[d].port
          BY <3>2, <4>1
        <5>2. refs[ChanObj(d)] = 0
          BY <1>4, <4>1, <5>1
        <5>3. chan[d].port \in Ports /\ \E i \in 1 .. Len(gone[chan[d].port]) : gone[chan[d].port][i] = d
          BY <5>1, <5>2 DEF SoundInv, GoneInv, OwedOnce, OwedAreGone
        <5>4. QED
          BY <5>1, <5>3
      <4>2. QED
        BY <4>1 DEF OwedAreGone
    <3>6. GoneInv'
      BY <3>1, <3>4, <3>5 DEF SoundInv, GoneInv, OwedOnce
    <3>7. ~(refs'[ChanObj(c)] > 0)
      BY <1>2
    <3>8. QED
      BY <3>2, <3>6, <3>7
  <2>2. CASE k # Null
    <3> DEFINE G2 == Joined(gone, k, c)
    <3>1. k \in Ports /\ gone \in [Ports -> Seq(Chans)] /\ chan \in ChanTables /\ OwedOnce(gone, chan, refs)
      BY <1>3, <2>2 DEF Types, GoneT, ChanT, ChanTables, SoundInv, GoneInv
    <3>2. OthersOwed(refs', refs, c)
      BY <1>4 DEF OthersOwed
    <3>3. G2 \in [Ports -> Seq(Chans)] /\ OwedOnce(G2, chan, refs') /\ G2[k] = Append(gone[k], c) /\ G2[k] # <<>>
      <4>1. refs[ChanObj(c)] # 0 /\ refs'[ChanObj(c)] = 0 /\ chan[c].used /\ chan[c].port = k
        BY <1>2, <1>3
      <4> HIDE DEF G2
      <4> HIDE DEF k, n
      <4>2. /\ Joined(gone, k, c) \in [Ports -> Seq(Chans)] /\ OwedOnce(Joined(gone, k, c), chan, refs')
            /\ Joined(gone, k, c)[k] = Append(gone[k], c) /\ Joined(gone, k, c)[k] # <<>>
        BY <3>1, <3>2, <4>1, JoinsGone, SMTT(30)
      <4>3. QED
        BY <4>2 DEF G2
    <3>4. CASE gone' = G2 /\ UNCHANGED chan
      BY <3>3, <3>4 DEF GoneInv
    <3>5. CASE /\ gone' = [gone EXCEPT ![k] = Tail(Append(gone[k], c))]
               /\ chan' = [chan EXCEPT ![Head(Append(gone[k], c))].used = FALSE]
      <4>1. gone' = [G2 EXCEPT ![k] = Tail(@)]
        BY <3>1, <3>3, <3>5 DEF Joined
      <4>2. chan' = [chan EXCEPT ![Head(G2[k])].used = FALSE]
        BY <3>3, <3>5
      <4> HIDE DEF G2
      <4> HIDE DEF k, n
      <4>3. OwedOnce(gone', chan', refs') /\ FreedOnly(chan', chan, refs')
        BY <3>1, <3>3, <4>1, <4>2, LeavesGone
      <4>4. \A d \in Chans : refs'[ChanObj(d)] \in Nat
        BY FiniteSlots, ObjKinds DEF Exact
      <4>5. QED
        BY <4>3, <4>4 DEF GoneInv, FreedOnly
    <3>6. QED
      BY <2>2, <3>4, <3>5 DEF ChanLastClosed, Joined
  <2>3. QED
    BY <2>1, <2>2
<1> HIDE DEF n, k
<1>7. HeldInv'
  <2>1. ChansFollow(n)
    BY <1>1, <1>2, <1>6 DEF ChansFollow
  <2>2. PortsFollow(n) /\ ProcsFollow(n) /\ ThreadsFollow(n)
    BY <1>1, <1>5, Follows DEF ChanLastClosed, Calm
  <2>3. QED
    BY <1>2, <2>1, <2>2, HeldStep DEF SoundInv
<1>8. ThreadsAtHome'
  BY <1>5, HomesStay DEF SoundInv, HeldInv, Calm
<1>9. PortInv'
  <2>1. WaitersOnPorts' /\ KopOnPort' /\ NamesOnPorts' /\ IrqsRight' /\ SendersMarked'
    BY <1>5, PortsStay DEF ChanLastClosed, SoundInv, Calm
  <2>2. ChansOnPorts'
    BY <1>6 DEF ChanLastClosed, SoundInv, PortInv, ChansOnPorts
  <2>3. QED
    BY <2>1, <2>2 DEF PortInv
<1>10. WaitTargetLives'
  BY <1>5, SameOwns, TargetsStay DEF ChanLastClosed, SoundInv, Calm, SameKop
<1>11. QED
  BY <1>6, <1>7, <1>8, <1>9, <1>10 DEF SoundInv

\* At most n begins or ends to be held; no thread begins to wait.
LEMMA HeldQuiet ==
  ASSUME Types, SoundInv, NEW n, n[1] # "chan", SameHeld({n}), Exact(refs', handles'), ThreadsAtHome',
         PortsFollow(n), ProcsFollow(n), ThreadsFollow(n), Calm, LiveStays, \A k \in used : k \in used',
         UNCHANGED <<gone, chan, irq, service, send_blocked, kop>>
  PROVE  SoundInv'
<1>1. HeldInv'
  BY Follows, HeldStep DEF SoundInv
<1>2. GoneInv'
  BY GoneStays DEF SoundInv
<1>3. PortInv'
  <2>1. /\ WaitersOnPorts' /\ KopOnPort' /\ NamesOnPorts' /\ ChansOnPorts' /\ IrqsRight' /\ SendersMarked'
    BY PortsStay DEF SoundInv, Calm
  <2>2. QED
    BY <2>1 DEF PortInv
<1>4. WaitTargetLives'
  BY TargetsStay DEF SoundInv, Calm, SameKop
<1>5. QED
  BY <1>1, <1>2, <1>3, <1>4 DEF SoundInv

\* Only threads, interrupts and processes change, no record becomes free.
LEMMA ThreadStep ==
  ASSUME Types, SoundInv, KeepHomes, UNCHANGED <<handles, refs, used, gone, chan, service>>,
         ProcsFollow(NoObj), IrqsRight', WaitersOnPorts', KopOnPort', SendersMarked', WaitTargetLives'
  PROVE  SoundInv'
<1> DEFINE n == NoObj
<1>1. n[1] = "none" /\ ProcsFollow(n)
  BY DEF NoObj
<1> HIDE DEF n
<1>2. SameHeld({n}) /\ PortsFollow(n) /\ ChansFollow(n) /\ ThreadsFollow(n)
  BY <1>1, Follows
<1>3. Exact(refs', handles') /\ ThreadSource
  BY SameHandles
<1>4. HeldInv'
  BY <1>1, <1>2, <1>3, HeldStep DEF SoundInv
<1>5. ThreadsAtHome'
  BY <1>3, HomesStay DEF SoundInv, HeldInv
<1>6. GoneInv'
  BY <1>1, <1>2, GoneStays DEF SoundInv
<1>7. NamesOnPorts' /\ ChansOnPorts'
  BY PortsStay DEF SoundInv
<1>8. QED
  BY <1>4, <1>5, <1>6, <1>7 DEF SoundInv, PortInv

\* sys_handle_close and the steps of handle_close_all.
LEMMA CloseSound ==
  ASSUME Types, SoundInv, NEW p \in Procs, NEW h \in HandleNos, Close(p, h), UNCHANGED kop, kop.op \in {"none", "exit"}
  PROVE  SoundInv'
<1> DEFINE o == handles[p][h]
<1>1. /\ Exact(refs', handles') /\ o \in Objects /\ refs[o] \in Nat \ {0}
      /\ \A x \in Objects : refs'[x] = IF x = o THEN refs[x] - 1 ELSE refs[x]
      /\ \A s \in Procs, j \in HandleNos : handles'[s][j] \in {handles[s][j], NoObj}
  BY CloseExact DEF SoundInv, HeldInv
<1>2. Unref(o)
  BY DEF Close
<1> HIDE DEF o
<1>3. ThreadSource
  <2>1. NoObj[1] # "thread"
    BY DEF NoObj
  <2>2. QED
    BY <1>1, <2>1 DEF ThreadSource
<1>4. refs[o] = 1 => SameHeld({o}) /\ refs'[o] = 0 /\ refs[o] > 0
  BY <1>1 DEF SameHeld
<1>5. CASE refs[o] = 1 /\ o[1] = "port" /\ PortDestroy(o[2])
  <2>1. o[2] \in Ports /\ o = PortObj(o[2])
    BY <1>1, <1>5, Kinds, ObjKinds
  <2>2. QED
    BY <1>1, <1>3, <1>4, <1>5, <2>1, DestroySound
<1>6. CASE refs[o] = 1 /\ o[1] = "chan" /\ ChanLastClosed(o[2])
  <2>1. o[2] \in Chans /\ o = ChanObj(o[2])
    BY <1>1, <1>6, Kinds, ObjKinds
  <2>2. QED
    BY <1>1, <1>3, <1>4, <1>6, <2>1, LastClosedSound
<1>7. ASSUME UNCHANGED <<thr, used, gone, chan, irq, service, send_blocked>>, LiveStays,
             NEW n, n[1] \notin {"port", "chan"}, SameHeld({n}), ProcsFollow(n), ThreadsFollow(n)
      PROVE  SoundInv'
  <2>1. Calm /\ ThreadsAtHome'
    BY <1>3, <1>7, SameCalm, HomesStay DEF SoundInv, HeldInv, Calm
  <2>2. PortsFollow(n)
    BY <1>7, Follows
  <2>3. QED
    BY <1>1, <1>7, <2>1, <2>2, HeldQuiet
<1>8. CASE refs[o] = 1 /\ o[1] = "proc" /\ ProcLastClosed(o[2])
  <2>1. o[2] \in Procs /\ o = ProcObj(o[2])
    BY <1>1, <1>8, Kinds, ObjKinds
  <2>2. ProcsFollow(o)
    BY <1>4, <1>8, <2>1, ObjKinds DEF ProcLastClosed, ProcsFollow, Types, PstateT
  <2>3. LiveStays
    BY <1>8, <2>1 DEF ProcLastClosed, LiveStays, Types, PstateT
  <2>4. ThreadsFollow(o)
    BY <1>8, SameCalm, Follows DEF ProcLastClosed, Calm
  <2>5. QED
    BY <1>4, <1>7, <1>8, <2>2, <2>3, <2>4 DEF ProcLastClosed
<1>9. CASE /\ refs[o] # 1 \/ o[1] = "thread"
           /\ UNCHANGED <<thr, pstate, spawned, used, gone, chan, irq, service, send_blocked>>
  <2>1. LiveStays /\ KeepHomes
    BY <1>9, SameOwns, SameCalm DEF Calm
  <2>2. CASE refs[o] # 1
    <3> DEFINE n == NoObj
    <3>1. n[1] = "none"
      BY DEF NoObj
    <3> HIDE DEF n
    <3>2. SameHeld({n})
      BY <1>1, <2>2 DEF SameHeld
    <3>3. QED
      BY <1>7, <1>9, <2>1, <3>1, <3>2, Follows
  <2>3. CASE refs[o] = 1 /\ o[1] = "thread"
    <3>1. ThreadsFollow(o)
      BY <1>4, <1>9, <2>3 DEF ThreadsFollow
    <3>2. QED
      BY <1>4, <1>7, <1>9, <2>1, <2>3, <3>1, Follows
  <2>4. QED
    BY <1>9, <2>2, <2>3
<1>10. QED
  BY <1>2, <1>5, <1>6, <1>8, <1>9 DEF Unref

-----------------------------------------------------------------------------
(* What a system call makes.                                                *)

\* What a handle names is held.
LEMMA NamedIsHeld ==
  ASSUME Types, SoundInv, NEW p \in Procs, NEW h \in HandleNos, handles[p][h] # NoObj
  PROVE  /\ refs[handles[p][h]] > 0 /\ handles[p][h] \in Objects
         /\ \A k \in Ports : handles[p][h] = PortObj(k) => k \in used
         /\ \A c \in Chans : handles[p][h] = ChanObj(c) => chan[c].used
<1>1. handles[p][h] \in Objects
  BY DEF Types, HandlesT
<1>2. refs[handles[p][h]] > 0
  BY <1>1, NamedCounts DEF SoundInv, HeldInv, Exact
<1>3. QED
  BY <1>1, <1>2 DEF SoundInv, HeldInv, PortsHeld, ChansHeld

\* A port that a thread names is in use.
LEMMA HeldPort ==
  ASSUME Types, SoundInv, NEW t \in Threads, thr[t].proc \in Procs, NEW h \in HandleNos, Holds(t, h, "port")
  PROVE  Named(t, h) \in used
<1>1. handles[thr[t].proc][h] \in Objects \cup {NoObj} /\ handles[thr[t].proc][h][1] = "port" /\ NoObj[1] = "none"
  BY DEF Types, HandlesT, Holds, NoObj
<1>2. handles[thr[t].proc][h] = PortObj(Named(t, h)) /\ Named(t, h) \in Ports
  BY <1>1, Kinds, ObjKinds DEF Named
<1>3. QED
  BY <1>1, <1>2, NamedIsHeld

\* port_create: a record that nothing leads to.
LEMMA PortCreateSound ==
  ASSUME Types, SoundInv, NEW t \in Threads, PortCreate(t)
  PROVE  SoundInv'
<1>1. thr[t].proc \in Procs
  BY CallerHome DEF PortCreate
<1>2. PICK k \in Ports \ used, h \in HandleNos :
        /\ HandleAdd(thr[t].proc, h, PortObj(k))
        /\ used' = used \cup {k} /\ gone' = [gone EXCEPT ![k] = <<>>]
  BY DEF PortCreate
<1>3. UNCHANGED <<thr, pstate, chan, irq, service, send_blocked, kop>>
  BY DEF PortCreate
<1> DEFINE n == PortObj(k)
<1>4. n \in Objects /\ n[1] = "port" /\ \A j \in Ports : n = PortObj(j) <=> j = k
  BY <1>2, ObjKinds
<1>5. HandleAdd(thr[t].proc, h, n)
  BY <1>2
<1> HIDE DEF n
<1>6. /\ Exact(refs', handles') /\ refs'[n] > 0 /\ SameHeld({n})
  BY <1>1, <1>4, <1>5, AddExact DEF SoundInv, HeldInv, SameHeld
<1>7. PortsFollow(n)
  BY <1>2, <1>4, <1>6 DEF PortsFollow
<1>8. ProcsFollow(n) /\ ThreadsFollow(n) /\ Calm /\ LiveStays
  BY <1>3, <1>4, Follows, SameCalm, SameOwns DEF Calm
<1>9. ThreadsAtHome'
  BY <1>1, <1>4, <1>5, <1>8, AddSource, HomesStay DEF SoundInv, HeldInv, Calm
<1>10. gone' = gone
  <2>1. gone[k] \in Seq(Chans)
    BY <1>2 DEF Types, GoneT
  <2>2. ASSUME gone[k] # <<>> PROVE FALSE
    <3>1. 1 \in 1 .. Len(gone[k]) /\ gone[k][1] \in Chans
      BY <2>1, <2>2
    <3>2. chan[gone[k][1]].used /\ chan[gone[k][1]].port = k
      BY <1>2, <3>1 DEF SoundInv, GoneInv, OwedOnce, GoneAreOwed
    <3>3. k # Null
      BY <1>2, IpcAssumption
    <3>4. QED
      BY <1>2, <3>1, <3>2, <3>3 DEF SoundInv, PortInv, ChansOnPorts
  <2>3. QED
    BY <1>2, <2>2 DEF Types, GoneT
<1>11. QED
  BY <1>2, <1>3, <1>4, <1>6, <1>7, <1>8, <1>9, <1>10, HeldQuiet

\* new_channel: to a port in use, with a record that no list holds.
LEMMA NewChannelSound ==
  ASSUME Types, SoundInv, NEW t \in Threads, thr[t].proc \in Procs, NEW k \in Ports, k \in used, NewChannel(t, k)
  PROVE  SoundInv'
<1>1. PICK c \in Chans, h \in HandleNos :
        /\ ~chan[c].used /\ HandleAdd(thr[t].proc, h, ChanObj(c))
        /\ chan' = [chan EXCEPT ![c] = [used |-> TRUE, port |-> k]]
  BY DEF NewChannel, FreeChan
<1>2. UNCHANGED <<thr, pstate, used, gone, irq, service, send_blocked, kop>>
  BY DEF NewChannel
<1> DEFINE n == ChanObj(c)
<1>3. n \in Objects /\ n[1] = "chan" /\ \A d \in Chans : n = ChanObj(d) <=> d = c
  BY ObjKinds
<1>4. HandleAdd(thr[t].proc, h, n)
  BY <1>1
<1>5. \A d \in Chans : IF d = c THEN chan'[d].used /\ chan'[d].port = k ELSE chan'[d] = chan[d]
  BY <1>1 DEF Types, ChanT
<1> HIDE DEF n
<1>6. Calm /\ LiveStays /\ PortsFollow(n) /\ ProcsFollow(n) /\ ThreadsFollow(n)
  BY <1>2, <1>3, Follows, SameCalm, SameOwns DEF Calm
<1>7. ChansFollow(n)
  BY <1>3, <1>5 DEF ChansFollow
<1>8. HeldInv' /\ SameHeld({n}) /\ refs'[n] > 0
  BY <1>3, <1>4, <1>6, <1>7, AddStep
<1>9. ThreadsAtHome'
  BY <1>3, <1>4, <1>6, AddSource, HomesStay DEF SoundInv, HeldInv, Calm
<1>10. GoneInv'
  <2>1. \A d \in Chans \ {c} : refs'[ChanObj(d)] = 0 <=> refs[ChanObj(d)] = 0
    BY <1>3, <1>8, ObjKinds DEF SameHeld
  <2>2. GoneAreOwed(gone, chan', refs')
    <3>1. ASSUME NEW j \in Ports, NEW i \in 1 .. Len(gone[j])
          PROVE  chan'[gone[j][i]].used /\ chan'[gone[j][i]].port = j /\ refs'[ChanObj(gone[j][i])] = 0
      <4>1. gone[j][i] \in Chans
        BY DEF Types, GoneT
      <4>2. chan[gone[j][i]].used /\ chan[gone[j][i]].port = j /\ refs[ChanObj(gone[j][i])] = 0
        BY DEF SoundInv, GoneInv, OwedOnce, GoneAreOwed
      <4>3. QED
        BY <1>1, <1>5, <2>1, <4>1, <4>2
    <3>2. QED
      BY <3>1 DEF GoneAreOwed
  <2>3. OwedAreGone(gone, chan', refs')
    <3>1. ASSUME NEW d \in Chans, chan'[d].used, refs'[ChanObj(d)] = 0
          PROVE  chan'[d].port \in Ports /\ \E i \in 1 .. Len(gone[chan'[d].port]) : gone[chan'[d].port][i] = d
      <4>1. d # c
        BY <1>3, <1>8, <3>1
      <4>2. chan[d].used /\ refs[ChanObj(d)] = 0 /\ chan'[d] = chan[d]
        BY <1>5, <2>1, <3>1, <4>1
      <4>3. QED
        BY <4>2 DEF SoundInv, GoneInv, OwedOnce, OwedAreGone
    <3>2. QED
      BY <3>1 DEF OwedAreGone
  <2>4. QED
    BY <1>2, <2>2, <2>3 DEF SoundInv, GoneInv, OwedOnce
<1>11. PortInv'
  <2>1. WaitersOnPorts' /\ KopOnPort' /\ NamesOnPorts' /\ IrqsRight' /\ SendersMarked'
    BY <1>2, <1>6, PortsStay DEF SoundInv, Calm
  <2>2. ChansOnPorts'
    BY <1>2, <1>5 DEF SoundInv, PortInv, ChansOnPorts
  <2>3. QED
    BY <2>1, <2>2 DEF PortInv
<1>12. WaitTargetLives'
  BY <1>2, <1>6, TargetsStay DEF SoundInv, Calm, SameKop
<1>13. QED
  BY <1>8, <1>9, <1>10, <1>11, <1>12 DEF SoundInv

\* handle_dup: one more handle of what is held.
LEMMA HandleDupSound ==
  ASSUME Types, SoundInv, NEW t \in Threads, NEW h \in HandleNos, HandleDup(t, h)
  PROVE  SoundInv'
<1> DEFINE p == thr[t].proc
           o == handles[p][h]
<1>1. p \in Procs /\ o # NoObj
  <2>1. p \in Procs
    BY CallerHome DEF HandleDup
  <2>2. NoObj[1] = "none"
    BY DEF NoObj
  <2>3. QED
    BY <2>1, <2>2 DEF HandleDup, Holds
<1>2. o \in Objects /\ refs[o] > 0
  BY <1>1, NamedIsHeld
<1>3. UNCHANGED <<thr, pstate, used, gone, chan, irq, service, send_blocked, kop>>
  BY DEF HandleDup
<1>4. PICK g \in HandleNos : HandleAdd(p, g, o)
  BY DEF HandleDup
<1>5. ThreadSource
  BY <1>1, <1>2, <1>4, AddSource
<1> HIDE DEF o, p
<1>6. Exact(refs', handles') /\ refs'[o] > 0 /\ \A x \in Objects \ {o} : refs'[x] = refs[x]
  BY <1>1, <1>2, <1>4, AddExact DEF SoundInv, HeldInv
<1> DEFINE n == NoObj
<1>7. n[1] = "none"
  BY DEF NoObj
<1> HIDE DEF n
<1>8. SameHeld({n})
  <2>1. refs[o] \in Nat /\ refs'[o] \in Nat
    BY <1>2, <1>6, FiniteSlots DEF Exact, SoundInv, HeldInv
  <2>2. QED
    BY <1>2, <1>6, <2>1 DEF SameHeld
<1>9. Calm /\ LiveStays /\ PortsFollow(n) /\ ProcsFollow(n) /\ ThreadsFollow(n)
  BY <1>3, <1>7, Follows, SameCalm, SameOwns DEF Calm
<1>10. ThreadsAtHome'
  BY <1>5, <1>9, HomesStay DEF SoundInv, HeldInv, Calm
<1>11. QED
  BY <1>3, <1>6, <1>7, <1>8, <1>9, <1>10, HeldQuiet

\* thread_create: a record nothing names, and a handle of it in the same process.
LEMMA ThreadCreateSound ==
  ASSUME Types, SoundInv, NEW t \in Threads, ThreadCreate(t)
  PROVE  SoundInv'
<1> DEFINE p == thr[t].proc
<1>1. p \in Procs
  BY CallerHome DEF ThreadCreate
<1>2. PICK u \in Threads, h \in HandleNos :
        Allocatable(u) /\ HandleAdd(p, h, ThreadObj(u)) /\ thr' = [thr EXCEPT ![u] = ReadyThread(p)]
  BY DEF ThreadCreate
<1>3. UNCHANGED <<pstate, used, gone, chan, irq, service, send_blocked, kop>>
  BY DEF ThreadCreate
<1> DEFINE n == ThreadObj(u)
<1>4. n \in Objects /\ n[1] = "thread" /\ \A v \in Threads : n = ThreadObj(v) <=> v = u
  BY ObjKinds
<1> HIDE DEF p
<1>5. Calm /\ thr'[u].proc = p
  BY <1>1, <1>2, AllocCalm DEF SoundInv, HeldInv
<1>6. thr'[u].state # "FREE"
  BY <1>1, <1>2, ReadyType DEF Types, ThrT
<1>7. HandleAdd(p, h, n)
  BY <1>2
<1> HIDE DEF n
<1>8. /\ Exact(refs', handles') /\ refs'[n] > 0 /\ SameHeld({n})
      /\ \A q \in Procs, g \in HandleNos : handles'[q][g] = IF q = p /\ g = h THEN n ELSE handles[q][g]
  BY <1>1, <1>4, <1>7, AddExact DEF SoundInv, HeldInv, SameHeld
<1>9. PortsFollow(n) /\ ProcsFollow(n) /\ LiveStays
  BY <1>3, <1>4, Follows, SameOwns
<1>10. ThreadsFollow(n)
  BY <1>4, <1>5, <1>6 DEF ThreadsFollow, Calm, KeepHomes
<1>11. ThreadsAtHome'
  <2>1. ASSUME NEW q \in Procs, NEW g \in HandleNos, NEW v \in Threads, handles'[q][g] = ThreadObj(v)
        PROVE  thr'[v].proc = q
    <3>1. CASE q = p /\ g = h
      BY <1>4, <1>5, <1>8, <2>1, <3>1
    <3>2. CASE ~(q = p /\ g = h)
      <4>1. handles[q][g] = ThreadObj(v) /\ handles[q][g] # NoObj
        BY <1>8, <2>1, <3>2, ObjKinds, NoObjIsNone
      <4>2. refs[ThreadObj(v)] > 0
        BY <4>1, NamedIsHeld
      <4>3. QED
        BY <1>5, <4>1, <4>2 DEF SoundInv, ThreadsAtHome, Calm, KeepHomes
    <3>3. QED
      BY <3>1, <3>2
  <2>2. QED
    BY <2>1 DEF ThreadsAtHome
<1>12. QED
  BY <1>3, <1>4, <1>5, <1>8, <1>9, <1>10, <1>11, HeldQuiet

\* proc_spawn and proc_fork: the new record was named by nobody.
LEMMA StartSound ==
  ASSUME Types, OwnInv, SoundInv, kop.op = "none", NEW t \in Threads, thr[t].state = "READY",
         NEW c \in Procs, NEW table \in [HandleNos -> Objects \cup {NoObj}],
         \A h \in HandleNos : table[h] # NoObj => \E g \in HandleNos : handles[thr[t].proc][g] = table[h],
         \A h \in HandleNos : table[h][1] # "thread",
         StartProc(t, c, table)
  PROVE  SoundInv'
<1> DEFINE n == ProcObj(c)
<1>1. n \in Objects /\ n[1] = "proc" /\ \A q \in Procs : n = ProcObj(q) <=> q = c
  BY ObjKinds
<1>2. refs[ProcObj(c)] = 0
  <2>1. refs[ProcObj(c)] \in Nat
    BY ObjKinds, FiniteSlots DEF SoundInv, HeldInv, Exact
  <2>2. QED
    BY <2>1 DEF StartProc, Claimable, SoundInv, HeldInv, ProcsHeld
<1>3. /\ Exact(refs', handles') /\ SameHeld({ProcObj(c)})
      /\ StartEntries(thr[t].proc, c, table)
  BY <1>2, StartExact DEF SoundInv, HeldInv
<1>4. SameHeld({n})
  BY <1>3
<1> HIDE DEF n
<1>5. UNCHANGED <<used, gone, chan, irq, service, send_blocked, kop>>
  BY DEF StartProc
<1>6. Calm
  BY AllocCalm DEF StartProc, SoundInv, HeldInv
<1>7. ThreadsAtHome'
  <2>1. \A q \in Procs : ProcObj(q)[1] # "thread"
    BY ObjKinds
  <2>2. ThreadSource
    BY <1>3, <2>1 DEF ThreadSource, StartEntries
  <2>3. QED
    BY <1>6, <2>2, HomesStay DEF SoundInv, HeldInv, Calm
<1>8. pstate'[c] = "LIVE" /\ \A q \in Procs : q # c => pstate'[q] = pstate[q]
  BY DEF StartProc, Types, PstateT
<1>9. LiveStays /\ ProcsFollow(n)
  BY <1>1, <1>8 DEF LiveStays, ProcsFollow
<1>10. PortsFollow(n) /\ ThreadsFollow(n)
  BY <1>1, <1>5, <1>6, Follows DEF Calm
<1>11. QED
  BY <1>1, <1>3, <1>4, <1>5, <1>6, <1>7, <1>9, <1>10, HeldQuiet

-----------------------------------------------------------------------------
(* Threads that begin to wait, and threads that die.                         *)

\* sys_ipc_call blocks on the port of a channel it holds.
LEMMA CallSound ==
  ASSUME Types, SoundInv, NEW t \in Threads, NEW h \in HandleNos, NEW x \in HandleNos \cup {NoHandle}, IpcCall(t, h, x)
  PROVE  SoundInv'
<1> DEFINE c == Named(t, h)
           k == chan[c].port
<1>1. thr[t].proc \in Procs /\ c \in Chans /\ thr[t].state = "READY" /\ kop.op = "none"
  BY CallerHome DEF IpcCall
<1>2. handles[thr[t].proc][h] = ChanObj(c)
  <2>1. handles[thr[t].proc][h] \in Objects \cup {NoObj} /\ handles[thr[t].proc][h][1] = "chan"
    BY <1>1 DEF IpcCall, Holds, Types, HandlesT
  <2>2. NoObj[1] # "chan"
    BY DEF NoObj
  <2>3. QED
    BY <2>1, <2>2, ObjKinds DEF Named
<1>3. chan[c].used
  BY <1>1, <1>2, NamedIsHeld, ObjKinds, NoObjIsNone
<1>4. /\ k \in Ports /\ thr' = Sending(t, k, x) /\ send_blocked' = send_blocked \cup {t}
      /\ UNCHANGED <<pstate, handles, refs, used, gone, chan, irq, service>>
      /\ UNCHANGED kop \/ kop'.port = k
  BY <1>1 DEF IpcCall, Types, ChanT, Idle
<1>5. k \in used
  BY <1>1, <1>3, <1>4, IpcAssumption DEF SoundInv, PortInv, ChansOnPorts
<1> HIDE DEF c, k
<1>6. /\ thr'[t].state = "SEND" /\ thr'[t].port = k
      /\ \A u \in Threads : /\ thr'[u].proc = thr[u].proc
                            /\ u # t => thr'[u].state = thr[u].state /\ thr'[u].port = thr[u].port
  BY <1>4, SendingType DEF Types
<1>7. \A u \in Threads : u # t => thr'[u].wait_thread = thr[u].wait_thread /\ thr'[u].wait_proc = thr[u].wait_proc
  <2>1. ASSUME NEW u \in Threads, u # t
        PROVE  thr'[u].wait_thread = thr[u].wait_thread /\ thr'[u].wait_proc = thr[u].wait_proc
    <3>1. thr[u] \in ThreadRecords
      BY DEF Types, ThrT
    <3>2. thr'[u] = [thr[u] EXCEPT !.ahead = @ \ {t}]
      BY <1>4, <2>1 DEF Sending
    <3>3. QED
      BY <3>1, <3>2 DEF ThreadRecords
  <2>2. QED
    BY <2>1
<1>8. KeepHomes /\ NoNewWait /\ AliveStay
  BY <1>1, <1>6, <1>7 DEF KeepHomes, NoNewWait, AliveStay
<1>9. WaitersOnPorts' /\ SendersMarked'
  BY <1>4, <1>5, <1>6 DEF SoundInv, PortInv, WaitersOnPorts, SendersMarked
<1>10. KopOnPort'
  BY <1>1, <1>4, <1>5 DEF KopOnPort
<1>11. IrqsRight'
  BY <1>4, PortsStay DEF SoundInv
<1>12. WaitTargetLives'
  <2>1. SameKop /\ LiveStays
    BY <1>1, <1>4, SameOwns DEF SameKop
  <2>2. QED
    BY <1>8, <2>1, TargetsStay DEF SoundInv
<1>13. ProcsFollow(NoObj)
  BY <1>4, Follows DEF NoObj
<1>14. QED
  BY <1>4, <1>8, <1>9, <1>10, <1>11, <1>12, <1>13, ThreadStep

\* sys_wait: the target is live, and a thread to wait for is of the same process.
LEMMA WaitSound ==
  ASSUME Types, SoundInv, NEW t \in Threads, NEW h \in HandleNos, NEW timeout, Wait(t, h, timeout)
  PROVE  SoundInv'
<1> DEFINE o == handles[thr[t].proc][h]
<1>1. thr[t].proc \in Procs /\ thr[t].state = "READY" /\ kop.op = "none"
  BY CallerHome DEF Wait
<1>2. UNCHANGED <<pstate, handles, refs, used, gone, chan, irq, service, send_blocked, kop>>
  BY DEF Wait
<1>3. o \in Objects \cup {NoObj} /\ NoObj[1] \notin {"proc", "thread"}
  BY <1>1 DEF Types, HandlesT, NoObj
<1>4. /\ thr'[t].state = "WAIT" /\ thr'[t].proc = thr[t].proc
      /\ \A u \in Threads : u # t => thr'[u] = thr[u]
      /\ \/ o[1] = "proc" /\ pstate[o[2]] = "LIVE" /\ thr'[t].wait_proc = o[2]
         \/ o[1] = "thread" /\ o[2] # t /\ Alive(o[2]) /\ thr'[t].wait_thread = o[2]
  BY DEF Wait, Types, ThrT, ThreadRecords, Holds, Named
<1> HIDE DEF o
<1>5. KeepHomes /\ NoNewBlock /\ AliveStay
  BY <1>1, <1>4 DEF KeepHomes, NoNewBlock, AliveStay
<1>6. WaitersOnPorts' /\ SendersMarked' /\ KopOnPort' /\ IrqsRight'
  BY <1>2, <1>5, PortsStay DEF SoundInv
<1>7. \/ thr'[t].wait_proc \in Procs /\ pstate'[thr'[t].wait_proc] = "LIVE"
      \/ /\ thr'[t].wait_thread \in Threads \ {t} /\ Alive(thr'[t].wait_thread)
         /\ thr[thr'[t].wait_thread].proc = thr[t].proc
  <2>1. CASE o[1] = "proc" /\ pstate[o[2]] = "LIVE" /\ thr'[t].wait_proc = o[2]
    BY <1>2, <1>3, <2>1, Kinds
  <2>2. CASE o[1] = "thread" /\ o[2] # t /\ Alive(o[2]) /\ thr'[t].wait_thread = o[2]
    <3>1. o[2] \in Threads /\ o = ThreadObj(o[2])
      BY <1>3, <2>2, Kinds, ObjKinds
    <3>2. thr[o[2]].proc = thr[t].proc
      BY <1>1, <3>1 DEF SoundInv, ThreadsAtHome, o
    <3>3. QED
      BY <2>2, <3>1, <3>2
  <2>3. QED
    BY <1>4, <2>1, <2>2
<1>8. WaitTargetLives'
  <2> SUFFICES ASSUME NEW v \in Threads, thr'[v].state = "WAIT"
               PROVE  \/ /\ thr'[v].wait_thread # Null /\ Alive(thr[v].wait_thread)'
                         /\ thr'[thr'[v].wait_thread].proc = thr'[v].proc
                      \/ /\ thr'[v].wait_proc # Null
                         /\ pstate'[thr'[v].wait_proc] = "LIVE" \/ (kop'.op = "exit" /\ kop'.proc = thr'[v].wait_proc)
    BY DEF WaitTargetLives
  <2>1. CASE v = t
    BY <1>4, <1>7, <2>1, IpcAssumption DEF Alive
  <2>2. CASE v # t
    <3>1. thr'[v] = thr[v] /\ thr[v].state = "WAIT" /\ thr[v].wait_thread \in Threads \cup {Null}
      BY <1>4, <2>2 DEF Types, ThrT, ThreadRecords
    <3>2. CASE thr[v].wait_thread # Null /\ Alive(thr[v].wait_thread) /\ thr[thr[v].wait_thread].proc = thr[v].proc
      BY <1>5, <3>1, <3>2 DEF Alive, AliveStay, KeepHomes
    <3>3. CASE thr[v].wait_proc # Null /\ pstate[thr[v].wait_proc] = "LIVE"
      BY <1>2, <3>1, <3>3
    <3>4. QED
      BY <1>1, <3>1, <3>2, <3>3 DEF SoundInv, WaitTargetLives
  <2>3. QED
    BY <2>1, <2>2
<1>9. ProcsFollow(NoObj)
  BY <1>2, Follows DEF NoObj
<1>10. QED
  BY <1>2, <1>5, <1>6, <1>8, <1>9, ThreadStep

\* A thread that is not the last one dies: those that join it are woken.
LEMMA ThreadExitSound ==
  ASSUME Types, SoundInv, NEW t \in Threads, ThreadExit(t)
  PROVE  SoundInv'
<1>1. thr[t].state = "READY" /\ kop.op = "none"
  BY CallerHome DEF ThreadExit
<1>2. UNCHANGED <<pstate, handles, refs, used, gone, chan, irq, service, send_blocked, kop>>
  BY DEF ThreadExit
<1>3. /\ Woken(Joining(t)) \in [Threads -> ThreadRecords]
      /\ \A u \in Threads : /\ Woken(Joining(t))[u].proc = thr[u].proc
                            /\ u \notin Joining(t) => Woken(Joining(t))[u] = thr[u]
                            /\ u \in Joining(t) => Woken(Joining(t))[u].state = "READY"
  BY WokenType DEF Types
<1>4. thr' = [Woken(Joining(t)) EXCEPT ![t] = [@ EXCEPT !.state = "DEAD"]]
  BY DEF ThreadExit
<1>5. /\ thr'[t].state = "DEAD" /\ thr'[t].proc = thr[t].proc
      /\ \A u \in Threads : /\ thr'[u].proc = thr[u].proc
                            /\ u # t /\ u \notin Joining(t) => thr'[u] = thr[u]
                            /\ u # t /\ u \in Joining(t) => thr'[u].state = "READY"
  <2>1. Woken(Joining(t))[t] \in ThreadRecords
    BY <1>3
  <2>2. [Woken(Joining(t))[t] EXCEPT !.state = "DEAD"].state = "DEAD"
        /\ [Woken(Joining(t))[t] EXCEPT !.state = "DEAD"].proc = Woken(Joining(t))[t].proc
    BY <2>1 DEF ThreadRecords
  <2>3. thr'[t] = [Woken(Joining(t))[t] EXCEPT !.state = "DEAD"] /\ \A u \in Threads : u # t => thr'[u] = Woken(Joining(t))[u]
    BY <1>3, <1>4
  <2>4. QED
    BY <1>3, <2>2, <2>3
<1>6. KeepHomes /\ NoNewBlock
  BY <1>1, <1>5 DEF KeepHomes, NoNewBlock, Joining
<1>7. WaitersOnPorts' /\ SendersMarked' /\ KopOnPort' /\ IrqsRight'
  BY <1>2, <1>6, PortsStay DEF SoundInv
<1>8. WaitTargetLives'
  <2> SUFFICES ASSUME NEW v \in Threads, thr'[v].state = "WAIT"
               PROVE  \/ /\ thr'[v].wait_thread # Null /\ Alive(thr[v].wait_thread)'
                         /\ thr'[thr'[v].wait_thread].proc = thr'[v].proc
                      \/ /\ thr'[v].wait_proc # Null
                         /\ pstate'[thr'[v].wait_proc] = "LIVE" \/ (kop'.op = "exit" /\ kop'.proc = thr'[v].wait_proc)
    BY DEF WaitTargetLives
  <2>1. thr'[v] = thr[v] /\ thr[v].state = "WAIT" /\ v \notin Joining(t) /\ thr[v].wait_thread \in Threads \cup {Null}
    BY <1>5 DEF Types, ThrT, ThreadRecords
  <2>2. CASE thr[v].wait_thread # Null /\ Alive(thr[v].wait_thread) /\ thr[thr[v].wait_thread].proc = thr[v].proc
    <3>1. thr[v].wait_thread # t /\ thr[v].wait_thread \in Threads
      BY <2>1, <2>2 DEF Joining
    <3>2. thr'[thr[v].wait_thread].state \notin {"FREE", "DEAD"}
      BY <1>5, <2>2, <3>1 DEF Alive
    <3>3. QED
      BY <1>5, <2>1, <2>2, <3>1, <3>2 DEF Alive
  <2>3. CASE thr[v].wait_proc # Null /\ pstate[thr[v].wait_proc] = "LIVE"
    BY <1>2, <2>1, <2>3
  <2>4. QED
    BY <1>1, <2>1, <2>2, <2>3 DEF SoundInv, WaitTargetLives
<1>9. ProcsFollow(NoObj)
  BY <1>2, Follows DEF NoObj
<1>10. QED
  BY <1>2, <1>6, <1>7, <1>8, <1>9, ThreadStep

\* proc_exit begins: kop covers those that wait for the process until the end.
LEMMA ExitBeginSound ==
  ASSUME Types, SoundInv, NEW p \in Procs, ExitBegin(p), kop.op = "none"
  PROVE  SoundInv'
<1>1. UNCHANGED <<handles, refs, used, gone, chan, service, send_blocked>> /\ kop'.op = "exit" /\ kop'.proc = p
  BY DEF ExitBegin, Idle
<1>2. \A u \in Threads : IF u \in LiveThreads(p) THEN thr'[u].state = "DEAD" /\ thr'[u].proc = p ELSE thr'[u] = thr[u]
  BY DEF ExitBegin, ReadyThread
<1>3. \A u \in LiveThreads(p) : thr[u].proc = p /\ thr[u].state # "FREE"
  BY DEF LiveThreads, Alive
<1>4. KeepHomes /\ NoNewBlock
  BY <1>2, <1>3 DEF KeepHomes, NoNewBlock
<1>5. WaitersOnPorts' /\ SendersMarked' /\ KopOnPort'
  BY <1>1, <1>4, PortsStay DEF SoundInv
<1>6. IrqsRight'
  <2>1. \A i \in Irqs : irq'[i] = Unbound \/ irq'[i] = irq[i]
    BY DEF ExitBegin, IrqRelease
  <2>2. QED
    BY <1>1, <2>1 DEF SoundInv, PortInv, IrqsRight, Unbound
<1>7. pstate'[p] = "EXITED" /\ \A q \in Procs : q # p => pstate'[q] = pstate[q]
  BY DEF ExitBegin, Types, PstateT
<1>8. ProcsFollow(NoObj)
  <2>1. \A q \in Procs : NoObj # ProcObj(q)
    BY DEF NoObj, ProcObj
  <2>2. QED
    BY <1>7, <2>1 DEF ProcsFollow
<1>9. WaitTargetLives'
  <2> SUFFICES ASSUME NEW v \in Threads, thr'[v].state = "WAIT"
               PROVE  \/ /\ thr'[v].wait_thread # Null /\ Alive(thr[v].wait_thread)'
                         /\ thr'[thr'[v].wait_thread].proc = thr'[v].proc
                      \/ /\ thr'[v].wait_proc # Null
                         /\ pstate'[thr'[v].wait_proc] = "LIVE" \/ (kop'.op = "exit" /\ kop'.proc = thr'[v].wait_proc)
    BY DEF WaitTargetLives
  <2>1. /\ thr'[v] = thr[v] /\ thr[v].state = "WAIT" /\ v \notin LiveThreads(p)
        /\ thr[v].wait_thread \in Threads \cup {Null} /\ thr[v].wait_proc \in Procs \cup {Null}
    BY <1>2 DEF Types, ThrT, ThreadRecords
  <2>2. thr[v].proc # p
    BY <2>1 DEF LiveThreads, Alive
  <2>3. CASE thr[v].wait_thread # Null /\ Alive(thr[v].wait_thread) /\ thr[thr[v].wait_thread].proc = thr[v].proc
    <3>1. thr[v].wait_thread \in Threads /\ thr[v].wait_thread \notin LiveThreads(p)
      BY <2>1, <2>2, <2>3 DEF LiveThreads
    <3>2. QED
      BY <1>2, <2>1, <2>3, <3>1 DEF Alive
  <2>4. CASE thr[v].wait_proc # Null /\ pstate[thr[v].wait_proc] = "LIVE"
    BY <1>1, <1>7, <2>1, <2>4
  <2>5. QED
    BY <2>1, <2>3, <2>4 DEF SoundInv, WaitTargetLives
<1>10. QED
  BY <1>1, <1>4, <1>5, <1>6, <1>8, <1>9, ThreadStep

-----------------------------------------------------------------------------
(* Receives, replies, names, interrupts and timeouts.                        *)

\* A reply wakes its caller and may move a handle; a receive may follow.
LEMMA ReplySound ==
  ASSUME Types, SoundInv, NEW t \in Threads, thr[t].proc \in Procs, NEW u \in Threads,
         NEW x \in HandleNos \cup {NoHandle}, Reply(t, u, x), kop.op = "none",
         UNCHANGED kop \/ \E k \in Ports, h \in HandleNos : handles'[thr[t].proc][h] = PortObj(k) /\ kop'.port = k
  PROVE  SoundInv'
<1>1. /\ thr[u].state = "REPLY" /\ thr' = Woken({u}) /\ thr[u].proc \in Procs
      /\ UNCHANGED <<pstate, refs, used, gone, chan, irq, service, send_blocked>>
  BY DEF Reply, TokenCaller, Types, HomeT
<1>2. Calm
  BY <1>1, WakeCalm
<1>3. Exact(refs', handles') /\ ThreadSource
  <2>1. CASE UNCHANGED handles
    BY <1>1, <2>1, SameHandles
  <2>2. CASE x # NoHandle /\ CanMove(thr[t].proc, x, thr[u].proc) /\ HandleMove(thr[t].proc, x, thr[u].proc)
    BY <1>1, <2>2, MoveSource
  <2>3. QED
    BY <2>1, <2>2 DEF Reply
<1>4. KopOnPort'
  <2>1. CASE UNCHANGED kop
    BY <2>1 DEF KopOnPort
  <2>2. ASSUME NEW k \in Ports, NEW h \in HandleNos, handles'[thr[t].proc][h] = PortObj(k), kop'.port = k
        PROVE  KopOnPort'
    <3>1. PortObj(k) \in Objects /\ Cardinality(Slots(handles', PortObj(k))) > 0
      BY <2>2, ObjKinds, NamedCounts
    <3>2. refs[PortObj(k)] > 0
      BY <1>1, <1>3, <3>1 DEF Exact
    <3>3. QED
      BY <1>1, <2>2, <3>2 DEF KopOnPort, SoundInv, HeldInv, PortsHeld
  <2>3. QED
    BY <2>1, <2>2
<1>5. IrqsRight' /\ SendersMarked'
  BY <1>1, <1>2, PortsStay DEF SoundInv, Calm
<1>6. QED
  BY <1>1, <1>2, <1>3, <1>4, <1>5, CalmStep DEF SameKop

\* A receive begins on a port that the caller holds.
LEMMA RecvSound ==
  ASSUME Types, SoundInv, NEW t \in Threads, NEW h \in HandleNos, NEW timeout, IpcRecv(t, h, timeout)
  PROVE  SoundInv'
<1>1. thr[t].proc \in Procs /\ kop.op = "none" /\ Named(t, h) \in Ports
  BY CallerHome DEF IpcRecv
<1>2. UNCHANGED <<thr, pstate, handles, refs, used, gone, chan, irq, service, send_blocked>>
  BY DEF IpcRecv
<1>3. Named(t, h) \in used
  BY <1>1, HeldPort DEF IpcRecv
<1>4. kop'.port = Named(t, h)
  BY DEF IpcRecv, BeginRecv, Idle
<1>5. KopOnPort'
  BY <1>2, <1>3, <1>4 DEF KopOnPort
<1>6. Calm /\ Exact(refs', handles') /\ ThreadSource
  BY <1>2, SameCalm, SameHandles
<1>7. IrqsRight' /\ SendersMarked'
  BY <1>2, <1>6, PortsStay DEF SoundInv, Calm
<1>8. QED
  BY <1>1, <1>2, <1>5, <1>6, <1>7, CalmStep DEF SameKop

\* A name is registered for a port that the caller holds.
LEMMA RegisterSound ==
  ASSUME Types, SoundInv, NEW t \in Threads, NEW n \in Names, NEW h \in HandleNos, SvcRegister(t, n, h)
  PROVE  SoundInv'
<1>1. thr[t].proc \in Procs /\ kop.op = "none" /\ Named(t, h) \in Ports
  BY CallerHome DEF SvcRegister
<1>2. UNCHANGED <<thr, pstate, handles, refs, used, gone, chan, irq, send_blocked, kop>>
  BY DEF SvcRegister
<1>3. Named(t, h) \in used
  BY <1>1, HeldPort DEF SvcRegister
<1>4. NamesOnPorts'
  BY <1>2, <1>3 DEF SvcRegister, Types, ServiceT, SoundInv, PortInv, NamesOnPorts
<1>5. HeldInv' /\ ThreadsAtHome' /\ GoneInv' /\ WaitTargetLives'
  BY <1>2 DEF SoundInv, HeldInv, Exact, Slots, PortsHeld, ChansHeld, ProcsHeld, ThreadsHeld, ThreadsAtHome,
              GoneInv, OwedOnce, GoneAreOwed, GoneOnce, OwedAreGone, WaitTargetLives, Alive
<1>6. WaitersOnPorts' /\ KopOnPort' /\ ChansOnPorts' /\ IrqsRight' /\ SendersMarked'
  BY <1>2, SameCalm, PortsStay DEF SoundInv, Calm
<1>7. QED
  BY <1>4, <1>5, <1>6 DEF SoundInv, PortInv

\* A line is bound to a port that the caller holds, and enabled.
LEMMA IrqBindSound ==
  ASSUME Types, SoundInv, NEW t \in Threads, NEW i \in Irqs, NEW h \in HandleNos, IrqBind(t, i, h)
  PROVE  SoundInv'
<1> DEFINE b == [owner |-> thr[t].proc, port |-> Named(t, h), pending |-> FALSE,
                 delivered |-> FALSE, enable |-> TRUE, latch |-> irq[i].latch]
<1>1. thr[t].proc \in Procs /\ Named(t, h) \in Ports
  BY CallerHome DEF IrqBind
<1>2. Named(t, h) \in used
  BY <1>1, HeldPort DEF IrqBind
<1>3. b \in IrqRecords /\ b.port \in used /\ b.enable /\ ~b.pending /\ ~b.delivered /\ b.owner # Null
  BY <1>1, <1>2, IpcAssumption DEF Types, IrqT, IrqRecords
<1>4. SetIrq(i, b) /\ Calm
  BY SameCalm DEF IrqBind
<1> HIDE DEF b
<1>5. QED
  BY <1>3, <1>4, IrqStep

\* The acknowledgement enables a delivered line again.
LEMMA IrqAckSound ==
  ASSUME Types, SoundInv, NEW t \in Threads, NEW i \in Irqs, IrqAck(t, i)
  PROVE  SoundInv'
<1> DEFINE b == [irq[i] EXCEPT !.delivered = FALSE, !.latch = FALSE, !.enable = TRUE]
<1>1. irq[i] \in IrqRecords /\ irq[i].delivered
  BY DEF Types, IrqT, IrqAck
<1>2. irq[i].owner # Null /\ irq[i].port \in used /\ ~irq[i].pending
  BY <1>1 DEF SoundInv, PortInv, IrqsRight
<1>3. b \in IrqRecords /\ b.port \in used /\ b.enable /\ ~b.pending /\ ~b.delivered /\ b.owner # Null
  BY <1>1, <1>2 DEF IrqRecords
<1>4. SetIrq(i, b) /\ Calm
  BY SameCalm DEF IrqAck
<1> HIDE DEF b
<1>5. QED
  BY <1>3, <1>4, IrqStep

-----------------------------------------------------------------------------
(* The steps.                                                               *)

\* proc_spawn passes handles of the parent, and none of a thread.
LEMMA PassedEntries ==
  ASSUME NEW p \in Procs, NEW n \in Nat, NEW list \in [1 .. n -> HandleNos], NEW h \in HandleNos
  PROVE  /\ PassedTable(p, list)[h] # NoObj => \E g \in HandleNos : handles[p][g] = PassedTable(p, list)[h]
         /\ PassedTable(p, list)[h][1] # "thread"
<1> DEFINE passed == {i \in DOMAIN list : handles[p][list[i]][1] # "thread"}
           number(i) == Cardinality({j \in passed : j <= i})
           one == CHOOSE i \in passed : number(i) = h
<1>1. PassedTable(p, list)[h] = IF \E i \in passed : number(i) = h THEN handles[p][list[one]] ELSE NoObj
  BY DEF PassedTable
<1>2. ASSUME \E i \in passed : number(i) = h
      PROVE  one \in passed
  <2> HIDE DEF passed, number
  <2>1. QED
    BY <1>2
<1>3. one \in passed => list[one] \in HandleNos /\ handles[p][list[one]][1] # "thread"
  OBVIOUS
<1>4. NoObj[1] # "thread"
  BY DEF NoObj
<1> HIDE DEF passed, number, one
<1>5. QED
  BY <1>1, <1>2, <1>3, <1>4

\* Every system call keeps the invariant.
LEMMA SyscallSound ==
  ASSUME Types, OwnInv, SoundInv, NEW t \in Threads, Syscall(t)
  PROVE  SoundInv'
<1>1. CASE PortCreate(t)
  BY <1>1, PortCreateSound
<1>2. CASE ThreadCreate(t)
  BY <1>2, ThreadCreateSound
<1>3. CASE \E h \in HandleNos : ChanCreate(t, h)
  <2>1. PICK h \in HandleNos : ChanCreate(t, h)
    BY <1>3
  <2>2. thr[t].proc \in Procs /\ Named(t, h) \in Ports
    BY <2>1, CallerHome DEF ChanCreate
  <2>3. Named(t, h) \in used
    BY <2>1, <2>2, HeldPort DEF ChanCreate
  <2>4. QED
    BY <2>1, <2>2, <2>3, NewChannelSound DEF ChanCreate
<1>4. CASE \E n \in Names : SvcLookup(t, n)
  <2>1. PICK n \in Names : SvcLookup(t, n)
    BY <1>4
  <2>2. thr[t].proc \in Procs
    BY <2>1, CallerHome DEF SvcLookup
  <2>3. service[n] \in Ports /\ service[n] \in used
    BY <2>1 DEF SvcLookup, Types, ServiceT, SoundInv, PortInv, NamesOnPorts
  <2>4. QED
    BY <2>1, <2>2, <2>3, NewChannelSound DEF SvcLookup
<1>5. CASE \E h \in HandleNos : HandleClose(t, h)
  BY <1>5, CallerHome, CloseSound DEF HandleClose
<1>6. CASE \E h \in HandleNos : HandleDup(t, h)
  BY <1>6, HandleDupSound
<1>7. CASE \E n \in Names, h \in HandleNos : SvcRegister(t, n, h)
  BY <1>7, RegisterSound
<1>8. CASE \E i \in Irqs : IrqAck(t, i)
  BY <1>8, IrqAckSound
<1>9. CASE \E i \in Irqs, h \in HandleNos : IrqBind(t, i, h)
  BY <1>9, IrqBindSound
<1>10. CASE \E h \in HandleNos, x \in HandleNos \cup {NoHandle} : IpcCall(t, h, x)
  BY <1>10, CallSound
<1>11. CASE \E h \in HandleNos, timeout \in {"zero", "ticks", "forever"} : IpcRecv(t, h, timeout)
  BY <1>11, RecvSound
<1>12. CASE \E u \in Threads, x \in HandleNos \cup {NoHandle} : IpcReply(t, u, x)
  BY <1>12, CallerHome, ReplySound DEF IpcReply
<1>13. CASE \E h \in HandleNos, u \in Threads, x \in HandleNos \cup {NoHandle},
               timeout \in {"zero", "ticks", "forever"} : IpcReplyRecv(t, u, x, h, timeout)
  <2>1. PICK h \in HandleNos, u \in Threads, x \in HandleNos \cup {NoHandle},
             timeout \in {"zero", "ticks", "forever"} : IpcReplyRecv(t, u, x, h, timeout)
    BY <1>13
  <2>2. thr[t].proc \in Procs /\ kop.op = "none" /\ Reply(t, u, x)
    BY <2>1, CallerHome DEF IpcReplyRecv
  <2> DEFINE o == handles'[thr[t].proc][h]
  <2>3. o \in Objects \cup {NoObj} /\ NoObj[1] = "none"
    BY <2>2, ReplyTypes DEF HandlesT, NoObj
  <2>4. CASE o[1] = "port" /\ BeginRecv(t, o[2], timeout)
    <3>1. o[2] \in Ports /\ o = PortObj(o[2])
      BY <2>3, <2>4, Kinds, ObjKinds
    <3>2. kop'.port = o[2]
      BY <2>4 DEF BeginRecv, Idle
    <3>3. QED
      BY <2>2, <3>1, <3>2, ReplySound
  <2>5. CASE UNCHANGED kop
    BY <2>2, <2>5, ReplySound
  <2>6. QED
    BY <2>1, <2>4, <2>5 DEF IpcReplyRecv
<1>14. CASE \E h \in HandleNos, timeout \in {"ticks", "forever"} : Wait(t, h, timeout)
  BY <1>14, WaitSound
<1>15. CASE ProcExit(t) \/ LastThreadExit(t) \/ \E h \in HandleNos : ProcKill(t, h)
  BY <1>15, CallerHome, ExitBeginSound DEF ProcExit, LastThreadExit, ProcKill
<1>16. CASE ThreadExit(t)
  BY <1>16, ThreadExitSound
<1>17. CASE Fork(t)
  <2>1. thr[t].proc \in Procs /\ thr[t].state = "READY" /\ kop.op = "none"
    BY <1>17, CallerHome DEF Fork
  <2>2. handles[thr[t].proc] \in [HandleNos -> Objects \cup {NoObj}]
    BY <2>1 DEF Types, HandlesT
  <2>3. \A h \in HandleNos : handles[thr[t].proc][h][1] # "thread"
    BY <1>17 DEF Fork, Holds
  <2>4. QED
    BY <1>17, <2>1, <2>2, <2>3, StartSound DEF Fork
<1>18. CASE \E n \in 0 .. MaxSpawnHandles : \E list \in [1 .. n -> HandleNos] : Spawn(t, list)
  <2>1. PICK n \in 0 .. MaxSpawnHandles : \E list \in [1 .. n -> HandleNos] : Spawn(t, list)
    BY <1>18
  <2>2. PICK list \in [1 .. n -> HandleNos] : Spawn(t, list)
    BY <2>1
  <2>3. thr[t].proc \in Procs /\ thr[t].state = "READY" /\ kop.op = "none"
    BY <2>2, CallerHome DEF Spawn
  <2> DEFINE table == PassedTable(thr[t].proc, list)
  <2>4. n \in Nat
    BY IpcAssumption
  <2>5. \A h \in HandleNos : /\ table[h] # NoObj => \E g \in HandleNos : handles[thr[t].proc][g] = table[h]
                             /\ table[h][1] # "thread"
    BY <2>3, <2>4, PassedEntries
  <2>6. table \in [HandleNos -> Objects \cup {NoObj}]
    <3>1. \A i \in 1 .. n : handles[thr[t].proc][list[i]] \in Objects \cup {NoObj}
      BY <2>3 DEF Types, HandlesT
    <3>2. QED
      BY <3>1 DEF PassedTable
  <2>7. PICK c \in Procs : StartProc(t, c, table)
    BY <2>2 DEF Spawn
  <2> HIDE DEF table
  <2>8. QED
    BY <2>3, <2>5, <2>6, <2>7, StartSound
<1>19. QED
  BY <1>1, <1>2, <1>3, <1>4, <1>5, <1>6, <1>7, <1>8, <1>9, <1>10, <1>11, <1>12, <1>13, <1>14,
     <1>15, <1>16, <1>17, <1>18 DEF Syscall

\* So do take_next and the steps of proc_exit ...
LEMMA KernelSound ==
  ASSUME Types, OwnInv, SoundInv, KernelStep
  PROVE  SoundInv'
<1> DEFINE r == kop.thread
<1>1. ASSUME Taking
      PROVE  /\ r \in Threads /\ thr[r].state \in {"READY", "RECV"} /\ thr[r].proc \in Procs
             /\ kop.port \in Ports /\ kop.port \in used /\ kop.op # "exit"
  BY <1>1 DEF Taking, Types, KopT, HomeT, SoundInv, PortInv, KopOnPort
<1>2. ASSUME Taking, Served(thr)
      PROVE  Calm
  BY <1>1, <1>2, ReadyCalm DEF Served
<1>3. ASSUME Taking, kop' = Idle, UNCHANGED used
      PROVE  SameKop /\ KopOnPort'
  BY <1>1, <1>3, PortsStay DEF SameKop, Idle, SoundInv
<1>4. CASE \E i \in Irqs : TakeIrq(i)
  <2>1. PICK i \in Irqs : TakeIrq(i)
    BY <1>4
  <2>2. /\ Taking /\ Served(thr) /\ kop' = Idle
        /\ UNCHANGED <<pstate, handles, refs, used, gone, chan, service, send_blocked>>
    BY <2>1 DEF TakeIrq
  <2>3. irq[i] \in IrqRecords /\ irq[i].pending
    BY <2>1 DEF TakeIrq, PendingIrqs, Types, IrqT
  <2> DEFINE b == [irq[i] EXCEPT !.pending = FALSE, !.delivered = TRUE]
  <2>4. irq' = [irq EXCEPT ![i] = b]
    BY <2>1, <2>3 DEF TakeIrq, Types, IrqT, IrqRecords
  <2>5. irq[i].owner # Null /\ irq[i].port \in used /\ ~irq[i].enable /\ ~irq[i].delivered
    BY <2>3 DEF SoundInv, PortInv, IrqsRight
  <2>6. b \in IrqRecords /\ b.owner # Null /\ b.port \in used /\ ~b.enable /\ ~b.pending /\ b.delivered
    BY <2>3, <2>5 DEF IrqRecords
  <2> HIDE DEF b
  <2>7. irq'[i] = b /\ \A j \in Irqs : j # i => irq'[j] = irq[j]
    BY <2>4 DEF Types, IrqT
  <2>8. IrqsRight'
    <3>1. b.enable = (~b.pending /\ ~b.delivered) /\ ~(b.pending /\ b.delivered)
      BY <2>6 DEF IrqRecords
    <3>2. QED
      BY <2>2, <2>6, <2>7, <3>1 DEF SoundInv, PortInv, IrqsRight
  <2>9. SendersMarked'
    BY <1>2, <2>2, PortsStay DEF SoundInv, Calm
  <2>10. QED
    BY <1>2, <1>3, <2>2, <2>8, <2>9, SameHandles, CalmStep
<1>5. CASE TakeGone
  <2> DEFINE k == kop.port
  <2>1. /\ Taking /\ Served(thr) /\ kop' = Idle /\ gone[k] # <<>>
        /\ gone' = [gone EXCEPT ![k] = Tail(@)] /\ chan' = [chan EXCEPT ![Head(gone[k])].used = FALSE]
        /\ UNCHANGED <<pstate, handles, refs, used, irq, service, send_blocked>>
    BY <1>5 DEF TakeGone
  <2>2. k \in Ports /\ Calm /\ SameKop /\ KopOnPort'
    BY <1>1, <1>2, <1>3, <2>1
  <2>3. gone \in [Ports -> Seq(Chans)] /\ chan \in ChanTables /\ OwedOnce(gone, chan, refs)
    BY DEF Types, GoneT, ChanT, ChanTables, SoundInv, GoneInv
  <2> HIDE DEF k
  <2>4. OwedOnce(gone', chan', refs) /\ FreedOnly(chan', chan, refs)
    BY <2>1, <2>2, <2>3, LeavesGone
  <2>5. GoneInv'
    BY <2>1, <2>4 DEF GoneInv
  <2> DEFINE n == NoObj
  <2>6. n[1] = "none"
    BY DEF NoObj
  <2> HIDE DEF n
  <2>7. Exact(refs', handles') /\ ThreadSource
    BY <2>1, SameHandles
  <2>8. HeldInv'
    <3>1. ChansFollow(n)
      <4>1. \A c \in Chans : n # ChanObj(c)
        BY <2>6, ObjKinds
      <4>2. ASSUME NEW c \in Chans, refs'[ChanObj(c)] > 0, chan[c].used
            PROVE  chan'[c].used
        <5>1. refs[ChanObj(c)] \in Nat
          BY FiniteSlots, ObjKinds DEF SoundInv, HeldInv, Exact
        <5>2. QED
          BY <2>1, <2>4, <4>2, <5>1 DEF FreedOnly
      <4>3. QED
        BY <4>1, <4>2 DEF ChansFollow
    <3>2. SameHeld({n}) /\ PortsFollow(n) /\ ProcsFollow(n) /\ ThreadsFollow(n)
      BY <2>1, <2>2, <2>6, Follows DEF Calm
    <3>3. QED
      BY <2>7, <3>1, <3>2, HeldStep DEF SoundInv
  <2>9. ThreadsAtHome'
    BY <2>2, <2>7, HomesStay DEF SoundInv, HeldInv, Calm
  <2>10. PortInv'
    <3>1. WaitersOnPorts' /\ NamesOnPorts' /\ IrqsRight' /\ SendersMarked'
      BY <2>1, <2>2, PortsStay DEF SoundInv, Calm
    <3>2. ChansOnPorts'
      BY <2>1, <2>4 DEF FreedOnly, SoundInv, PortInv, ChansOnPorts
    <3>3. QED
      BY <2>2, <3>1, <3>2 DEF PortInv
  <2>11. WaitTargetLives'
    BY <2>1, <2>2, SameOwns, TargetsStay DEF SoundInv, Calm
  <2>12. QED
    BY <2>5, <2>8, <2>9, <2>10, <2>11 DEF SoundInv
<1>6. CASE \E u \in Threads : TakeCall(u)
  <2>1. PICK u \in Threads : TakeCall(u)
    BY <1>6
  <2>2. /\ Taking /\ thr[u].state = "SEND" /\ kop' = Idle /\ send_blocked' = StillSending
        /\ UNCHANGED <<pstate, refs, used, gone, chan, irq, service>>
    BY <2>1 DEF TakeCall, NextItemIsCall, NextCaller, Callers
  <2>3. thr[u].proc \in Procs /\ u # r
    BY <1>1, <2>2 DEF Types, HomeT
  <2>4. /\ \A v \in Threads \ {u, r} : thr'[v] = thr[v]
        /\ thr'[u].state = "REPLY" /\ thr'[u].proc = thr[u].proc /\ thr'[u].port = thr[u].port
        /\ thr'[r].state = "READY" /\ thr'[r].proc = thr[r].proc
    <3> DEFINE new == [thr[u] EXCEPT !.state = "REPLY", !.wait_proc = thr[r].proc, !.xfer = NoHandle]
               table == [thr EXCEPT ![u].state = "REPLY", ![u].wait_proc = thr[r].proc, ![u].xfer = NoHandle]
    <3>1. thr' = [table EXCEPT ![r] = ReadyThread(table[r].proc)]
      BY <2>1 DEF TakeCall, Served
    <3>2. thr[u] \in ThreadRecords
      BY DEF Types, ThrT
    <3>3. new.state = "REPLY" /\ new.proc = thr[u].proc /\ new.port = thr[u].port
      BY <3>2 DEF ThreadRecords
    <3>4. table = [thr EXCEPT ![u] = new]
      BY DEF Types, ThrT
    <3>5. table[u] = new /\ DOMAIN table = Threads /\ \A v \in Threads : v # u => table[v] = thr[v]
      BY <3>4 DEF Types, ThrT
    <3> HIDE DEF new, table
    <3>6. ReadyThread(thr[r].proc).state = "READY" /\ ReadyThread(thr[r].proc).proc = thr[r].proc
      BY DEF ReadyThread
    <3>7. thr' = [table EXCEPT ![r] = ReadyThread(thr[r].proc)]
      BY <1>1, <2>2, <2>3, <3>1, <3>5
    <3>8. QED
      BY <1>1, <2>2, <2>3, <3>3, <3>5, <3>6, <3>7
  <2>5. Calm
    BY <1>1, <2>2, <2>3, <2>4 DEF Calm, KeepHomes, NoNewBlock, NoNewWait, AliveStay
  <2>6. Exact(refs', handles') /\ ThreadSource
    <3>1. CASE UNCHANGED handles
      BY <2>2, <3>1, SameHandles
    <3>2. CASE /\ thr[u].xfer # NoHandle
               /\ CanMove(thr[u].proc, thr[u].xfer, thr[r].proc) /\ HandleMove(thr[u].proc, thr[u].xfer, thr[r].proc)
      <4>1. thr[u].xfer \in HandleNos
        BY <3>2 DEF Types, ThrT, ThreadRecords
      <4>2. QED
        BY <1>1, <2>2, <2>3, <3>2, <4>1, MoveSource
    <3>3. QED
      BY <2>1, <3>1, <3>2 DEF TakeCall
  <2>7. IrqsRight' /\ SendersMarked'
    BY <2>2, <2>5, PortsStay DEF SoundInv, Calm
  <2>8. QED
    BY <1>3, <2>2, <2>5, <2>6, <2>7, CalmStep
<1>7. CASE \E u \in Threads : TakeCallFailed(u)
  <2>1. PICK u \in Threads : TakeCallFailed(u)
    BY <1>7
  <2>2. /\ Taking /\ thr[u].state = "SEND" /\ thr' = Woken({u}) /\ send_blocked' = StillSending
        /\ UNCHANGED <<pstate, handles, refs, used, gone, chan, irq, service, kop>>
    BY <2>1 DEF TakeCallFailed, NextItemIsCall, NextCaller, Callers
  <2>3. Calm
    BY <2>2, WakeCalm
  <2>4. IrqsRight' /\ SendersMarked' /\ KopOnPort'
    BY <2>2, <2>3, PortsStay DEF SoundInv, Calm
  <2>5. QED
    BY <2>2, <2>3, <2>4, SameHandles, CalmStep DEF SameKop
<1>8. CASE TakeNone
  <2>1. /\ Taking /\ kop' = Idle /\ send_blocked' = StillSending
        /\ UNCHANGED <<pstate, handles, refs, used, gone, chan, irq, service>>
    BY <1>8 DEF TakeNone
  <2>2. /\ \A v \in Threads : v # r => thr'[v] = thr[v]
        /\ \/ thr'[r] = thr[r]
           \/ thr'[r].state = "RECV" /\ thr'[r].port = kop.port /\ thr'[r].proc = thr[r].proc
    <3> DEFINE new == [thr[r] EXCEPT !.state = "RECV", !.port = kop.port, !.timed = (kop.timeout = "ticks")]
    <3>1. new.proc = thr[r].proc /\ new.state = "RECV" /\ new.port = kop.port
      BY <1>1, <2>1 DEF Types, ThrT, ThreadRecords
    <3>2. UNCHANGED thr \/ thr' = [thr EXCEPT ![r] = new]
      BY <1>1, <1>8, <2>1 DEF TakeNone, Types, ThrT
    <3> HIDE DEF new
    <3>3. QED
      BY <1>1, <2>1, <3>1, <3>2 DEF Types, ThrT
  <2>3. KeepHomes /\ NoNewWait /\ AliveStay
    BY <1>1, <2>1, <2>2 DEF KeepHomes, NoNewWait, AliveStay
  <2>4. WaitersOnPorts'
    BY <1>1, <2>1, <2>2 DEF SoundInv, PortInv, WaitersOnPorts
  <2>5. SendersMarked'
    BY <1>1, <2>1, <2>2 DEF SoundInv, PortInv, SendersMarked, StillSending
  <2>6. IrqsRight' /\ ProcsFollow(NoObj)
    BY <2>1, PortsStay, Follows DEF SoundInv, NoObj
  <2>7. WaitTargetLives'
    BY <1>3, <2>1, <2>3, SameOwns, TargetsStay DEF SoundInv
  <2>8. QED
    BY <1>3, <2>1, <2>3, <2>4, <2>5, <2>6, <2>7, ThreadStep
<1>9. CASE \E h \in HandleNos : ExitClose(h)
  BY <1>9, CloseSound DEF ExitClose, Types, KopT
<1>10. CASE ExitEnd
  <2> DEFINE p == kop.proc
  <2>1. /\ p \in Procs /\ kop' = Idle /\ thr' = Woken(Waiters(p))
        /\ UNCHANGED <<handles, refs, used, gone, chan, irq, service, send_blocked>>
    BY <1>10 DEF ExitEnd, Types, KopT
  <2>2. /\ \A q \in Procs : q # p => pstate'[q] = pstate[q]
        /\ pstate'[p] = "FREE" => refs[ProcObj(p)] = 0 \/ pstate[p] = "FREE"
    BY <1>10 DEF ExitEnd, Types, PstateT
  <2>3. Calm
    BY <2>1, WakeCalm DEF Waiters
  <2>4. \A v \in Threads : thr'[v].state = "WAIT" => thr'[v] = thr[v] /\ v \notin Waiters(p)
    BY <2>1, WokenType DEF Types
  <2> HIDE DEF p
  <2>5. WaitersOnPorts' /\ SendersMarked' /\ KopOnPort' /\ IrqsRight'
    BY <2>1, <2>3, PortsStay DEF SoundInv, Calm, Idle
  <2>6. ProcsFollow(NoObj)
    <3>1. \A q \in Procs : NoObj # ProcObj(q)
      BY DEF NoObj, ProcObj
    <3>2. QED
      BY <2>1, <2>2, <3>1 DEF ProcsFollow
  <2>7. WaitTargetLives'
    <3> SUFFICES ASSUME NEW v \in Threads, thr'[v].state = "WAIT"
                 PROVE  \/ /\ thr'[v].wait_thread # Null /\ Alive(thr[v].wait_thread)'
                           /\ thr'[thr'[v].wait_thread].proc = thr'[v].proc
                        \/ /\ thr'[v].wait_proc # Null
                           /\ pstate'[thr'[v].wait_proc] = "LIVE" \/ (kop'.op = "exit" /\ kop'.proc = thr'[v].wait_proc)
      BY DEF WaitTargetLives
    <3>1. /\ thr'[v] = thr[v] /\ thr[v].state = "WAIT" /\ thr[v].wait_proc # p
          /\ thr[v].wait_thread \in Threads \cup {Null} /\ thr[v].wait_proc \in Procs \cup {Null}
      BY <2>4 DEF Waiters, Types, ThrT, ThreadRecords
    <3>2. CASE thr[v].wait_thread # Null /\ Alive(thr[v].wait_thread) /\ thr[thr[v].wait_thread].proc = thr[v].proc
      BY <2>3, <3>1, <3>2 DEF Alive, Calm, AliveStay, KeepHomes
    <3>3. CASE thr[v].wait_proc # Null /\ (pstate[thr[v].wait_proc] = "LIVE" \/ (kop.op = "exit" /\ p = thr[v].wait_proc))
      BY <2>2, <3>1, <3>3
    <3>4. QED
      BY <3>1, <3>2, <3>3 DEF SoundInv, WaitTargetLives, p
  <2>8. QED
    BY <2>1, <2>3, <2>5, <2>6, <2>7, ThreadStep DEF Calm
<1>11. QED
  BY <1>4, <1>5, <1>6, <1>7, <1>8, <1>9, <1>10 DEF KernelStep

\* ... and the interrupts.
LEMMA InterruptSound ==
  ASSUME Types, SoundInv, Interrupt
  PROVE  SoundInv'
<1>1. CASE \E i \in Irqs : IrqRaise(i)
  <2>1. PICK i \in Irqs : IrqRaise(i)
    BY <1>1
  <2> DEFINE b == [irq[i] EXCEPT !.latch = TRUE]
  <2>2. irq[i] \in IrqRecords
    BY DEF Types, IrqT
  <2>3. /\ b \in IrqRecords /\ b.owner = irq[i].owner /\ b.port = irq[i].port /\ b.enable = irq[i].enable
        /\ b.pending = irq[i].pending /\ b.delivered = irq[i].delivered
    BY <2>2 DEF IrqRecords
  <2>4. SetIrq(i, b) /\ Calm
    BY <2>1, SameCalm DEF IrqRaise
  <2> HIDE DEF b
  <2>5. IF b.owner = Null
        THEN ~b.enable /\ ~b.pending /\ ~b.delivered /\ b.port = Null
        ELSE b.port \in used /\ b.enable = (~b.pending /\ ~b.delivered) /\ ~(b.pending /\ b.delivered)
    BY <2>3 DEF SoundInv, PortInv, IrqsRight
  <2>6. QED
    BY <2>3, <2>4, <2>5, IrqStep
<1>2. CASE \E i \in Irqs : IrqNotify(i)
  <2>1. PICK i \in Irqs : IrqNotify(i)
    BY <1>2
  <2> DEFINE b0 == Masked(i)
             b1 == [b0 EXCEPT !.pending = TRUE]
             b2 == [b0 EXCEPT !.delivered = TRUE]
  <2>2. irq[i] \in IrqRecords /\ irq[i].enable /\ irq[i].owner # Null
    BY <2>1 DEF IrqNotify, Types, IrqT
  <2>3. irq[i].port \in used /\ ~irq[i].pending /\ ~irq[i].delivered
    BY <2>2 DEF SoundInv, PortInv, IrqsRight, IrqRecords
  <2>4. /\ b0 \in IrqRecords /\ b0.owner = irq[i].owner /\ b0.port = irq[i].port
        /\ ~b0.enable /\ b0.pending = irq[i].pending /\ b0.delivered = irq[i].delivered
    BY <2>2 DEF Masked, IrqRecords
  <2> HIDE DEF b0
  <2>5. b1 \in IrqRecords /\ b1.owner = b0.owner /\ b1.port = b0.port /\ ~b1.enable /\ b1.pending /\ ~b1.delivered
    BY <2>3, <2>4 DEF IrqRecords
  <2>6. b2 \in IrqRecords /\ b2.owner = b0.owner /\ b2.port = b0.port /\ ~b2.enable /\ ~b2.pending /\ b2.delivered
    BY <2>3, <2>4 DEF IrqRecords
  <2>7. ASSUME NEW b \in {b1, b2}, SetIrq(i, b), Calm
        PROVE  SoundInv'
    <3>1. b \in IrqRecords /\ b.owner # Null /\ b.port \in used /\ ~b.enable /\ (b.pending <=> ~b.delivered)
      BY <2>2, <2>3, <2>4, <2>5, <2>6, <2>7
    <3>2. b.enable = (~b.pending /\ ~b.delivered) /\ ~(b.pending /\ b.delivered)
      BY <3>1 DEF IrqRecords
    <3>3. QED
      BY <2>7, <3>1, <3>2, IrqStep
  <2>8. CASE QueueIrq(i)
    <3>1. SetIrq(i, b1) /\ Calm
      BY <2>8, SameCalm DEF QueueIrq, b0
    <3> HIDE DEF b1, b2
    <3>2. QED
      BY <2>7, <3>1
  <2>9. CASE \E u \in Receivers(irq[i].port) : SetIrq(i, [Masked(i) EXCEPT !.delivered = TRUE]) /\ thr' = Woken({u})
    <3>1. SetIrq(i, b2)
      BY <2>9 DEF b0
    <3>2. Calm
      BY <2>9, WakeCalm DEF Receivers
    <3> HIDE DEF b1, b2
    <3>3. QED
      BY <2>7, <3>1, <3>2
  <2>10. QED
    BY <2>1, <2>3, <2>8, <2>9 DEF IrqNotify, Notify
<1>3. CASE \E t \in Threads : TimedOut(t)
  <2>1. PICK t \in Threads : TimedOut(t)
    BY <1>3
  <2>2. /\ Blocked(t) /\ thr' = Woken({t})
        /\ UNCHANGED <<pstate, handles, refs, used, gone, chan, irq, service, send_blocked, kop>>
    BY <2>1 DEF TimedOut
  <2>3. Calm
    BY <2>2, WakeCalm DEF Blocked
  <2>4. IrqsRight' /\ SendersMarked' /\ KopOnPort'
    BY <2>2, <2>3, PortsStay DEF SoundInv, Calm
  <2>5. QED
    BY <2>2, <2>3, <2>4, SameHandles, CalmStep DEF SameKop
<1>4. QED
  BY <1>1, <1>2, <1>3 DEF Interrupt

\* Nothing is held at the start.
LEMMA InitSound == Init => SoundInv
<1> SUFFICES ASSUME Init PROVE SoundInv
  OBVIOUS
<1>1. ASSUME NEW o \in Objects
      PROVE  refs[o] = 0 /\ Cardinality(Slots(handles, o)) = 0
  <2>1. Slots(handles, o) = {}
    BY NoObjIsNone DEF Init, Slots
  <2>2. QED
    BY <2>1, FS_EmptySet DEF Init
<1>2. HeldInv
  BY <1>1, ObjKinds DEF HeldInv, Exact, PortsHeld, ChansHeld, ProcsHeld, ThreadsHeld, Init
<1>3. ThreadsAtHome
  BY ObjKinds, NoObjIsNone DEF Init, ThreadsAtHome
<1>4. GoneInv
  BY DEF Init, GoneInv, OwedOnce, GoneAreOwed, GoneOnce, OwedAreGone
<1>5. \A t \in Threads : thr[t].state \in {"READY", "FREE"}
  BY DEF Init, ReadyThread
<1>6. PortInv
  BY <1>5 DEF Init, Idle, PortInv, WaitersOnPorts, KopOnPort, NamesOnPorts, ChansOnPorts, IrqsRight, SendersMarked
<1>7. WaitTargetLives
  BY <1>5 DEF WaitTargetLives
<1>8. QED
  BY <1>2, <1>3, <1>4, <1>6, <1>7 DEF SoundInv

\* SoundInv is an invariant of the kernel.
LEMMA SoundHolds == Spec => []SoundInv
<1>1. Types /\ OwnInv /\ SoundInv /\ [Next]_vars => SoundInv'
  <2> SUFFICES ASSUME Types, OwnInv, SoundInv, [Next]_vars PROVE SoundInv'
    OBVIOUS
  <2>1. CASE Next
    BY <2>1, SyscallSound, KernelSound, InterruptSound DEF Next
  <2>2. CASE UNCHANGED vars
    BY <2>2 DEF vars, SoundInv, HeldInv, Exact, Slots, PortsHeld, ChansHeld, ProcsHeld, ThreadsHeld, ThreadsAtHome,
                GoneInv, OwedOnce, GoneAreOwed, GoneOnce, OwedAreGone, PortInv, WaitersOnPorts, KopOnPort,
                NamesOnPorts, ChansOnPorts, IrqsRight, SendersMarked, WaitTargetLives, Alive
  <2>3. QED
    BY <2>1, <2>2
<1>2. QED
  BY <1>1, InitSound, TypesHold, OwnHolds, PTL DEF Spec

-----------------------------------------------------------------------------
(* The theorems.                                                            *)

\* The two masks are sets of records.
SetsInv == used \in SUBSET Ports /\ send_blocked \in SUBSET Threads

\* System calls mark threads and use ports.
LEMMA SyscallSets ==
  ASSUME SetsInv, Types, NEW t \in Threads, Syscall(t)
  PROVE  SetsInv'
<1>1. CASE PortCreate(t)
  BY <1>1 DEF PortCreate, SetsInv
<1>2. ASSUME NEW p, NEW h, Close(p, h)
      PROVE  SetsInv'
  BY <1>2 DEF Close, Unref, PortDestroy, ChanLastClosed, ProcLastClosed, SetsInv
<1>3. CASE \E h \in HandleNos : HandleClose(t, h)
  BY <1>2, <1>3 DEF HandleClose
<1>4. CASE \E h \in HandleNos, x \in HandleNos \cup {NoHandle} : IpcCall(t, h, x)
  BY <1>4 DEF IpcCall, SetsInv
<1>5. CASE \/ ThreadCreate(t) \/ \E h \in HandleNos : ChanCreate(t, h) \/ HandleDup(t, h)
           \/ \E n \in Names : SvcLookup(t, n) \/ \E h \in HandleNos : SvcRegister(t, n, h)
           \/ \E i \in Irqs : IrqAck(t, i) \/ \E h \in HandleNos : IrqBind(t, i, h)
  BY <1>5 DEF ThreadCreate, ChanCreate, SvcLookup, NewChannel, HandleDup, SvcRegister, IrqAck, IrqBind, SetIrq, SetsInv
<1>6. CASE \/ \E h \in HandleNos, timeout \in {"zero", "ticks", "forever"} : IpcRecv(t, h, timeout)
           \/ \E h \in HandleNos, timeout \in {"ticks", "forever"} : Wait(t, h, timeout)
           \/ \E u \in Threads, x \in HandleNos \cup {NoHandle} : IpcReply(t, u, x)
           \/ \E h \in HandleNos, u \in Threads, x \in HandleNos \cup {NoHandle},
                 timeout \in {"zero", "ticks", "forever"} : IpcReplyRecv(t, u, x, h, timeout)
  BY <1>6 DEF IpcRecv, Wait, IpcReply, IpcReplyRecv, Reply, SetsInv
<1>7. CASE ThreadExit(t) \/ ProcExit(t) \/ LastThreadExit(t) \/ \E h \in HandleNos : ProcKill(t, h)
  BY <1>7 DEF ThreadExit, ProcExit, LastThreadExit, ProcKill, ExitBegin, SetsInv
<1>8. CASE Fork(t) \/ \E n \in 0 .. MaxSpawnHandles : \E list \in [1 .. n -> HandleNos] : Spawn(t, list)
  BY <1>8 DEF Fork, Spawn, StartProc, SetsInv
<1>9. QED
  BY <1>1, <1>3, <1>4, <1>5, <1>6, <1>7, <1>8 DEF Syscall

\* The kernel's steps and interrupts only remove from the masks.
LEMMA KernelSets ==
  ASSUME SetsInv, Types, KernelStep \/ Interrupt
  PROVE  SetsInv'
<1>1. StillSending \in SUBSET Threads
  BY DEF StillSending, SetsInv
<1>2. CASE KernelStep
  <2>1. CASE \E h \in HandleNos : ExitClose(h)
    BY <2>1 DEF ExitClose, Close, Unref, PortDestroy, ChanLastClosed, ProcLastClosed, SetsInv
  <2>2. CASE TakeGone \/ TakeNone \/ ExitEnd \/ (\E i \in Irqs : TakeIrq(i))
    BY <1>1, <2>2 DEF TakeGone, TakeNone, ExitEnd, TakeIrq, SetsInv
  <2>3. CASE \E u \in Threads : TakeCall(u) \/ TakeCallFailed(u)
    BY <1>1, <2>3 DEF TakeCall, TakeCallFailed, SetsInv
  <2>4. QED
    BY <1>2, <2>1, <2>2, <2>3 DEF KernelStep
<1>3. CASE Interrupt
  BY <1>3 DEF Interrupt, IrqRaise, IrqNotify, Notify, QueueIrq, TimedOut, SetIrq, SetsInv
<1>4. QED
  BY <1>2, <1>3

\* SetsInv is an invariant of the kernel.
LEMMA SetsHold == Spec => []SetsInv
<1>1. Init => SetsInv
  BY DEF Init, SetsInv
<1>2. Types /\ SetsInv /\ [Next]_vars => SetsInv'
  <2> SUFFICES ASSUME Types, SetsInv, [Next]_vars PROVE SetsInv'
    OBVIOUS
  <2>1. CASE Next
    BY <2>1, SyscallSets, KernelSets DEF Next
  <2>2. CASE UNCHANGED vars
    BY <2>2 DEF vars, SetsInv
  <2>3. QED
    BY <2>1, <2>2
<1>3. QED
  BY <1>1, <1>2, TypesHold, PTL DEF Spec

\* Whatever refers to something refers to what exists: the counts by which obj_unref (ipc.c) ends objects are the
\* numbers of handles, and waits, names and channels lead to what has not ended.
THEOREM NothingDangles == Spec => []RefsAreSound
<1>1. Types /\ SetsInv /\ SoundInv => RefsAreSound
  <2> SUFFICES ASSUME Types, SetsInv, SoundInv PROVE RefsAreSound
    OBVIOUS
  <2>1. refs \in [Objects -> Nat]
    <3>1. \A o \in Objects : refs[o] \in Nat
      BY FiniteSlots DEF SoundInv, HeldInv, Exact
    <3>2. QED
      BY <3>1 DEF Types, RefsT
  <2>2. TypeOK
    BY <2>1 DEF TypeOK, Types, ThrT, PstateT, SpawnedT, HandlesT, GoneT, ChanT, IrqT, IrqRecords, ServiceT, KopT, SetsInv
  <2>3. RefsExact
    BY DEF RefsExact, SoundInv, HeldInv, Exact, Slots, PortsHeld, ChansHeld, ProcsHeld, ThreadsHeld
  <2>4. NamesAndChannelsLead
    BY DEF NamesAndChannelsLead, SoundInv, PortInv, NamesOnPorts, ChansOnPorts
  <2>5. QED
    BY <2>2, <2>3, <2>4 DEF RefsAreSound, SoundInv
<1>2. QED
  BY <1>1, TypesHold, SetsHold, SoundHolds, PTL

\* No interrupt is masked and forgotten by sys_irq_bind, ipc_irq_notify, take_next, the acknowledgement and the ends
\* of processes and ports.
THEOREM IrqsAreLive == Spec => []IrqNeverStuck
<1>1. Types /\ OwnInv /\ SoundInv => IrqNeverStuck
  <2> SUFFICES ASSUME Types, OwnInv, SoundInv, NEW i \in Irqs
               PROVE  IF irq[i].owner = Null
                      THEN ~irq[i].enable /\ ~irq[i].pending /\ ~irq[i].delivered /\ irq[i].port = Null
                      ELSE /\ pstate[irq[i].owner] = "LIVE" /\ irq[i].port \in used
                           /\ irq[i].enable = (~irq[i].pending /\ ~irq[i].delivered)
                           /\ ~(irq[i].pending /\ irq[i].delivered)
    BY DEF IrqNeverStuck
  <2>1. irq[i].owner \in Procs \cup {Null}
    BY DEF Types, IrqT, IrqRecords
  <2>2. irq[i].owner # Null => pstate[irq[i].owner] = "LIVE"
    BY <2>1 DEF OwnInv, NoIrqOwned
  <2>3. QED
    BY <2>2 DEF SoundInv, PortInv, IrqsRight
<1>2. QED
  BY <1>1, TypesHold, OwnHolds, SoundHolds, PTL

\* next_caller finds every caller: who waits in SEND is marked, and nobody waits on a port that port_destroy ended.
THEOREM CallersAreFound == Spec => []CallersAreServable
<1>1. SoundInv => CallersAreServable
  BY DEF CallersAreServable, SoundInv, PortInv, WaitersOnPorts, SendersMarked
<1>2. QED
  BY <1>1, SoundHolds, PTL

\* A list without repetitions is no longer than there are channels.
LEMMA ShortList ==
  ASSUME NEW L \in Seq(Chans), \A i, j \in 1 .. Len(L) : L[i] = L[j] => i = j
  PROVE  Len(L) <= Cardinality(Chans) /\ Cardinality(Chans) \in Nat
<1>1. IsFiniteSet(Chans) /\ Cardinality(Chans) \in Nat
  BY IpcAssumption, FS_CardinalityType
<1>2. Len(L) \in Nat
  BY LenProperties
<1>3. IsFiniteSet(1 .. Len(L)) /\ Cardinality(1 .. Len(L)) = Len(L)
  <2>1. \A n \in Nat : Cardinality(1 .. n) = IF 1 > n THEN 0 ELSE n - 1 + 1
    BY FS_Interval
  <2>2. \A n \in Nat : Cardinality(1 .. n) = n
    BY <2>1
  <2>3. QED
    BY <1>2, <2>2, FS_Interval
<1> DEFINE f == [i \in 1 .. Len(L) |-> L[i]]
<1>4. f \in Injection(1 .. Len(L), Chans)
  BY DEF Injection, IsInjective
<1>5. Injection(1 .. Len(L), Chans) # {}
  BY <1>4
<1>6. Cardinality(1 .. Len(L)) <= Cardinality(Chans)
  BY <1>1, <1>3, <1>5, FS_Injection
<1>7. QED
  BY <1>1, <1>3, <1>6

\* A channel is owed one CLIENT_GONE after chan_last_closed (ipc.c), and none before.
THEOREM EveryGoneIsOwedOnce == Spec => []GoneOwedOnce
<1>1. Types /\ SoundInv => GoneOwedOnce
  <2> SUFFICES ASSUME Types, SoundInv, NEW c \in Chans
               PROVE  LET places == {e \in Ports \X (1 .. Cardinality(Chans)) : e[2] <= Len(gone[e[1]]) /\ gone[e[1]][e[2]] = c} IN
                      IF chan[c].used /\ refs[ChanObj(c)] = 0
                      THEN Cardinality(places) = 1 /\ \A e \in places : e[1] = chan[c].port
                      ELSE places = {}
    BY DEF GoneOwedOnce
  <2> DEFINE places == {e \in Ports \X (1 .. Cardinality(Chans)) : e[2] <= Len(gone[e[1]]) /\ gone[e[1]][e[2]] = c}
  <2>1. ASSUME NEW k \in Ports
        PROVE  /\ gone[k] \in Seq(Chans) /\ Len(gone[k]) \in Nat
               /\ \A i, j \in 1 .. Len(gone[k]) : gone[k][i] = gone[k][j] => i = j
    BY DEF Types, GoneT, SoundInv, GoneInv, OwedOnce, GoneOnce
  <2>2. \A k \in Ports : Len(gone[k]) \in Nat /\ Len(gone[k]) <= Cardinality(Chans) /\ Cardinality(Chans) \in Nat
    BY <2>1, ShortList
  <2>3. \A e \in places : e \in Ports \X (1 .. Len(gone[e[1]])) /\ gone[e[1]][e[2]] = c /\ e = <<e[1], e[2]>>
    BY <2>2
  <2>4. \A k \in Ports : \A i \in 1 .. Len(gone[k]) : gone[k][i] = c => <<k, i>> \in places
    BY <2>2
  <2> HIDE DEF places
  <2>5. \A e \in places : chan[c].used /\ chan[c].port = e[1] /\ refs[ChanObj(c)] = 0
    BY <2>3 DEF SoundInv, GoneInv, OwedOnce, GoneAreOwed
  <2>6. ASSUME chan[c].used, refs[ChanObj(c)] = 0
        PROVE  Cardinality(places) = 1
    <3>1. PICK i \in 1 .. Len(gone[chan[c].port]) : chan[c].port \in Ports /\ gone[chan[c].port][i] = c
      BY <2>6 DEF SoundInv, GoneInv, OwedOnce, OwedAreGone
    <3>2. <<chan[c].port, i>> \in places
      BY <2>4, <3>1
    <3>3. ASSUME NEW e \in places
          PROVE  e = <<chan[c].port, i>>
      <4>1. e[1] = chan[c].port /\ e[2] \in 1 .. Len(gone[chan[c].port]) /\ gone[chan[c].port][e[2]] = c
        BY <2>3, <2>5
      <4>2. e[2] = i
        BY <2>1, <3>1, <4>1
      <4>3. QED
        BY <2>3, <4>1, <4>2
    <3>4. places = {<<chan[c].port, i>>}
      BY <3>2, <3>3
    <3>5. QED
      BY <3>4, FS_Singleton
  <2>7. ~(chan[c].used /\ refs[ChanObj(c)] = 0) => places = {}
    BY <2>5
  <2>8. IF chan[c].used /\ refs[ChanObj(c)] = 0
        THEN Cardinality(places) = 1 /\ \A e \in places : e[1] = chan[c].port
        ELSE places = {}
    BY <2>5, <2>6, <2>7
  <2>9. QED
    BY <2>8 DEF places
<1>2. QED
  BY <1>1, TypesHold, SoundHolds, PTL

\* Only take_next, when it delivers a call, makes a caller wait for its answer.
LEMMA OnlyDelivery ==
  ASSUME Types, [Next]_vars, NEW u \in Threads, thr[u].state = "SEND", thr'[u].state = "REPLY"
  PROVE  TakeCall(u)
<1>t. thr \in [Threads -> ThreadRecords]
  BY DEF Types, ThrT
<1>w. \A S : thr' = Woken(S) => FALSE
  <2> SUFFICES ASSUME NEW S, thr' = Woken(S) PROVE FALSE
    OBVIOUS
  <2>1. thr'[u] = ReadyThread(thr[u].proc) \/ thr'[u] = thr[u]
    BY DEF Woken
  <2>2. QED
    BY <2>1 DEF ReadyThread
<1>c. ASSUME NEW p, NEW h, Close(p, h) PROVE FALSE
  <2>1. thr' = thr \/ \E S : thr' = Woken(S)
    BY <1>c DEF Close, Unref, PortDestroy, ChanLastClosed, ProcLastClosed
  <2>2. QED
    BY <1>w, <2>1
<1>b. ASSUME NEW p, ExitBegin(p) PROVE FALSE
  <2>1. thr'[u] = [ReadyThread(p) EXCEPT !.state = "DEAD"] \/ thr'[u] = thr[u]
    BY <1>b DEF ExitBegin
  <2>2. QED
    BY <2>1 DEF ReadyThread
<1>r. ASSUME NEW t \in Threads, NEW v \in Threads, NEW x, Reply(t, v, x) PROVE FALSE
  BY <1>r, <1>w DEF Reply
<1>s. ASSUME NEW t \in Threads, NEW c, NEW table, StartProc(t, c, table) PROVE FALSE
  <2>1. thr'[u] = ReadyThread(c) \/ thr'[u] = thr[u]
    BY <1>s, <1>t DEF StartProc
  <2>2. QED
    BY <2>1 DEF ReadyThread
<1>e. ASSUME NEW r, NEW table, table[u].state = "SEND", table \in [Threads -> ThreadRecords], Served(table) PROVE FALSE
  <2>1. thr'[u] = ReadyThread(table[kop.thread].proc) \/ thr'[u] = table[u]
    BY <1>e DEF Served
  <2>2. QED
    BY <1>e, <2>1 DEF ReadyThread
<1>1. ASSUME NEW t \in Threads, Syscall(t) PROVE FALSE
  <2>1. CASE \/ PortCreate(t) \/ \E h \in HandleNos : ChanCreate(t, h) \/ HandleDup(t, h)
             \/ \E n \in Names : SvcLookup(t, n) \/ \E h \in HandleNos : SvcRegister(t, n, h)
             \/ \E i \in Irqs : IrqAck(t, i) \/ \E h \in HandleNos : IrqBind(t, i, h)
             \/ \E h \in HandleNos, timeout \in {"zero", "ticks", "forever"} : IpcRecv(t, h, timeout)
    BY <2>1 DEF PortCreate, ChanCreate, SvcLookup, NewChannel, HandleDup, SvcRegister, IrqAck, IrqBind, SetIrq, IpcRecv
  <2>2. CASE ThreadCreate(t)
    <3>1. \/ thr'[u] = ReadyThread(thr[t].proc)
          \/ thr'[u] = thr[u]
      BY <1>t, <2>2 DEF ThreadCreate
    <3>2. QED
      BY <3>1 DEF ReadyThread
  <2>3. CASE \E h \in HandleNos : HandleClose(t, h)
    BY <1>c, <2>3 DEF HandleClose
  <2>4. CASE \E h \in HandleNos, x \in HandleNos \cup {NoHandle} : IpcCall(t, h, x)
    <3>1. PICK k, x : thr' = Sending(t, k, x)
      BY <2>4 DEF IpcCall
    <3>2. thr[t].state = "READY"
      BY <2>4 DEF IpcCall, Calls
    <3>3. u # t
      BY <3>2
    <3>4. thr'[u] = [thr[u] EXCEPT !.ahead = @ \ {t}]
      BY <3>1, <3>3 DEF Sending
    <3>5. QED
      BY <1>t, <3>4 DEF ThreadRecords
  <2>5. CASE \E h \in HandleNos, timeout \in {"ticks", "forever"} : Wait(t, h, timeout)
    <3>1. thr'[u].state \in {"WAIT", thr[u].state}
      BY <1>t, <2>5 DEF Wait, ThreadRecords
    <3>2. QED
      BY <3>1
  <2>6. CASE \/ \E v \in Threads, x \in HandleNos \cup {NoHandle} : IpcReply(t, v, x)
             \/ \E h \in HandleNos, v \in Threads, x \in HandleNos \cup {NoHandle},
                   timeout \in {"zero", "ticks", "forever"} : IpcReplyRecv(t, v, x, h, timeout)
    BY <1>r, <2>6 DEF IpcReply, IpcReplyRecv
  <2>7. CASE ThreadExit(t)
    <3>1. thr' = [Woken(Joining(t)) EXCEPT ![t] = [@ EXCEPT !.state = "DEAD"]]
      BY <2>7 DEF ThreadExit
    <3>2. Woken(Joining(t))[u] = ReadyThread(thr[u].proc) \/ Woken(Joining(t))[u] = thr[u]
      BY DEF Woken
    <3>3. CASE u = t
      <4>1. thr[t].state = "READY"
        BY <2>7 DEF ThreadExit, Calls
      <4>2. QED
        BY <3>3, <4>1
    <3>4. CASE u # t
      <4>1. thr'[u] = Woken(Joining(t))[u]
        BY <3>1, <3>4 DEF Woken
      <4>2. QED
        BY <3>2, <4>1 DEF ReadyThread
    <3>5. QED
      BY <3>3, <3>4
  <2>8. CASE ProcExit(t) \/ LastThreadExit(t) \/ \E h \in HandleNos : ProcKill(t, h)
    BY <1>b, <2>8 DEF ProcExit, LastThreadExit, ProcKill
  <2>9. CASE Fork(t) \/ \E n \in 0 .. MaxSpawnHandles : \E list \in [1 .. n -> HandleNos] : Spawn(t, list)
    BY <1>s, <2>9 DEF Fork, Spawn
  <2>10. QED
    BY <1>1, <2>1, <2>2, <2>3, <2>4, <2>5, <2>6, <2>7, <2>8, <2>9 DEF Syscall
<1>2. CASE KernelStep
  <2>1. CASE TakeGone \/ \E i \in Irqs : TakeIrq(i)
    BY <1>e, <1>t, <2>1 DEF TakeGone, TakeIrq
  <2>2. CASE TakeNone
    <3>1. thr'[u].state \in {"RECV", thr[u].state}
      BY <1>t, <2>2 DEF TakeNone, ThreadRecords
    <3>2. QED
      BY <3>1
  <2>3. CASE ExitEnd
    BY <1>w, <2>3 DEF ExitEnd
  <2>4. CASE \E h \in HandleNos : ExitClose(h)
    BY <1>c, <2>4 DEF ExitClose
  <2>5. ASSUME NEW v \in Threads, TakeCallFailed(v) PROVE FALSE
    BY <1>w, <2>5 DEF TakeCallFailed
  <2>6. ASSUME NEW v \in Threads, TakeCall(v) PROVE TakeCall(u)
    <3>1. CASE v = u
      BY <2>6, <3>1
    <3>2. CASE v # u
      <4>1. PICK table : /\ table = [thr EXCEPT ![v].state = "REPLY", ![v].wait_proc = thr[kop.thread].proc,
                                               ![v].xfer = NoHandle]
                         /\ Served(table)
        BY <2>6 DEF TakeCall
      <4>2. table[u] = thr[u]
        BY <1>t, <3>2, <4>1
      <4>3. thr'[u] = ReadyThread(table[kop.thread].proc) \/ thr'[u] = table[u]
        BY <1>t, <4>1 DEF Served
      <4>4. QED
        BY <4>2, <4>3 DEF ReadyThread
    <3>3. QED
      BY <3>1, <3>2
  <2>7. QED
    BY <1>2, <2>1, <2>2, <2>3, <2>4, <2>5, <2>6 DEF KernelStep
<1>3. CASE Interrupt
  <2>1. thr' = thr \/ \E S : thr' = Woken(S)
    BY <1>3 DEF Interrupt, IrqRaise, IrqNotify, Notify, QueueIrq, TimedOut, SetIrq
  <2>2. QED
    BY <1>w, <2>1
<1>4. CASE UNCHANGED vars
  BY <1>4 DEF vars
<1>5. QED
  BY <1>1, <1>2, <1>3, <1>4 DEF Next

\* A call is delivered only when no earlier call on its port waits, for any number of threads and ports: what
\* next_caller compares is every caller there is.
THEOREM CallsInOrder == Spec => CallsServedInOrder
<1>1. Types /\ SoundInv /\ [Next]_vars =>
        [\A t, u \in Threads :
           /\ thr[t].state = "SEND" /\ thr[u].state = "SEND" /\ thr[t].port = thr[u].port
           /\ t \in thr[u].ahead /\ thr'[u].state = "REPLY"
           => thr'[t].state # "SEND"]_vars
  <2> SUFFICES ASSUME Types, SoundInv, [Next]_vars, NEW t \in Threads, NEW u \in Threads,
                      thr[t].state = "SEND", thr[u].state = "SEND", thr[t].port = thr[u].port,
                      t \in thr[u].ahead, thr'[u].state = "REPLY"
               PROVE  FALSE
    OBVIOUS
  <2>1. TakeCall(u)
    BY OnlyDelivery
  <2>2. NextCaller(kop.port, u)
    BY <2>1 DEF TakeCall, NextItemIsCall
  <2>3. t \in send_blocked
    BY DEF SoundInv, PortInv, SendersMarked
  <2>4. t \in Callers(kop.port)
    BY <2>2, <2>3 DEF NextCaller, Callers
  <2>5. QED
    BY <2>2, <2>4 DEF NextCaller
<1>2. QED
  BY <1>1, TypesHold, SoundHolds, PTL DEF Spec, CallsServedInOrder
=============================================================================

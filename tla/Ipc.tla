-------------------------------- MODULE Ipc --------------------------------
(***************************************************************************)
(* Handles, ports, channels, synchronous calls, notifications, waits and    *)
(* the end of threads and processes in the Foundation kernel:               *)
(* src/foundation/kernel/ipc.c with the process life cycle of proc.c.        *)
(*                                                                         *)
(* Any READY thread may make any system call of Ops next; the order in which *)
(* the scheduler runs READY threads is the subject of module Sched.  A       *)
(* system call is atomic for user code.  The loops of take_next and          *)
(* handle_close_all are followed step by step: while kop is not "none" the   *)
(* kernel is inside one system call and nothing else happens.                *)
(*                                                                         *)
(* Records of a table (threads, processes, ports, channels) are              *)
(* interchangeable, so "the first free record" is any free record.  Argument *)
(* checks that fail before anything is changed are not modelled, nor are the *)
(* bytes that messages carry.                                               *)
(***************************************************************************)
EXTENDS Naturals, Sequences, FiniteSets

CONSTANTS
  Threads, Procs, Ports, Chans,   \* the records of the kernel's tables
  Irqs,                           \* bindable interrupt lines
  Names,                          \* service names
  MaxHandles,                     \* FND_MAX_HANDLES
  Null,                           \* the null pointer
  MaxSpawnHandles,                \* FND_SPAWN_MAX_HANDLES
  Ops                             \* the system calls the processes make

ASSUME IpcAssumption ==
  /\ MaxHandles \in Nat \ {0}
  /\ Null \notin Threads \cup Procs \cup Ports \cup Chans
  /\ MaxSpawnHandles \in 0 .. MaxHandles
  /\ IsFiniteSet(Threads) /\ IsFiniteSet(Procs) /\ IsFiniteSet(Chans)

HandleNos == 1 .. MaxHandles
NoHandle  == 0

\* What a handle table entry can name: kind and object.
PortObj(k)   == <<"port", k>>
ChanObj(c)   == <<"chan", c>>
ProcObj(p)   == <<"proc", p>>
ThreadObj(t) == <<"thread", t>>
NoObj        == <<"none", Null>>
Objects == {PortObj(k) : k \in Ports} \cup {ChanObj(c) : c \in Chans}
             \cup {ProcObj(p) : p \in Procs} \cup {ThreadObj(t) : t \in Threads}

VARIABLES
  thr,          \* thr[t]: the IPC part of a thread record
  pstate,       \* pstate[p]: "FREE", "LIVE" or "EXITED"
  spawned,      \* spawned[p]: the process has a parent (proc->parent # 0)
  handles,      \* handles[p][h]: the handle tables
  refs,         \* refs[o]: the reference count of an object
  used,         \* the ports in use
  gone,         \* gone[k]: channels whose CLIENT_GONE port k has not delivered
  chan,         \* chan[c]: used, and the port it leads to
  irq,          \* irq[i]: the binding, and the IRQC's ENABLE and PENDING bits
  service,      \* service[n]: the port registered under a name
  send_blocked, \* threads that may be blocked in SEND
  kop           \* the system call the kernel is in the middle of

vars == <<thr, pstate, spawned, handles, refs, used, gone, chan, irq, service, send_blocked, kop>>

\* A thread is FREE, READY (or RUNNING), DEAD, or BLOCKED for a reason, which
\* is then its state here: SEND, REPLY, RECV or WAIT.  seq is only compared, so
\* it is kept as ahead: the threads whose last call came before this one's.
ThreadStates == {"FREE", "READY", "SEND", "REPLY", "RECV", "WAIT", "DEAD"}
ThreadRecords ==
  [state : ThreadStates, proc : Procs \cup {Null}, port : Ports \cup {Null}, ahead : SUBSET Threads,
   xfer : HandleNos \cup {NoHandle}, wait_proc : Procs \cup {Null},
   wait_thread : Threads \cup {Null}, timed : BOOLEAN]

Idle == [op |-> "none", thread |-> Null, port |-> Null, proc |-> Null, timeout |-> "forever"]

TypeOK ==
  /\ thr \in [Threads -> ThreadRecords]
  /\ pstate \in [Procs -> {"FREE", "LIVE", "EXITED"}]
  /\ spawned \in [Procs -> BOOLEAN]
  /\ handles \in [Procs -> [HandleNos -> Objects \cup {NoObj}]]
  /\ refs \in [Objects -> Nat]
  /\ used \in SUBSET Ports
  /\ gone \in [Ports -> Seq(Chans)]
  /\ chan \in [Chans -> [used : BOOLEAN, port : Ports \cup {Null}]]
  /\ irq \in [Irqs -> [owner : Procs \cup {Null}, port : Ports \cup {Null}, pending : BOOLEAN,
                       delivered : BOOLEAN, enable : BOOLEAN, latch : BOOLEAN]]
  /\ service \in [Names -> Ports \cup {Null}]
  /\ send_blocked \in SUBSET Threads
  /\ kop \in [op : {"none", "recv", "call", "exit"}, thread : Threads \cup {Null},
              port : Ports \cup {Null}, proc : Procs \cup {Null},
              timeout : {"zero", "ticks", "forever"}]

-----------------------------------------------------------------------------
(* Threads and waiting.                                                     *)

\* A fresh or woken thread record: sched_alloc_thread and sched_wake.  Fields
\* that only a blocked thread uses are cleared.
ReadyThread(p) ==
  [state |-> "READY", proc |-> p, port |-> Null, ahead |-> {}, xfer |-> NoHandle,
   wait_proc |-> Null, wait_thread |-> Null, timed |-> FALSE]

Blocked(t) == thr[t].state \in {"SEND", "REPLY", "RECV", "WAIT"}

\* The thread table after sched_wake of every thread in S.
Woken(S) == [t \in Threads |-> IF t \in S THEN ReadyThread(thr[t].proc) ELSE thr[t]]

Receivers(k) == {t \in Threads : thr[t].state = "RECV" /\ thr[t].port = k}

\* next_caller: of the threads marked in send_blocked, the one whose call on k
\* came first.
Callers(k) == {t \in send_blocked : thr[t].state = "SEND" /\ thr[t].port = k}
NextCallerNewest(k, t) == t \in Callers(k) /\ \A u \in Callers(k) : t \notin thr[u].ahead
NextCaller(k, t) == t \in Callers(k) /\ \A u \in Callers(k) : u \notin thr[t].ahead

\* ... and what is left in send_blocked: stale bits are cleared.
StillSendingNone == {}
StillSending == {t \in send_blocked : thr[t].state = "SEND"}

-----------------------------------------------------------------------------
(* Handles.                                                                 *)

FreeHandles(p) == {h \in HandleNos : handles[p][h] = NoObj}
LowestFree(p, h) == h \in FreeHandles(p) /\ \A g \in FreeHandles(p) : h <= g

\* handle_add: object o gets the lowest free handle of process p.
HandleAdd(p, h, o) ==
  /\ LowestFree(p, h)
  /\ handles' = [handles EXCEPT ![p][h] = o]
  /\ refs' = [refs EXCEPT ![o] = @ + 1]

\* handle_move succeeds when the entry still exists, the receiving table has
\* room, and a THREAD handle stays in its process.
CanMove(from, h, to) ==
  /\ handles[from][h] # NoObj
  /\ FreeHandles(to) # {}
  /\ handles[from][h][1] = "thread" => from = to

\* handle_move: duplicated into the receiving table, then closed.
HandleMove(from, h, to) ==
  \E g \in HandleNos :
    /\ LowestFree(to, g)
    /\ handles' = [handles EXCEPT ![to][g] = handles[from][h], ![from][h] = NoObj]

\* irq_release of the lines in S: unbound, disabled, the latched edge cleared.
Unbound == [owner |-> Null, port |-> Null, pending |-> FALSE, delivered |-> FALSE,
            enable |-> FALSE, latch |-> FALSE]
IrqRelease(S) == irq' = [i \in Irqs |-> IF i \in S THEN Unbound ELSE irq[i]]

\* What port_destroy of k ends: blocked threads, channels, names.
OnPort(k) == {t \in Threads : thr[t].state \in {"SEND", "REPLY", "RECV"} /\ thr[t].port = k}
CutOff(k) == chan' = [c \in Chans |-> IF chan[c].used /\ chan[c].port = k
                                      THEN [used |-> refs[ChanObj(c)] # 0, port |-> Null] ELSE chan[c]]
Forget(k) == service' = [n \in Names |-> IF service[n] = k THEN Null ELSE service[n]]

PortDestroy(k) ==
  /\ IrqRelease({i \in Irqs : irq[i].port = k})
  /\ thr' = Woken(OnPort(k))
  /\ CutOff(k)
  /\ Forget(k)
  /\ used' = used \ {k}
  /\ gone' = [gone EXCEPT ![k] = <<>>]
  /\ UNCHANGED <<pstate, spawned, send_blocked>>

\* chan_last_closed: the channel joins its port's CLIENT_GONE list, from which
\* a waiting receiver is served at once.
ChanLastClosedQuiet(c) ==
  LET k == chan[c].port IN
  /\ \/ k = Null /\ chan' = [chan EXCEPT ![c].used = FALSE] /\ UNCHANGED gone
     \/ k # Null /\ gone' = [gone EXCEPT ![k] = Append(@, c)] /\ UNCHANGED chan
  /\ UNCHANGED <<thr, pstate, spawned, used, irq, service, send_blocked>>
ChanLastClosed(c) ==
  LET k == chan[c].port IN
  /\ \/ /\ k = Null
        /\ chan' = [chan EXCEPT ![c].used = FALSE]
        /\ UNCHANGED <<thr, gone>>
     \/ /\ k # Null /\ Receivers(k) = {}
        /\ gone' = [gone EXCEPT ![k] = Append(@, c)]
        /\ UNCHANGED <<thr, chan>>
     \/ /\ k # Null
        /\ LET list == Append(gone[k], c) IN
           \E r \in Receivers(k) :
             /\ thr' = Woken({r})
             /\ gone' = [gone EXCEPT ![k] = Tail(list)]
             /\ chan' = [chan EXCEPT ![Head(list)].used = FALSE]
  /\ UNCHANGED <<pstate, spawned, used, irq, service, send_blocked>>

\* maybe_free: an exited process nobody has a handle of gives its record back.
ProcLastClosed(p) ==
  /\ pstate' = [pstate EXCEPT ![p] = IF @ = "EXITED" /\ spawned[p] THEN "FREE" ELSE @]
  /\ UNCHANGED <<thr, spawned, used, gone, chan, irq, service, send_blocked>>

\* obj_unref: o loses a reference; the last one ends a port or a channel.
Unref(o) ==
  /\ refs' = [refs EXCEPT ![o] = @ - 1]
  /\ \/ refs[o] = 1 /\ o[1] = "port" /\ PortDestroy(o[2])
     \/ refs[o] = 1 /\ o[1] = "chan" /\ ChanLastClosed(o[2])
     \/ refs[o] = 1 /\ o[1] = "proc" /\ ProcLastClosed(o[2])
     \/ /\ refs[o] # 1 \/ o[1] = "thread"
        /\ UNCHANGED <<thr, pstate, spawned, used, gone, chan, irq, service, send_blocked>>

\* sys_handle_close: entry h of p is emptied and its object loses a reference.
Close(p, h) ==
  /\ handles[p][h] # NoObj
  /\ handles' = [handles EXCEPT ![p][h] = NoObj]
  /\ Unref(handles[p][h])

-----------------------------------------------------------------------------
(* System calls on handles, ports, channels, names and interrupts.          *)

\* Thread t is in user mode and makes the system call op.
Calls(t, op) == kop.op = "none" /\ thr[t].state = "READY" /\ op \in Ops

Holds(t, h, kind) == handles[thr[t].proc][h][1] = kind
Named(t, h)       == handles[thr[t].proc][h][2]

PortCreate(t) ==
  /\ Calls(t, "port_create")
  /\ \E k \in Ports \ used, h \in HandleNos :
       /\ HandleAdd(thr[t].proc, h, PortObj(k))
       /\ used' = used \cup {k}
       /\ gone' = [gone EXCEPT ![k] = <<>>]
  /\ UNCHANGED <<thr, pstate, spawned, chan, irq, service, send_blocked, kop>>

\* A channel record is free once its CLIENT_GONE is delivered.
FreeChanEarly(c) == refs[ChanObj(c)] = 0
FreeChan(c) == ~chan[c].used

\* new_channel: a channel to port k in the handle table of t's process.
NewChannel(t, k) ==
  /\ \E c \in Chans, h \in HandleNos :
       /\ FreeChan(c)
       /\ HandleAdd(thr[t].proc, h, ChanObj(c))
       /\ chan' = [chan EXCEPT ![c] = [used |-> TRUE, port |-> k]]
  /\ UNCHANGED <<thr, pstate, spawned, used, gone, irq, service, send_blocked, kop>>

ChanCreate(t, h) == Calls(t, "chan_create") /\ Holds(t, h, "port") /\ NewChannel(t, Named(t, h))

HandleClose(t, h) == Calls(t, "handle_close") /\ Close(thr[t].proc, h) /\ UNCHANGED kop

HandleDup(t, h) ==
  /\ Calls(t, "handle_dup")
  /\ ~Holds(t, h, "none")
  /\ \E g \in HandleNos : HandleAdd(thr[t].proc, g, handles[thr[t].proc][h])
  /\ UNCHANGED <<thr, pstate, spawned, used, gone, chan, irq, service, send_blocked, kop>>

SvcRegister(t, n, h) ==
  /\ Calls(t, "svc_register")
  /\ Holds(t, h, "port")
  /\ service[n] = Null
  /\ service' = [service EXCEPT ![n] = Named(t, h)]
  /\ UNCHANGED <<thr, pstate, spawned, handles, refs, used, gone, chan, irq, send_blocked, kop>>

SvcLookup(t, n) == Calls(t, "svc_lookup") /\ service[n] # Null /\ NewChannel(t, service[n])

SetIrq(i, b) ==
  /\ irq' = [irq EXCEPT ![i] = b]
  /\ UNCHANGED <<pstate, spawned, handles, refs, used, gone, chan, service, send_blocked, kop>>

\* An edge latched before the line is bound is kept.
IrqBind(t, i, h) ==
  /\ Calls(t, "irq_bind")
  /\ Holds(t, h, "port")
  /\ irq[i].owner = Null
  /\ SetIrq(i, [owner |-> thr[t].proc, port |-> Named(t, h), pending |-> FALSE,
                delivered |-> FALSE, enable |-> TRUE, latch |-> irq[i].latch])
  /\ UNCHANGED thr

IrqAck(t, i) ==
  /\ Calls(t, "irq_ack")
  /\ irq[i].owner = thr[t].proc /\ irq[i].delivered
  /\ SetIrq(i, [irq[i] EXCEPT !.delivered = FALSE, !.latch = FALSE, !.enable = TRUE])
  /\ UNCHANGED thr

\* The device: an edge on line i sets its bit of the IRQC's PENDING.
IrqRaise(i) ==
  /\ ~irq[i].latch
  /\ SetIrq(i, [irq[i] EXCEPT !.latch = TRUE])
  /\ UNCHANGED thr

\* ipc_irq_notify, called for an enabled pending line: the line is masked and
\* the notification queued, or given to a thread waiting in RECV.
Masked(i) == [irq[i] EXCEPT !.enable = FALSE]
QueueIrq(i) == SetIrq(i, [Masked(i) EXCEPT !.pending = TRUE]) /\ UNCHANGED thr
Notify(i) ==
  \/ Receivers(irq[i].port) = {} /\ QueueIrq(i)
  \/ \E r \in Receivers(irq[i].port) :
       SetIrq(i, [Masked(i) EXCEPT !.delivered = TRUE]) /\ thr' = Woken({r})

IrqNotify(i) ==
  /\ kop.op = "none" /\ irq[i].enable /\ irq[i].latch /\ irq[i].owner # Null
  /\ IF irq[i].pending \/ irq[i].delivered
     THEN SetIrq(i, Masked(i)) /\ UNCHANGED thr
     ELSE Notify(i)

-----------------------------------------------------------------------------
(* Calls, receives and replies.                                             *)

\* The thread table once t waits in SEND on k: everyone in SEND is ahead of it.
Sending(t, k, x) ==
  [u \in Threads |->
     IF u # t THEN [thr[u] EXCEPT !.ahead = @ \ {t}]
     ELSE [thr[t] EXCEPT !.state = "SEND", !.port = k, !.xfer = x,
                         !.ahead = {v \in Threads : thr[v].state = "SEND"}]]

\* sys_ipc_call: t blocks in SEND, optionally with a handle x to hand over; if a
\* receiver waits, take_next goes on for it.
IpcCall(t, h, x) ==
  /\ Calls(t, "ipc_call")
  /\ Holds(t, h, "chan")
  /\ x # NoHandle => "xfer" \in Ops /\ ~Holds(t, x, "none")
  /\ LET k == chan[Named(t, h)].port IN
     /\ k # Null
     /\ thr' = Sending(t, k, x)
     /\ send_blocked' = send_blocked \cup {t}
     /\ \/ Receivers(k) = {} /\ UNCHANGED kop
        \/ \E r \in Receivers(k) : kop' = [Idle EXCEPT !.op = "call", !.thread = r, !.port = k]
  /\ UNCHANGED <<pstate, spawned, handles, refs, used, gone, chan, irq, service>>

BeginRecv(t, k, timeout) ==
  kop' = [Idle EXCEPT !.op = "recv", !.thread = t, !.port = k, !.timeout = timeout]

\* sys_ipc_recv: take_next first, blocking later.
IpcRecv(t, h, timeout) ==
  /\ Calls(t, "ipc_recv")
  /\ Holds(t, h, "port")
  /\ BeginRecv(t, Named(t, h), timeout)
  /\ UNCHANGED <<thr, pstate, spawned, handles, refs, used, gone, chan, irq, service, send_blocked>>

\* take_next prefers a pending interrupt, then a CLIENT_GONE, then the oldest
\* caller.  The receiver it serves goes on; one blocked in RECV is woken.
Taking == kop.op \in {"recv", "call"}
PendingIrqs(k) == {i \in Irqs : irq[i].port = k /\ irq[i].pending}
Served(table) == thr' = [table EXCEPT ![kop.thread] = ReadyThread(table[kop.thread].proc)]

TakeIrq(i) ==
  /\ Taking /\ i \in PendingIrqs(kop.port)
  /\ irq' = [irq EXCEPT ![i].pending = FALSE, ![i].delivered = TRUE]
  /\ Served(thr)
  /\ kop' = Idle
  /\ UNCHANGED <<pstate, spawned, handles, refs, used, gone, chan, service, send_blocked>>

TakeGone ==
  /\ Taking /\ PendingIrqs(kop.port) = {} /\ gone[kop.port] # <<>>
  /\ chan' = [chan EXCEPT ![Head(gone[kop.port])].used = FALSE]
  /\ gone' = [gone EXCEPT ![kop.port] = Tail(@)]
  /\ Served(thr)
  /\ kop' = Idle
  /\ UNCHANGED <<pstate, spawned, handles, refs, used, irq, service, send_blocked>>

NextItemIsCall(u) ==
  Taking /\ PendingIrqs(kop.port) = {} /\ gone[kop.port] = <<>> /\ NextCaller(kop.port, u)

\* deliver_call: u's handle moves, the number looked up only now; then u waits
\* for its answer from the receiver's process.
TakeCall(u) ==
  LET p == thr[kop.thread].proc IN
  /\ NextItemIsCall(u)
  /\ \/ thr[u].xfer = NoHandle /\ UNCHANGED handles
     \/ /\ thr[u].xfer # NoHandle /\ CanMove(thr[u].proc, thr[u].xfer, p)
        /\ HandleMove(thr[u].proc, thr[u].xfer, p)
  /\ Served([thr EXCEPT ![u].state = "REPLY", ![u].wait_proc = p, ![u].xfer = NoHandle])
  /\ send_blocked' = StillSending
  /\ kop' = Idle
  /\ UNCHANGED <<pstate, spawned, refs, used, gone, chan, irq, service>>

\* The handle cannot be moved: u is woken with an error, take_next looks again.
TakeCallFailed(u) ==
  /\ NextItemIsCall(u)
  /\ thr[u].xfer # NoHandle /\ ~CanMove(thr[u].proc, thr[u].xfer, thr[kop.thread].proc)
  /\ thr' = Woken({u})
  /\ send_blocked' = StillSending
  /\ UNCHANGED <<pstate, spawned, handles, refs, used, gone, chan, irq, service, kop>>

\* Nothing to take: a receiver with a timeout of zero returns, another blocks;
\* one found by sys_ipc_call stays blocked.
TakeNone ==
  /\ Taking /\ PendingIrqs(kop.port) = {} /\ gone[kop.port] = <<>> /\ Callers(kop.port) = {}
  /\ thr' = IF kop.op = "recv" /\ kop.timeout # "zero"
            THEN [thr EXCEPT ![kop.thread].state = "RECV", ![kop.thread].port = kop.port,
                             ![kop.thread].timed = (kop.timeout = "ticks")]
            ELSE thr
  /\ send_blocked' = StillSending
  /\ kop' = Idle
  /\ UNCHANGED <<pstate, spawned, handles, refs, used, gone, chan, irq, service>>

\* token_caller: the token of u's call is valid for process p.
TokenCaller(p, u) == thr[u].state = "REPLY" /\ thr[u].wait_proc = p

\* sys_ipc_reply to u with handle x handed over.  A reply that does not fit, or
\* whose handle cannot move, changes nothing and leaves the token valid.
Reply(t, u, x) ==
  LET p == thr[t].proc IN
  /\ TokenCaller(p, u)
  /\ \/ x = NoHandle /\ UNCHANGED handles
     \/ /\ x # NoHandle /\ "xfer" \in Ops
        /\ CanMove(p, x, thr[u].proc) /\ HandleMove(p, x, thr[u].proc)
  /\ thr' = Woken({u})
  /\ UNCHANGED <<pstate, spawned, refs, used, gone, chan, irq, service, send_blocked>>

IpcReply(t, u, x) == Calls(t, "ipc_reply") /\ Reply(t, u, x) /\ UNCHANGED kop

\* sys_ipc_reply_recv: the receive follows the reply, if h is still a port then.
IpcReplyRecv(t, u, x, h, timeout) ==
  /\ Calls(t, "ipc_reply_recv")
  /\ Reply(t, u, x)
  /\ \/ handles'[thr[t].proc][h][1] = "port" /\ BeginRecv(t, handles'[thr[t].proc][h][2], timeout)
     \/ handles'[thr[t].proc][h][1] # "port" /\ UNCHANGED kop

\* ipc_timed_out, called by sched_tick for a timed wait that is due.
TimedOut(t) ==
  /\ kop.op = "none" /\ Blocked(t) /\ thr[t].timed
  /\ thr' = Woken({t})
  /\ UNCHANGED <<pstate, spawned, handles, refs, used, gone, chan, irq, service, send_blocked, kop>>

-----------------------------------------------------------------------------
(* Threads and processes.                                                   *)

Alive(t) == thr[t].state \notin {"FREE", "DEAD"}
LiveThreads(p) == {t \in Threads : Alive(t) /\ thr[t].proc = p}

\* sched_alloc_thread: a record never used, or of a dead thread without handles.
Allocatable(u) == thr[u].state = "FREE" \/ (thr[u].state = "DEAD" /\ refs[ThreadObj(u)] = 0)

\* sys_wait on a process or a thread that has not ended, with a timeout that
\* is not zero.
Wait(t, h, timeout) ==
  /\ Calls(t, "wait")
  /\ \/ /\ Holds(t, h, "proc") /\ pstate[Named(t, h)] = "LIVE"
        /\ thr' = [thr EXCEPT ![t].state = "WAIT", ![t].wait_proc = Named(t, h),
                              ![t].timed = (timeout = "ticks")]
     \/ /\ Holds(t, h, "thread") /\ Named(t, h) # t /\ Alive(Named(t, h))
        /\ thr' = [thr EXCEPT ![t].state = "WAIT", ![t].wait_thread = Named(t, h),
                              ![t].timed = (timeout = "ticks")]
  /\ UNCHANGED <<pstate, spawned, handles, refs, used, gone, chan, irq, service, send_blocked, kop>>

ThreadCreate(t) ==
  /\ Calls(t, "thread_create")
  /\ \E u \in Threads, h \in HandleNos :
       /\ Allocatable(u)
       /\ HandleAdd(thr[t].proc, h, ThreadObj(u))
       /\ thr' = [thr EXCEPT ![u] = ReadyThread(thr[t].proc)]
  /\ UNCHANGED <<pstate, spawned, used, gone, chan, irq, service, send_blocked, kop>>

\* ipc_irq_proc_exited releases these lines.
OwnedIrqsNone(p) == {}
OwnedIrqs(p) == {i \in Irqs : irq[i].owner = p}

\* proc_exit up to handle_close_all: threads dead, interrupts released.
ExitBegin(p) ==
  /\ thr' = [t \in Threads |-> IF t \in LiveThreads(p)
                               THEN [ReadyThread(p) EXCEPT !.state = "DEAD"] ELSE thr[t]]
  /\ IrqRelease(OwnedIrqs(p))
  /\ pstate' = [pstate EXCEPT ![p] = "EXITED"]
  /\ kop' = [Idle EXCEPT !.op = "exit", !.proc = p]
  /\ UNCHANGED <<spawned, handles, refs, used, gone, chan, service, send_blocked>>

\* handle_close_all, one handle after the other.
ExitClose(h) ==
  /\ kop.op = "exit"
  /\ \A g \in HandleNos : g < h => handles[kop.proc][g] = NoObj
  /\ Close(kop.proc, h)
  /\ UNCHANGED kop

AllClosedButLast(p) == \A h \in HandleNos \ {MaxHandles} : handles[p][h] = NoObj
AllClosed(p) == \A h \in HandleNos : handles[p][h] = NoObj

\* ipc_proc_exited wakes these.
Waiters(p) == {t \in Threads : thr[t].state = "WAIT" /\ thr[t].wait_proc = p}

\* The rest of proc_exit: the waiters are woken, the record may be given back.
ExitEnd ==
  LET p == kop.proc IN
  /\ kop.op = "exit"
  /\ AllClosed(p)
  /\ thr' = Woken(Waiters(p))
  /\ pstate' = [pstate EXCEPT ![p] =
                 IF @ = "EXITED" /\ refs[ProcObj(p)] = 0 /\ spawned[p] THEN "FREE" ELSE @]
  /\ kop' = Idle
  /\ UNCHANGED <<spawned, handles, refs, used, gone, chan, irq, service, send_blocked>>

\* The process exits, faults, or its last thread does.
ProcExit(t) == Calls(t, "proc_exit") /\ ExitBegin(thr[t].proc)

ProcKill(t, h) ==
  /\ Calls(t, "proc_kill")
  /\ Holds(t, h, "proc") /\ pstate[Named(t, h)] = "LIVE"
  /\ ExitBegin(Named(t, h))

Joining(t) == {u \in Threads : thr[u].state = "WAIT" /\ thr[u].wait_thread = t}

\* A thread that is not the last one dies; those waiting for it are woken.
ThreadExit(t) ==
  /\ Calls(t, "thread_exit")
  /\ LiveThreads(thr[t].proc) # {t}
  /\ thr' = [Woken(Joining(t)) EXCEPT ![t] = [@ EXCEPT !.state = "DEAD"]]
  /\ UNCHANGED <<pstate, spawned, handles, refs, used, gone, chan, irq, service, send_blocked, kop>>

LastThreadExit(t) ==
  Calls(t, "thread_exit") /\ LiveThreads(thr[t].proc) = {t} /\ ExitBegin(thr[t].proc)

\* claim_record: a FREE record; without one, that of an exited process nobody
\* has a handle of.
Claimable(c) ==
  \/ pstate[c] = "FREE"
  \/ /\ \A q \in Procs : pstate[q] # "FREE"
     /\ pstate[c] = "EXITED" /\ refs[ProcObj(c)] = 0

\* How often a handle table names o.
NamingNone(table, o) == 0
Naming(table, o) == Cardinality({h \in HandleNos : table[h] = o})

\* Process c starts with one thread and the handles of table, and the process of
\* t gets a PROCESS handle of it.
StartProc(t, c, table) ==
  LET p == thr[t].proc IN
  /\ Claimable(c)
  /\ \E u \in Threads : Allocatable(u) /\ thr' = [thr EXCEPT ![u] = ReadyThread(c)]
  /\ \E h \in HandleNos :
       LowestFree(p, h) /\ handles' = [handles EXCEPT ![c] = table, ![p][h] = ProcObj(c)]
  /\ refs' = [o \in Objects |-> IF o = ProcObj(c) THEN 1 ELSE refs[o] + Naming(table, o)]
  /\ pstate' = [pstate EXCEPT ![c] = "LIVE"]
  /\ spawned' = [spawned EXCEPT ![c] = TRUE]
  /\ UNCHANGED <<used, gone, chan, irq, service, send_blocked, kop>>

\* proc_spawn: the listed handles of p are duplicated into the empty table of the
\* child one after the other; a THREAD handle is refused, which is ignored.
PassedTable(p, list) ==
  LET passed == {i \in DOMAIN list : handles[p][list[i]][1] # "thread"}
      number(i) == Cardinality({j \in passed : j <= i})
  IN [h \in HandleNos |-> IF \E i \in passed : number(i) = h
                          THEN handles[p][list[CHOOSE i \in passed : number(i) = h]] ELSE NoObj]

Spawn(t, list) ==
  /\ Calls(t, "proc_spawn")
  /\ \A i \in DOMAIN list : handles[thr[t].proc][list[i]] # NoObj
  /\ \E c \in Procs : StartProc(t, c, PassedTable(thr[t].proc, list))

\* proc_fork: a single-threaded process without THREAD handles; the child's
\* table is a copy.
Fork(t) ==
  LET p == thr[t].proc IN
  /\ Calls(t, "proc_fork")
  /\ LiveThreads(p) = {t}
  /\ \A h \in HandleNos : ~Holds(t, h, "thread")
  /\ \E c \in Procs : StartProc(t, c, handles[p])

-----------------------------------------------------------------------------

\* A module the kernel started, before its first system call.
Init ==
  /\ \E t \in Threads, p \in Procs :
       /\ thr = [u \in Threads |-> IF u = t THEN ReadyThread(p)
                                   ELSE [ReadyThread(Null) EXCEPT !.state = "FREE"]]
       /\ pstate = [q \in Procs |-> IF q = p THEN "LIVE" ELSE "FREE"]
  /\ spawned = [p \in Procs |-> FALSE]
  /\ handles = [p \in Procs |-> [h \in HandleNos |-> NoObj]]
  /\ refs = [o \in Objects |-> 0]
  /\ used = {}
  /\ gone = [k \in Ports |-> <<>>]
  /\ chan = [c \in Chans |-> [used |-> FALSE, port |-> Null]]
  /\ irq = [i \in Irqs |-> [owner |-> Null, port |-> Null, pending |-> FALSE,
                            delivered |-> FALSE, enable |-> FALSE, latch |-> FALSE]]
  /\ service = [n \in Names |-> Null]
  /\ send_blocked = {}
  /\ kop = Idle

Syscall(t) ==
  \/ PortCreate(t) \/ ThreadCreate(t) \/ Fork(t)
  \/ ProcExit(t) \/ ThreadExit(t) \/ LastThreadExit(t)
  \/ \E n \in Names : SvcLookup(t, n) \/ \E h \in HandleNos : SvcRegister(t, n, h)
  \/ \E i \in Irqs : IrqAck(t, i) \/ \E h \in HandleNos : IrqBind(t, i, h)
  \/ \E h \in HandleNos :
       \/ ChanCreate(t, h) \/ HandleClose(t, h) \/ HandleDup(t, h) \/ ProcKill(t, h)
       \/ \E x \in HandleNos \cup {NoHandle} : IpcCall(t, h, x)
       \/ \E timeout \in {"zero", "ticks", "forever"} : IpcRecv(t, h, timeout)
       \/ \E timeout \in {"ticks", "forever"} : Wait(t, h, timeout)
       \/ \E u \in Threads, x \in HandleNos \cup {NoHandle}, timeout \in {"zero", "ticks", "forever"} :
            IpcReplyRecv(t, u, x, h, timeout)
  \/ \E u \in Threads, x \in HandleNos \cup {NoHandle} : IpcReply(t, u, x)
  \/ \E n \in 0 .. MaxSpawnHandles : \E list \in [1 .. n -> HandleNos] : Spawn(t, list)

KernelStep ==
  \/ TakeGone \/ TakeNone \/ ExitEnd
  \/ \E i \in Irqs : TakeIrq(i)
  \/ \E u \in Threads : TakeCall(u) \/ TakeCallFailed(u)
  \/ \E h \in HandleNos : ExitClose(h)

Interrupt ==
  \/ \E i \in Irqs : IrqRaise(i) \/ IrqNotify(i)
  \/ \E t \in Threads : TimedOut(t)

Next == KernelStep \/ Interrupt \/ \E t \in Threads : Syscall(t)

Spec == Init /\ [][Next]_vars

-----------------------------------------------------------------------------
(* Properties.                                                              *)

\* A thread that waits in RECV (sys_ipc_recv, ipc.c:568) waits on a port that
\* has nothing for it: no caller in SEND, no CLIENT_GONE and no interrupt,
\* however calls, closes, exits, transfers and timeouts interleave.
NoLostWakeup ==
  kop.op = "none" =>
    \A t \in Threads : thr[t].state = "RECV" =>
      LET k == thr[t].port IN
      /\ gone[k] = <<>>
      /\ PendingIrqs(k) = {}
      /\ \A u \in Threads : ~(thr[u].state = "SEND" /\ thr[u].port = k)

\* Every caller in SEND is marked in send_blocked, the mask next_caller prunes
\* lazily (ipc.c:339), and a thread in SEND, REPLY or RECV is on a port that
\* exists: port_destroy (ipc.c:101) leaves nobody behind.
CallersAreServable ==
  \A t \in Threads :
    /\ thr[t].state = "SEND" => t \in send_blocked
    /\ thr[t].state \in {"SEND", "REPLY", "RECV"} => thr[t].port \in used

\* Callers are served in the order of their calls (seq, next_caller, ipc.c:353): a
\* call is handed to a receiver only when no call made earlier on the same port is
\* still waiting, whatever timeouts, deaths and reused thread records came before.
CallsServedInOrder ==
  [][\A t, u \in Threads :
       /\ thr[t].state = "SEND" /\ thr[u].state = "SEND" /\ thr[t].port = thr[u].port
       /\ t \in thr[u].ahead /\ thr'[u].state = "REPLY"
       => thr'[t].state # "SEND"]_vars

\* Reference counts are exact: refs of an object is the number of handles that
\* name it (obj_ref, obj_unref, handle_move, handle_clone), a port is in use
\* while it has handles, and named channels, processes and threads exist.
RefsExact ==
  /\ \A o \in Objects : refs[o] = Cardinality({e \in Procs \X HandleNos : handles[e[1]][e[2]] = o})
  /\ \A k \in Ports : k \in used <=> refs[PortObj(k)] > 0
  /\ \A c \in Chans : refs[ChanObj(c)] > 0 => chan[c].used
  /\ \A p \in Procs : refs[ProcObj(p)] > 0 => pstate[p] # "FREE"
  /\ \A t \in Threads : refs[ThreadObj(t)] > 0 => thr[t].state # "FREE"

\* CLIENT_GONE is owed exactly once per channel (chan_last_closed, ipc.c:126): a
\* channel record without handles is still in use exactly while it is on the list of
\* the port it leads to, and it is on one list, once.
GoneOwedOnce ==
  \A c \in Chans :
    LET places == {e \in Ports \X (1 .. Cardinality(Chans)) : e[2] <= Len(gone[e[1]]) /\ gone[e[1]][e[2]] = c} IN
    IF chan[c].used /\ refs[ChanObj(c)] = 0
    THEN Cardinality(places) = 1 /\ \A e \in places : e[1] = chan[c].port
    ELSE places = {}

\* Nobody waits for what has ended: the target of a WAIT (sys_wait, ipc.c:731) is a
\* live process, or a live thread of the waiter's own process.
WaitTargetLives ==
  \A t \in Threads : thr[t].state = "WAIT" =>
    \/ thr[t].wait_thread # Null /\ Alive(thr[t].wait_thread) /\ thr[thr[t].wait_thread].proc = thr[t].proc
    \/ thr[t].wait_proc # Null /\ (pstate[thr[t].wait_proc] = "LIVE"
                                   \/ (kop.op = "exit" /\ kop.proc = thr[t].wait_proc))

\* A process that has exited (proc_exit, proc.c:53) holds no handle, has no
\* live thread and owns no interrupt, so its record can be claimed again.
ExitedOwnsNothing ==
  \A p \in Procs : pstate[p] # "LIVE" =>
    /\ LiveThreads(p) = {}
    /\ \A i \in Irqs : irq[i].owner # p
    /\ kop.proc # p => \A h \in HandleNos : handles[p][h] = NoObj

\* A bound interrupt is never masked and forgotten: it is enabled, or its
\* notification waits on a port that exists, or it has been delivered and the
\* owner may acknowledge it; an unbound one is masked (ipc.c:239-271, 386-399).
IrqNeverStuck ==
  \A i \in Irqs :
    IF irq[i].owner = Null
    THEN ~irq[i].enable /\ ~irq[i].pending /\ ~irq[i].delivered /\ irq[i].port = Null
    ELSE /\ pstate[irq[i].owner] = "LIVE" /\ irq[i].port \in used
         /\ irq[i].enable = (~irq[i].pending /\ ~irq[i].delivered)
         /\ ~(irq[i].pending /\ irq[i].delivered)

\* A registered name leads to a port that exists, and so does a channel that
\* has a port (port_destroy, ipc.c:111-122).
NamesAndChannelsLead ==
  /\ \A n \in Names : service[n] # Null => service[n] \in used
  /\ \A c \in Chans : chan[c].used /\ chan[c].port # Null => chan[c].port \in used

\* Whatever refers to something refers to what exists: the state has its types, every count is the number of
\* its references, and no waiting thread, name or channel leads to what has ended.
RefsAreSound == TypeOK /\ RefsExact /\ WaitTargetLives /\ NamesAndChannelsLead
=============================================================================

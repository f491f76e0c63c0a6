----------------------------- MODULE IpcServer -----------------------------
(***************************************************************************)
(* A service and its clients on top of Ipc: the main loop that the disk     *)
(* service (src/foundation/services/disk/main.c) and the file service        *)
(* share, which receives, and then answers and receives again with one       *)
(* system call.  Clients call whenever they like.  The service and every     *)
(* client may end at any moment: exit, fault or be killed.                   *)
(***************************************************************************)
EXTENDS Ipc

CONSTANTS
  Server,       \* the thread of the service
  Home          \* Home[t]: the process of thread t, one thread each

ASSUME ServerAssumption == Server \in Threads /\ Home \in [Threads -> Procs]

Clients == Threads \ {Server}
Port == 1       \* the service's handle of its port
Service == 1    \* a client's handle of its channel

\* The service holds its port and every client a channel to it, as they do
\* when the service has registered its name and the clients looked it up.
ServerInit ==
  \E k \in Ports, toPort \in [Clients -> Chans] :
    /\ \A t, u \in Clients : toPort[t] = toPort[u] => t = u
    /\ thr = [t \in Threads |-> ReadyThread(Home[t])]
    /\ pstate = [p \in Procs |-> "LIVE"]
    /\ spawned = [p \in Procs |-> FALSE]
    /\ handles = [p \in Procs |-> [h \in HandleNos |->
                    CASE h = Port /\ p = Home[Server] -> PortObj(k)
                      [] h = Service /\ \E t \in Clients : p = Home[t] ->
                           ChanObj(toPort[CHOOSE t \in Clients : p = Home[t]])
                      [] OTHER -> NoObj]]
    /\ refs = [o \in Objects |-> IF o \in {PortObj(k)} \cup {ChanObj(toPort[t]) : t \in Clients} THEN 1 ELSE 0]
    /\ used = {k}
    /\ gone = [j \in Ports |-> <<>>]
    /\ chan = [c \in Chans |-> IF \E t \in Clients : toPort[t] = c
                               THEN [used |-> TRUE, port |-> k] ELSE [used |-> FALSE, port |-> Null]]
    /\ irq = [i \in Irqs |-> Unbound]
    /\ service = [n \in Names |-> Null]
    /\ send_blocked = {}
    /\ kop = Idle

\* One round of the service's loop: with a token in hand it answers and
\* receives, else it receives.
Tokens == {u \in Threads : TokenCaller(Home[Server], u)}
Serve ==
  \/ Tokens = {} /\ IpcRecv(Server, Port, "forever")
  \/ \E u \in Tokens : IpcReplyRecv(Server, u, NoHandle, Port, "forever")

Call(t) == IpcCall(t, Service, NoHandle)

\* The end of a process by proc_exit, proc_kill or a fault, in any state.
Killed(t) == kop.op = "none" /\ Alive(t) /\ ExitBegin(Home[t])

ServerNext == KernelStep \/ Serve \/ \E t \in Threads : Killed(t) \/ (t \in Clients /\ Call(t))

\* The kernel finishes what it began; the service, whose priority is above its
\* clients', gets the processor when it is ready (Sched) and goes round its loop.
ServerSpec ==
  /\ ServerInit /\ [][ServerNext]_vars
  /\ WF_vars(KernelStep) /\ WF_vars(Serve)

-----------------------------------------------------------------------------

InCall(t) == thr[t].state \in {"SEND", "REPLY"}

\* Every call returns, with an answer or with PEER_GONE: no client waits for
\* ever behind others (next_caller is FIFO) nor for a service that has ended
\* (port_destroy), whoever else comes, goes or is killed meanwhile.
CallReturns == \A t \in Clients : InCall(t) ~> ~InCall(t)

\* The service learns of every client that has ended: a closed channel does
\* not stay on the port's list while the service runs (deliver_gone, ipc.c:401).
GoneIsDelivered ==
  \A c \in Chans : (chan[c].used /\ refs[ChanObj(c)] = 0) ~> ~(chan[c].used /\ refs[ChanObj(c)] = 0)
=============================================================================

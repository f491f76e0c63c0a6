------------------------------- MODULE MCIpc -------------------------------
(* Instances of Ipc for TLC.  The records of each table are interchangeable. *)
EXTENDS Ipc, TLC

CONSTANTS t1, t2, t3, p1, p2, k1, c1, c2, i1, n1

Symmetry == Permutations(Threads) \cup Permutations(Procs) \cup Permutations(Ports) \cup Permutations(Chans)

\* Calls between the threads of one process and what disturbs them.
CallOps == {"port_create", "chan_create", "handle_close", "ipc_call", "xfer", "ipc_recv",
            "ipc_reply", "ipc_reply_recv", "thread_create", "thread_exit", "wait"}

\* The system calls of CallOps, for a run in which no process, handle copy, name or interrupt is made.
CallNext ==
  \/ KernelStep \/ Interrupt
  \/ \E t \in Threads :
       \/ PortCreate(t) \/ ThreadCreate(t) \/ ThreadExit(t) \/ LastThreadExit(t)
       \/ \E h \in HandleNos :
            \/ ChanCreate(t, h) \/ HandleClose(t, h)
            \/ \E x \in HandleNos \cup {NoHandle} : IpcCall(t, h, x)
            \/ \E timeout \in {"zero", "ticks", "forever"} : IpcRecv(t, h, timeout)
            \/ \E timeout \in {"ticks", "forever"} : Wait(t, h, timeout)
            \/ \E u \in Threads, x \in HandleNos \cup {NoHandle}, timeout \in {"zero", "ticks", "forever"} :
                 IpcReplyRecv(t, u, x, h, timeout)
       \/ \E u \in Threads, x \in HandleNos \cup {NoHandle} : IpcReply(t, u, x)
CallSpec == Init /\ [][CallNext]_vars

\* Processes that share ports and channels, hand each other handles, end and are waited for.
ProcOps == {"port_create", "chan_create", "handle_close", "ipc_call", "xfer", "ipc_recv",
            "ipc_reply", "wait", "proc_spawn", "proc_kill", "proc_exit"}

\* Names and interrupts of processes that come and go.
ServiceOps == {"port_create", "handle_close", "ipc_recv", "svc_register", "svc_lookup",
               "irq_bind", "irq_ack", "proc_spawn", "proc_exit"}

\* Handles that are duplicated, inherited (some by spawn, all by fork) and closed.
HandleOps == {"port_create", "chan_create", "handle_close", "handle_dup", "wait",
              "proc_spawn", "proc_fork", "proc_kill", "proc_exit"}
=============================================================================

---------------------------- MODULE MCIpcServer ----------------------------
(* A service with three clients, each a process of its own. *)
EXTENDS IpcServer, TLC

CONSTANTS t0, t1, t2, t3, p0, p1, p2, p3

HomeOf == (t0 :> p0) @@ (t1 :> p1) @@ (t2 :> p2) @@ (t3 :> p3)
AllOps == {"ipc_call", "ipc_recv", "ipc_reply_recv"}
=============================================================================

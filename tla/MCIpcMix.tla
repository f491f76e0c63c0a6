----------------------------- MODULE MCIpcMix -------------------------------
(* One instance of Ipc in which the first state chooses the system calls: the   *)
(* life of processes that call each other, their names and interrupts, or their   *)
(* duplicated handles.                                                          *)
EXTENDS MCIpc

VARIABLE profile   \* which set of system calls is used

Processes == INSTANCE Ipc WITH Ops <- ProcOps
Services  == INSTANCE Ipc WITH Ops <- ServiceOps
Handles   == INSTANCE Ipc WITH Ops <- HandleOps

\* No line is raised where none is bound.
MixInit == Init /\ profile \in {"processes", "services", "handles"}
MixNext ==
  /\ profile' = profile
  /\ \/ profile = "processes" /\ Processes!Next /\ UNCHANGED irq
     \/ profile = "services" /\ Services!Next
     \/ profile = "handles" /\ Handles!Next /\ UNCHANGED irq
MixSpec == MixInit /\ [][MixNext]_<<vars, profile>>
=============================================================================

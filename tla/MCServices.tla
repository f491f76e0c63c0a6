------------------------------ MODULE MCServices ------------------------------
(* One TLC instance for the three services that only talk to the kernel: the     *)
(* disk service (DiskCache), the pipe service and the console.  They share no     *)
(* state, so the first state chooses the service and the others stay as they are. *)
EXTENDS DiskCache, Pipe, Console

CONSTANTS d0, all, b1, b2, nobody, none, bad
VARIABLE service

\* One drive with media of three sizes (none, short, long), one of them with a bad sector.
MCMedia == {<<>>, <<0, 0, 0>>, <<0, 1, 0, 0, bad>>}

AllInit ==
  /\ Init /\ PipeInit /\ ConInit
  /\ service \in {"disk", "pipe", "console"}
  /\ service # "disk" => disk = [d \in Drives |-> <<>>]
AllNext ==
  /\ UNCHANGED service
  /\ \/ service = "disk" /\ Next /\ UNCHANGED <<pipe_vars, con_vars>>
     \/ service = "pipe" /\ PipeNext /\ UNCHANGED <<vars, con_vars>>
     \/ service = "console" /\ ConNext /\ UNCHANGED <<vars, pipe_vars>>
AllSpec == AllInit /\ [][AllNext]_<<service, vars, pipe_vars, con_vars>>
=============================================================================

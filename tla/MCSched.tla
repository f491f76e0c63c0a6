------------------------------ MODULE MCSched ------------------------------
(* Small instances of the scheduler for TLC.                                *)
EXTENDS SchedRefinement, TLC

ProcSymmetry == Permutations(Procs)
=============================================================================

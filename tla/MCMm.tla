-------------------------------- MODULE MCMm --------------------------------
(* TLC instances of MmArena.                                                         *)
EXTENDS MmArena

CONSTANTS p1, p2, p3
Symmetry == Permutations(Procs)
=============================================================================

------------------------------- MODULE MCBlk -------------------------------
(* Two processes, one of them with two threads, that share the disk.         *)
EXTENDS Blk

CONSTANTS t1, t2, t3, p1, p2

HomeOf == [t \in {t1, t2, t3} |-> IF t = t3 THEN p2 ELSE p1]
=============================================================================

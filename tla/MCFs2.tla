-------------------------------- MODULE MCFs2 --------------------------------
(* TLC instances of Fs2.                                                         *)
EXTENDS Fs2

CONSTANT MaxUpdates    \* bound: how many updates are started
VARIABLE updates       \* the updates started so far

\* Names 1 and 2 differ in case only.
OneKey == [n \in {1, 2} |-> 1]
TwoKeys == [n \in {1, 2} |-> n]
CaseKeys == [n \in {1, 2, 3} |-> IF n = 3 THEN 2 ELSE 1]

SomeWrites == {<<1, 3>>}

MCInit == Init /\ updates = 0
MCNext ==
  /\ Next
  /\ updates' = updates + (IF op = Idle /\ op' # Idle THEN 1 ELSE 0)
  /\ updates' <= MaxUpdates
MCSpec == MCInit /\ [][MCNext]_<<vars, updates>>
=============================================================================

---------------------------- MODULE Subsequences ----------------------------
(* The entries of a sequence that lie in a set, in their order.               *)
EXTENDS Naturals, Sequences

\* kept[n] is what remains of the first n entries of s.
KeptOf(s, S) ==
  LET kept[n \in 0 .. Len(s)] ==
        IF n = 0 THEN <<>>
        ELSE IF s[n] \in S THEN Append(kept[n - 1], s[n]) ELSE kept[n - 1]
  IN kept

Among(s, S) == KeptOf(s, S)[Len(s)]
=============================================================================

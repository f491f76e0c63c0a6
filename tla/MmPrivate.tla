----------------------------- MODULE MmPrivate ------------------------------
(***************************************************************************)
(* What the kernel's memory promises to processes (doc/spec_Foundation.md 5,   *)
(* 9.6): every process has pages of its own.  A page starts as zeros or as the  *)
(* image's content, a fork copies them all at once, and only a write of a       *)
(* process, or of the kernel for it, changes one of its pages.                 *)
(***************************************************************************)
CONSTANTS Procs, Pages, Vals, ImageVal

VARIABLE view    \* view[p][a]: the content of page a of p as <<content>>, or Unmapped

Unmapped == <<>>
Nothing  == [a \in Pages |-> Unmapped]
Init == view = [p \in Procs |-> Nothing]

\* Text pages hold the image, the others zeros.
Start(p) ==
  /\ view[p] = Nothing
  /\ \E text, data \in SUBSET Pages :
       view' = [view EXCEPT ![p] = [a \in Pages |-> IF a \in text THEN <<ImageVal>>
                                                    ELSE IF a \in data THEN <<0>> ELSE Unmapped]]
Fork(p, c) == view[c] = Nothing /\ view' = [view EXCEPT ![c] = view[p]]
Grow(p) ==
  \E new \in SUBSET {a \in Pages : view[p][a] = Unmapped} :
    view' = [view EXCEPT ![p] = [a \in Pages |-> IF a \in new THEN <<0>> ELSE @[a]]]
Write(p, a, v) == view[p][a] # Unmapped /\ view' = [view EXCEPT ![p][a] = <<v>>]
Exit(p) == view' = [view EXCEPT ![p] = Nothing]

Next ==
  \E p \in Procs :
    \/ Start(p) \/ Grow(p) \/ Exit(p)
    \/ \E c \in Procs : Fork(p, c)
    \/ \E a \in Pages, v \in Vals : Write(p, a, v)

Spec == Init /\ [][Next]_view
=============================================================================

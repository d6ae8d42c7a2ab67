------------------------------- MODULE MCList -------------------------------
(* List.tla: two lists of at most four nodes in all. *)
EXTENDS List, TLC

CONSTANTS l1, l2, n1, n2, n3, n4, v1, v2

MCLists == {l1, l2}
MCNodes == {n1, n2, n3, n4}
MCValues == {v1, v2}

\* The addresses of nodes are interchangeable; they do not occur in the
\* sequences.
Symmetry == Permutations(MCNodes)
=============================================================================

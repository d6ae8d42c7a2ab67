----------------------------- MODULE MCEventMap -----------------------------
(* EventMap.tla with two descriptors that three files use in turn, and     *)
(* SharedBuffer.tla with two holders.                                      *)
EXTENDS SharedBuffer, TLC

CONSTANTS fd1, fd2, h1, h2

MCFds == {fd1, fd2}
MCHolders == {h1, h2}
MCSizes == {1, 2, 4}
Symmetry == Permutations(MCFds) \cup Permutations(MCHolders)
=============================================================================

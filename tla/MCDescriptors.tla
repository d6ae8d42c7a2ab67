--------------------------- MODULE MCDescriptors ---------------------------
(* Descriptors.tla with two threads and four descriptors: a poller takes   *)
(* three, so that a socket and a poller compete for the last ones.         *)
EXTENDS Descriptors, TLC

CONSTANTS t1, t2, fd1, fd2, fd3, fd4

MCThreads == {t1, t2}
MCFds == {fd1, fd2, fd3, fd4}
Symmetry == Permutations(MCThreads) \cup Permutations(MCFds)
=============================================================================

-------------------------- MODULE MCOperationQueue --------------------------
(* OperationQueue.tla on three threads that all push and pop. *)
EXTENDS OperationQueue, TLC

CONSTANTS t1, t2, t3, a, b

MCThreads == {t1, t2, t3}
MCOperations == {a, b}

Symmetry == Permutations(MCThreads) \cup Permutations(MCOperations)
=============================================================================

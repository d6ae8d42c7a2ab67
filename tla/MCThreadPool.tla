---------------------------- MODULE MCThreadPool ----------------------------
(* ThreadPool.tla on a few workers and clients. *)
EXTENDS ThreadPool, TLC

CONSTANTS w1, w2, c1, c2

OneWorker == {w1}
TwoWorkers == {w1, w2}
OneClient == {c1}
TwoClients == {c1, c2}

Symmetry == Permutations(TwoWorkers)
=============================================================================

---------------------------- MODULE MCReusePool ----------------------------
(* ReusePool.tla on two threads and three addresses. *)
EXTENDS ReusePool

CONSTANTS t1, t2, a, b, c

MCThreads == {t1, t2}
MCObjects == {a, b, c}
=============================================================================

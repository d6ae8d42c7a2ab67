------------------------- MODULE MCExecutorProvider -------------------------
(* ExecutorProvider.tla with two executors, a caller on the loop thread of *)
(* one of them, and a caller elsewhere.                                    *)
EXTENDS ExecutorProvider, TLC

CONSTANTS loop, other

MCCallers == {loop, other}
MCHome == loop :> 0
=============================================================================

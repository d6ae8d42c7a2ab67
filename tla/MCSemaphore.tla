---------------------------- MODULE MCSemaphore ----------------------------
(* Semaphore.tla on three threads, posting one or several tokens a call. *)
EXTENDS Semaphore

CONSTANTS t1, t2, t3

MCThreads == {t1, t2, t3}

=============================================================================

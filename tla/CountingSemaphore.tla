------------------------- MODULE CountingSemaphore -------------------------
(***************************************************************************)
(* What Thread/Semaphore.h promises its callers, with the mutex and the    *)
(* condition variable left out: a counter of tokens, and the set of        *)
(* threads that have called wait() and have not been given a token yet.    *)
(* Semaphore.tla is shown to implement this specification; ThreadPool.tla  *)
(* and the other modules use a semaphore through its count alone.          *)
(***************************************************************************)
EXTENDS Naturals

CONSTANTS Threads,   \* the threads that may call post() or wait()
          Amounts    \* the arguments post(num) is called with

VARIABLES count,     \* tokens posted and not yet taken
          waiting    \* threads inside wait()

vars == <<count, waiting>>

Init == count = 0 /\ waiting = {}

\* post(num) adds num tokens at once; it never blocks.
Post(num) == count' = count + num /\ UNCHANGED waiting

\* A thread enters wait().
Enter(t) ==
    /\ t \notin waiting
    /\ waiting' = waiting \cup {t}
    /\ UNCHANGED count

\* wait() returns to t: it has consumed exactly one token.
Take(t) ==
    /\ t \in waiting
    /\ count > 0
    /\ count' = count - 1
    /\ waiting' = waiting \ {t}

Next ==
    \/ \E num \in Amounts : Post(num)
    \/ \E t \in Threads : Enter(t) \/ Take(t)

Spec == Init /\ [][Next]_vars

\* While there is a token and a waiter, some waiter is let through.
FairSpec == Spec /\ WF_vars(\E t \in Threads : Take(t))
=============================================================================

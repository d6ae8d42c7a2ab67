--------------------------- MODULE OperationQueue ---------------------------
(***************************************************************************)
(* Thread/OperationQueue.h: a list under a mutex and a semaphore beside    *)
(* it.  A push adds to the list, releases the mutex and only then posts a  *)
(* token; get_operation() takes a token and only then looks at the list;   *)
(* push_exit(n) posts n tokens with nothing in the list, and a thread that *)
(* draws a token and finds the list empty is told to exit.  The list and   *)
(* the semaphore are therefore never updated together: this module keeps   *)
(* the two halves of every call apart.  The semaphore is the one of        *)
(* CountingSemaphore.tla, which Semaphore.tla implements.                  *)
(***************************************************************************)
EXTENDS Naturals, Sequences, FiniteSets

CONSTANTS Threads,     \* the threads that use the queue
          Operations,  \* what is pushed
          ExitCounts,  \* the arguments of push_exit(n)
          MaxLength,   \* bound: the length of the list
          MaxExits     \* bound: the sum of the arguments of push_exit()

ASSUME ThreadsAreFinite == IsFiniteSet(Threads)
ASSUME ExitCountsAssumption == ExitCounts \subseteq Nat

VARIABLES queue,    \* _queue
          sem,      \* the tokens of _sem
          posting,  \* threads that have pushed and not posted their token yet
          popping,  \* threads that have taken a token and not looked yet
          exits,    \* the exit tokens posted so far
          refused   \* the calls of get_operation() that returned false

vars == <<queue, sem, posting, popping, exits, refused>>

TypeOK ==
    /\ queue \in Seq(Operations)
    /\ sem \in Nat
    /\ posting \subseteq Threads
    /\ popping \subseteq Threads
    /\ exits \in Nat
    /\ refused \in Nat

Init ==
    /\ queue = <<>>
    /\ sem = 0
    /\ posting = {}
    /\ popping = {}
    /\ exits = 0
    /\ refused = 0

-----------------------------------------------------------------------------

Outside(t) == t \notin posting /\ t \notin popping

OwesNothing(t) == UNCHANGED posting

\* The list is unlocked, and the token not posted.
OwesToken(t) == posting' = posting \cup {t}

\* The first half of push_back().
PushBack(t, op) ==
    /\ Outside(t)
    /\ queue' = Append(queue, op)
    /\ OwesToken(t)
    /\ UNCHANGED <<sem, popping>>

\* The first half of push_front().
PushFront(t, op) ==
    /\ Outside(t)
    /\ queue' = <<op>> \o queue
    /\ OwesToken(t)
    /\ UNCHANGED <<sem, popping>>

\* The second half of a push: _sem.post().
Post(t) ==
    /\ t \in posting
    /\ sem' = sem + 1
    /\ posting' = posting \ {t}
    /\ UNCHANGED <<queue, popping>>

PushExit(n) ==
    /\ sem' = sem + n
    /\ UNCHANGED <<queue, posting, popping>>

TokenAssumed == TRUE

TokenLeft == sem > 0

\* The first half of get_operation(): _sem.wait() returns.
TakeToken(t) ==
    /\ Outside(t)
    /\ TokenLeft
    /\ sem' = sem - 1
    /\ popping' = popping \cup {t}
    /\ UNCHANGED <<queue, posting>>

\* The second half, with the list locked: the first operation, ...
PopFront(t) ==
    /\ t \in popping
    /\ queue # <<>>
    /\ queue' = Tail(queue)
    /\ popping' = popping \ {t}
    /\ UNCHANGED <<sem, posting>>

\* ... or nothing: get_operation() returns false.
PopNothing(t) ==
    /\ t \in popping
    /\ queue = <<>>
    /\ popping' = popping \ {t}
    /\ UNCHANGED <<queue, sem, posting>>

-----------------------------------------------------------------------------

Push(t, op) ==
    /\ Len(queue) < MaxLength
    /\ PushBack(t, op) \/ PushFront(t, op)
    /\ UNCHANGED <<exits, refused>>

CallPushExit(n) ==
    /\ exits + n <= MaxExits
    /\ PushExit(n)
    /\ exits' = exits + n
    /\ UNCHANGED refused

ReturnFalse(t) ==
    /\ PopNothing(t)
    /\ refused' = refused + 1
    /\ UNCHANGED exits

Next ==
    \/ \E t \in Threads, op \in Operations : Push(t, op)
    \/ \E n \in ExitCounts : CallPushExit(n)
    \/ \E t \in Threads :
         \/ ReturnFalse(t)
         \/ /\ Post(t) \/ TakeToken(t) \/ PopFront(t)
            /\ UNCHANGED <<exits, refused>>

Spec == Init /\ [][Next]_vars

-----------------------------------------------------------------------------
(* Properties *)

\* The tokens in the semaphore, drawn but not used, or about to be posted.
Tokens == sem + Cardinality(popping) + Cardinality(posting)

\* Tokens and operations agree although no lock covers both: every token
\* stands for one operation in the list or for one exit nobody has obeyed yet.
TokenBalance == Tokens + refused = Len(queue) + exits

\* get_operation() returns false, which ends a worker thread, no more often
\* than push_exit() asked for, however pushes and pops interleave.
ExitOnlyWhenAsked == refused <= exits

\* Once every call has completed and no token is left, the list is empty: a
\* queued operation is never left without a token that will fetch it.
NothingStranded ==
    sem = 0 /\ posting = {} /\ popping = {} => queue = <<>>
=============================================================================

----------------------------- MODULE Semaphore -----------------------------
(***************************************************************************)
(* Thread/Semaphore.h: a counter guarded by a mutex, and a condition       *)
(* variable on which wait() sleeps while the counter is zero.  A step is   *)
(* what a thread does between two points where another thread can run:     *)
(* taking the mutex, testing or changing _count under it, notifying and    *)
(* leaving the scope, going to sleep.  std::condition_variable_any gives   *)
(* the two facts used here: wait(lock) releases the mutex and joins the    *)
(* sleepers in one step, and a sleeper may also wake for no reason.        *)
(***************************************************************************)
EXTENDS Naturals, FiniteSets

CONSTANTS Threads,    \* the threads that call the semaphore
          Amounts,    \* the arguments post(num) is called with
          MaxPosted,  \* bound: the sum of the arguments of all post() calls
          NoThread    \* the value of mutex when nobody holds it

ASSUME ThreadsAssumption == IsFiniteSet(Threads) /\ NoThread \notin Threads
ASSUME AmountsAssumption == Amounts \subseteq Nat
ASSUME BoundAssumption == MaxPosted \in Nat

VARIABLES count,      \* _count
          mutex,      \* the holder of _mutex, or NoThread
          pc,         \* where each thread is
          num,        \* the argument of the thread's current post()
          posted      \* the sum of the arguments posted so far (for MaxPosted)

vars == <<count, mutex, pc, num, posted>>

PostPcs == {"postLock", "postAdd", "postNotify"}
WaitPcs == {"waitLock", "waitCheck", "waitBlock", "asleep"}
Holding == {"postAdd", "postNotify", "waitCheck", "waitBlock"}

TypeOK ==
    /\ count \in Nat
    /\ mutex \in Threads \cup {NoThread}
    /\ pc \in [Threads -> {"idle"} \cup PostPcs \cup WaitPcs]
    /\ num \in [Threads -> Amounts \cup {0}]
    /\ posted \in Nat

Asleep == {t \in Threads : pc[t] = "asleep"}

Goto(t, label) == pc' = [pc EXCEPT ![t] = label]

AcquireAnyway(t) == mutex' = t

Acquire(t) == mutex = NoThread /\ mutex' = t
Release == mutex' = NoThread

Init ==
    /\ count = 0
    /\ mutex = NoThread
    /\ pc = [t \in Threads |-> "idle"]
    /\ num = [t \in Threads |-> 0]
    /\ posted = 0

-----------------------------------------------------------------------------
(* post(num) *)

CallPost(t, n) ==
    /\ pc[t] = "idle"
    /\ posted + n <= MaxPosted
    /\ posted' = posted + n
    /\ num' = [num EXCEPT ![t] = n]
    /\ Goto(t, "postLock")
    /\ UNCHANGED <<count, mutex>>

PostLock(t) ==
    /\ pc[t] = "postLock"
    /\ Acquire(t)
    /\ Goto(t, "postAdd")
    /\ UNCHANGED <<count, num, posted>>

PostAdd(t) ==
    /\ pc[t] = "postAdd"
    /\ count' = count + num[t]
    /\ Goto(t, "postNotify")
    /\ UNCHANGED <<mutex, num, posted>>

\* notify_one() wakes one sleeper if there is one.
NotifyOne(t) ==
    IF Asleep = {}
    THEN Goto(t, "idle")
    ELSE \E s \in Asleep : pc' = [pc EXCEPT ![t] = "idle", ![s] = "waitLock"]

NotifyOnlyOne(t) == NotifyOne(t)

NotifyAll(t) ==
    pc' = [s \in Threads |-> IF s = t THEN "idle"
                             ELSE IF s \in Asleep THEN "waitLock" ELSE pc[s]]

\* The notification, and the release of the lock at the end of the scope.
PostNotify(t) ==
    /\ pc[t] = "postNotify"
    /\ IF num[t] = 1 THEN NotifyOne(t) ELSE NotifyAll(t)
    /\ Release
    /\ UNCHANGED <<count, num, posted>>

-----------------------------------------------------------------------------
(* wait() *)

CallWait(t) ==
    /\ pc[t] = "idle"
    /\ Goto(t, "waitLock")
    /\ UNCHANGED <<count, mutex, num, posted>>

\* The first lock of wait(), and the one _condition.wait() takes on waking.
WaitLock(t) ==
    /\ pc[t] = "waitLock"
    /\ Acquire(t)
    /\ Goto(t, "waitCheck")
    /\ UNCHANGED <<count, num, posted>>

NeverExhausted == FALSE

Exhausted == count = 0

\* The loop test: sleep on zero, else take a token and leave.
WaitCheck(t) ==
    /\ pc[t] = "waitCheck"
    /\ IF Exhausted
       THEN Goto(t, "waitBlock") /\ UNCHANGED <<count, mutex>>
       ELSE Goto(t, "idle") /\ Release /\ count' = count - 1
    /\ UNCHANGED <<num, posted>>

WaitBlock(t) ==
    /\ pc[t] = "waitBlock"
    /\ Release
    /\ Goto(t, "asleep")
    /\ UNCHANGED <<count, num, posted>>

SpuriousWakeup(t) ==
    /\ pc[t] = "asleep"
    /\ Goto(t, "waitLock")
    /\ UNCHANGED <<count, mutex, num, posted>>

-----------------------------------------------------------------------------

\* The steps a thread takes on its own once it has called post() or wait().
Step(t) ==
    \/ PostLock(t) \/ PostAdd(t) \/ PostNotify(t)
    \/ WaitLock(t) \/ WaitCheck(t) \/ WaitBlock(t)

Next == \E t \in Threads :
    \/ \E n \in Amounts : CallPost(t, n)
    \/ CallWait(t)
    \/ Step(t)
    \/ SpuriousWakeup(t)

Spec == Init /\ [][Next]_vars

\* A thread inside a call keeps running, and the mutex does not pass over a
\* thread for ever: without that, one that posts again and again could keep a
\* waiter out.  Nothing is assumed of the callers or of spurious wakeups.
Fairness == \A t \in Threads :
    WF_vars(Step(t)) /\ SF_vars(PostLock(t) \/ WaitLock(t))

FairSpec == Spec /\ Fairness

-----------------------------------------------------------------------------
(* Properties *)

\* Threads in wait() that are certain to test _count before they sleep.
Checking == {t \in Threads : pc[t] \in {"waitLock", "waitCheck"}}

\* Tokens whose post() has not reached its notification yet: those of the
\* post() that holds the mutex.
Unnotified == IF mutex \in Threads /\ pc[mutex] = "postNotify" THEN num[mutex] ELSE 0

\* A wakeup is never lost: while somebody sleeps, every token whose post()
\* has notified is matched by a thread that is on its way to test _count
\* (post() may wake one thread for one token, but must wake all for more).
NoLostWakeup ==
    Asleep # {} => count <= Cardinality(Checking) + Unnotified

\* wait() never returns while a post() still has the semaphore in its hands:
\* sync() keeps its Semaphore on the stack and destroys it as wait() returns,
\* so a post() that notified after unlocking would touch a dead object.
NoWaitReturnsInsidePost ==
    [][\A s, t \in Threads : pc[t] = "waitCheck" /\ pc'[t] = "idle"
                               => pc[s] \notin {"postAdd", "postNotify"}]_vars

\* The threads inside wait(), as the callers see them.
Waiting == {t \in Threads : pc[t] \in WaitPcs}

Abstract == INSTANCE CountingSemaphore WITH waiting <- Waiting

\* The mutex, the loop around the sleep and the choice between notify_one
\* and notify_all together make a counting semaphore: each wait() takes one
\* token, and a token never sits beside a sleeping waiter for ever.
ImplementsCountingSemaphore == Abstract!FairSpec
=============================================================================

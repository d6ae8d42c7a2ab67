-------------------------- MODULE SemaphoreProofs --------------------------
(***************************************************************************)
(* Theorems about Semaphore.tla, for every finite set of threads and every *)
(* set of post() arguments: typing, no lost wakeup, and that every         *)
(* behaviour of the semaphore is one of the counting semaphore.            *)
(***************************************************************************)
EXTENDS Semaphore, FiniteSetTheorems, TLAPS

(***************************************************************************)
(* The inductive invariant.  NoLostWakeup alone is not inductive: a thread *)
(* that has decided to sleep must still see no token when it does, which   *)
(* holds because it has kept the mutex, and a post() that adds tokens must *)
(* be the only one that does.                                              *)
(***************************************************************************)
MutexInv == \A t \in Threads : pc[t] \in Holding <=> mutex = t
PostingInv == \A t \in Threads : pc[t] \in PostPcs => num[t] \in Amounts
BlockInv == \A t \in Threads : pc[t] = "waitBlock" => count = 0

IInv == TypeOK /\ MutexInv /\ PostingInv /\ BlockInv /\ NoLostWakeup

USE ThreadsAssumption, AmountsAssumption, BoundAssumption
USE DEF PostPcs, WaitPcs, Holding, Goto, Acquire, Release, Exhausted

-----------------------------------------------------------------------------
(* Typing *)

\* The argument of a post() is a number of tokens.
LEMMA ArgumentIsNat == TypeOK => \A t \in Threads : num[t] \in Nat
<1> SUFFICES ASSUME TypeOK, NEW t \in Threads PROVE num[t] \in Nat
    OBVIOUS
<1>1. num[t] \in Amounts \cup {0}
      BY DEF TypeOK
<1>2. CASE num[t] \in Amounts
      BY <1>2
<1>3. CASE num[t] = 0
      BY <1>3
<1> QED BY <1>1, <1>2, <1>3

\* A state of the specification steps to a state of the right types.
LEMMA TypeStep == TypeOK /\ [Next]_vars => TypeOK'
<1> SUFFICES ASSUME TypeOK, [Next]_vars PROVE TypeOK'
    OBVIOUS
<1> USE DEF TypeOK
<1>1. CASE UNCHANGED vars
      BY <1>1 DEF vars
<1>2. CASE \E t \in Threads, n \in Amounts : CallPost(t, n)
      BY <1>2 DEF CallPost
<1>3. CASE \E t \in Threads : CallWait(t) \/ SpuriousWakeup(t)
      BY <1>3 DEF CallWait, SpuriousWakeup
<1>4. CASE \E t \in Threads : PostLock(t) \/ PostAdd(t)
      BY <1>4, ArgumentIsNat DEF PostLock, PostAdd
<1>5. CASE \E t \in Threads : PostNotify(t)
  <2> PICK t \in Threads : PostNotify(t)
      BY <1>5
  <2>1. CASE NotifyOne(t)
        BY <2>1 DEF PostNotify, NotifyOne, Asleep
  <2>2. CASE NotifyAll(t)
        BY <2>2 DEF PostNotify, NotifyAll
  <2> QED BY <2>1, <2>2 DEF PostNotify
<1>6. CASE \E t \in Threads : WaitLock(t) \/ WaitBlock(t)
      BY <1>6 DEF WaitLock, WaitBlock
<1>7. CASE \E t \in Threads : WaitCheck(t)
      BY <1>7 DEF WaitCheck
<1> QED
    BY <1>1, <1>2, <1>3, <1>4, <1>5, <1>6, <1>7 DEF Next, Step

\* Type correctness: the counter never goes below zero, for any number of
\* threads and any interleaving.
THEOREM TypeCorrect == Spec => []TypeOK
<1>1. Init => TypeOK
      BY DEF Init, TypeOK
<1> QED
    BY <1>1, TypeStep, PTL DEF Spec

-----------------------------------------------------------------------------
(* Counting the threads that will test _count *)

\* A set of threads is finite, so its cardinality is a natural number.
LEMMA ThreadSetFinite ==
    ASSUME NEW S, S \subseteq Threads
    PROVE  IsFiniteSet(S) /\ Cardinality(S) \in Nat
<1>1. S \in SUBSET Threads
      OBVIOUS
<1> QED BY <1>1, FS_Subset, FS_CardinalityType

\* One more thread that will test _count.
LEMMA OneMoreChecks ==
    ASSUME NEW S, S \subseteq Threads, NEW t \in Threads, t \notin S
    PROVE  Cardinality(S \cup {t}) = Cardinality(S) + 1
BY ThreadSetFinite, FS_AddElement

\* One thread less that will test _count.
LEMMA OneLessChecks ==
    ASSUME NEW S, S \subseteq Threads, NEW t \in S
    PROVE  Cardinality(S \ {t}) = Cardinality(S) - 1
BY ThreadSetFinite, FS_RemoveElement

\* The mutex, the arguments and the sleepers' decisions stay consistent.
LEMMA ControlStep ==
    TypeOK /\ MutexInv /\ PostingInv /\ BlockInv /\ [Next]_vars
        => MutexInv' /\ PostingInv' /\ BlockInv'
<1> SUFFICES ASSUME TypeOK, MutexInv, PostingInv, BlockInv, [Next]_vars
             PROVE  MutexInv' /\ PostingInv' /\ BlockInv'
    OBVIOUS
<1> USE DEF TypeOK, MutexInv, PostingInv, BlockInv
<1>1. CASE UNCHANGED vars
      BY <1>1 DEF vars
<1>2. CASE \E t \in Threads, n \in Amounts : CallPost(t, n)
      BY <1>2 DEF CallPost
<1>3. CASE \E t \in Threads : CallWait(t) \/ SpuriousWakeup(t)
      BY <1>3 DEF CallWait, SpuriousWakeup
<1>4. CASE \E t \in Threads : PostLock(t)
      BY <1>4 DEF PostLock
<1>5. CASE \E t \in Threads : PostAdd(t)
      BY <1>5 DEF PostAdd
<1>6. CASE \E t \in Threads : PostNotify(t)
  <2> PICK t \in Threads : PostNotify(t)
      BY <1>6
  <2>1. CASE NotifyOne(t)
        BY <2>1 DEF PostNotify, NotifyOne, Asleep
  <2>2. CASE NotifyAll(t)
        BY <2>2 DEF PostNotify, NotifyAll, Asleep
  <2> QED BY <2>1, <2>2 DEF PostNotify
<1>7. CASE \E t \in Threads : WaitLock(t)
      BY <1>7 DEF WaitLock
<1>8. CASE \E t \in Threads : WaitCheck(t)
      BY <1>8 DEF WaitCheck
<1>9. CASE \E t \in Threads : WaitBlock(t)
      BY <1>9 DEF WaitBlock
<1> QED
    BY <1>1, <1>2, <1>3, <1>4, <1>5, <1>6, <1>7, <1>8, <1>9 DEF Next, Step

\* No step loses a wakeup.
LEMMA WakeupStep == IInv /\ [Next]_vars => NoLostWakeup'
<1> SUFFICES ASSUME IInv, [Next]_vars PROVE NoLostWakeup'
    OBVIOUS
<1>0. TypeOK /\ MutexInv /\ PostingInv /\ BlockInv /\ NoLostWakeup
      BY DEF IInv
<1> USE <1>0 DEF TypeOK, MutexInv
<1>a. /\ Checking \subseteq Threads /\ Cardinality(Checking) \in Nat
      /\ Checking' \subseteq Threads /\ Cardinality(Checking') \in Nat
      BY ThreadSetFinite DEF Checking
<1>b. Unnotified \in Nat
      BY ArgumentIsNat DEF Unnotified
<1>1. CASE UNCHANGED vars
  <2>1. Checking' = Checking /\ Asleep' = Asleep /\ Unnotified' = Unnotified
        BY <1>1 DEF vars, Checking, Asleep, Unnotified
  <2> QED BY <2>1, <1>1 DEF vars, NoLostWakeup
<1>2. CASE \E t \in Threads, n \in Amounts : CallPost(t, n)
  <2>1. Checking' = Checking /\ Asleep' = Asleep /\ Unnotified' = Unnotified
        BY <1>2 DEF CallPost, Checking, Asleep, Unnotified
  <2> QED BY <2>1, <1>2 DEF CallPost, NoLostWakeup
<1>3. CASE \E t \in Threads : CallWait(t) \/ SpuriousWakeup(t)
  <2> PICK t \in Threads : CallWait(t) \/ SpuriousWakeup(t)
      BY <1>3
  <2>1. t \notin Checking /\ Checking' = Checking \cup {t}
        BY DEF CallWait, SpuriousWakeup, Checking
  <2>2. Cardinality(Checking') = Cardinality(Checking) + 1
        BY <2>1, <1>a, OneMoreChecks
  <2>3. Unnotified' = Unnotified /\ count' = count
        BY DEF CallWait, SpuriousWakeup, Unnotified
  <2>4. Asleep' \subseteq Asleep
        BY DEF CallWait, SpuriousWakeup, Asleep
  <2> QED BY <2>2, <2>3, <2>4, <1>a, <1>b DEF NoLostWakeup
<1>4. CASE \E t \in Threads : PostLock(t) \/ WaitLock(t)
  <2>1. Checking' = Checking /\ Asleep' = Asleep /\ count' = count
        BY <1>4 DEF PostLock, WaitLock, Checking, Asleep
  <2>2. Unnotified' = 0 /\ Unnotified = 0
        BY <1>4 DEF PostLock, WaitLock, Unnotified
  <2> QED BY <2>1, <2>2 DEF NoLostWakeup
<1>5. CASE \E t \in Threads : PostAdd(t)
  <2> PICK t \in Threads : PostAdd(t)
      BY <1>5
  <2>1. Checking' = Checking /\ Asleep' = Asleep
        BY DEF PostAdd, Checking, Asleep
  <2>2. mutex = t /\ Unnotified = 0 /\ Unnotified' = num[t] /\ count' = count + num[t]
        BY DEF PostAdd, Unnotified
  <2>3. num[t] \in Nat
        BY ArgumentIsNat
  <2> QED BY <2>1, <2>2, <2>3, <1>a DEF NoLostWakeup
<1>6. CASE \E t \in Threads : PostNotify(t)
  <2> PICK t \in Threads : PostNotify(t)
      BY <1>6
  <2>1. mutex = t /\ Unnotified = num[t] /\ Unnotified' = 0 /\ count' = count
        BY DEF PostNotify, Unnotified
  <2>2. CASE num[t] # 1 \/ Asleep = {}
    <3>1. Asleep' = {}
          BY <2>2 DEF PostNotify, NotifyOne, NotifyAll, Asleep
    <3> QED BY <3>1 DEF NoLostWakeup
  <2>3. CASE num[t] = 1 /\ Asleep # {}
    <3>1. PICK s \in Asleep : pc' = [pc EXCEPT ![t] = "idle", ![s] = "waitLock"]
          BY <2>3 DEF PostNotify, NotifyOne
    <3>2. s \in Threads /\ s \notin Checking /\ Checking' = Checking \cup {s}
          BY <3>1 DEF PostNotify, Checking, Asleep
    <3>3. Cardinality(Checking') = Cardinality(Checking) + 1
          BY <3>2, <1>a, OneMoreChecks
    <3> QED BY <3>3, <2>1, <2>3, <1>a DEF NoLostWakeup
  <2> QED BY <2>2, <2>3
<1>7. CASE \E t \in Threads : WaitCheck(t)
  <2> PICK t \in Threads : WaitCheck(t)
      BY <1>7
  <2>1. t \in Checking /\ Checking' = Checking \ {t} /\ Asleep' = Asleep
        BY DEF WaitCheck, Checking, Asleep
  <2>2. Cardinality(Checking') = Cardinality(Checking) - 1
        BY <2>1, <1>a, OneLessChecks
  <2>3. mutex = t /\ Unnotified = 0 /\ Unnotified' = 0
        BY DEF WaitCheck, Unnotified
  <2>4. CASE count = 0 /\ count' = 0
        BY <2>4, <2>3, <1>a DEF NoLostWakeup
  <2>5. CASE count > 0 /\ count' = count - 1
        BY <2>5, <2>1, <2>2, <2>3, <1>a DEF NoLostWakeup
  <2> QED BY <2>4, <2>5 DEF WaitCheck
<1>8. CASE \E t \in Threads : WaitBlock(t)
  <2>1. count' = 0 /\ Unnotified' = 0
        BY <1>8 DEF WaitBlock, BlockInv, Unnotified
  <2> QED BY <2>1, <1>a DEF NoLostWakeup
<1> QED
    BY <1>1, <1>2, <1>3, <1>4, <1>5, <1>6, <1>7, <1>8 DEF Next, Step

-----------------------------------------------------------------------------
(* The theorems *)

\* The invariant above holds in every reachable state.
LEMMA Invariance == Spec => []IInv
<1>1. Init => IInv
      BY DEF Init, IInv, TypeOK, MutexInv, PostingInv, BlockInv,
             NoLostWakeup, Asleep
<1>2. IInv /\ [Next]_vars => IInv'
      BY TypeStep, ControlStep, WakeupStep DEF IInv
<1> QED
    BY <1>1, <1>2, PTL DEF Spec

\* No wakeup is lost: notify_one() for post(1) and notify_all() for any other
\* amount are enough, whatever the number of threads and the amounts.
THEOREM WakeupNotLost == Spec => []NoLostWakeup
<1>1. IInv => NoLostWakeup
      BY DEF IInv
<1> QED BY <1>1, Invariance, PTL

\* The mutex is one: two threads are never in a critical section together.
THEOREM MutualExclusion == Spec => [](\A s, t \in Threads :
                              pc[s] \in Holding /\ pc[t] \in Holding => s = t)
<1>1. IInv => \A s, t \in Threads : pc[s] \in Holding /\ pc[t] \in Holding => s = t
      BY DEF IInv, MutexInv
<1> QED BY <1>1, Invariance, PTL

\* A wait() returns only while no post() has the semaphore in its hands: both
\* hold the mutex as they do, so that destroying the semaphore after wait()
\* is safe for any number of threads.
THEOREM WaitOutlastsPost == Spec => NoWaitReturnsInsidePost
<1>1. IInv /\ [Next]_vars
        => [\A s, t \in Threads : pc[t] = "waitCheck" /\ pc'[t] = "idle"
              => pc[s] \notin {"postAdd", "postNotify"}]_vars
  <2> SUFFICES ASSUME IInv, NEW s \in Threads, NEW t \in Threads,
                      pc[t] = "waitCheck", pc[s] \in {"postAdd", "postNotify"}
               PROVE  FALSE
      OBVIOUS
  <2>1. mutex = t /\ mutex = s
        BY DEF IInv, MutexInv
  <2> QED BY <2>1
<1> QED BY <1>1, Invariance, PTL DEF Spec, NoWaitReturnsInsidePost

\* Every behaviour of the semaphore is one of the counting semaphore: a step
\* posts an argument's worth of tokens, enters wait(), takes one token, or
\* changes nothing a caller can see.
THEOREM Refinement == Spec => Abstract!Spec
<1> USE DEF Abstract!Init, Abstract!Next, Abstract!vars, Waiting
<1>1. Init => Abstract!Init
      BY DEF Init
<1>2. IInv /\ [Next]_vars => [Abstract!Next]_(Abstract!vars)
  <2> SUFFICES ASSUME IInv, [Next]_vars
               PROVE  [Abstract!Next]_(Abstract!vars)
      OBVIOUS
  <2> USE DEF IInv, TypeOK
  <2>1. CASE UNCHANGED vars
        BY <2>1 DEF vars
  <2>2. CASE \E t \in Threads, n \in Amounts : CallPost(t, n)
        BY <2>2 DEF CallPost
  <2>3. CASE \E t \in Threads : CallWait(t)
    <3> PICK t \in Threads : CallWait(t)
        BY <2>3
    <3>1. Abstract!Enter(t)
          BY DEF CallWait, Abstract!Enter
    <3> QED BY <3>1
  <2>4. CASE \E t \in Threads : PostAdd(t)
    <3> PICK t \in Threads : PostAdd(t)
        BY <2>4
    <3>1. num[t] \in Amounts
          BY DEF PostAdd, PostingInv
    <3>2. Abstract!Post(num[t])
          BY DEF PostAdd, Abstract!Post
    <3> QED BY <3>1, <3>2
  <2>5. CASE \E t \in Threads : PostLock(t) \/ WaitLock(t) \/ WaitBlock(t) \/ SpuriousWakeup(t)
        BY <2>5 DEF PostLock, WaitLock, WaitBlock, SpuriousWakeup
  <2>6. CASE \E t \in Threads : PostNotify(t)
    <3> PICK t \in Threads : PostNotify(t)
        BY <2>6
    <3>1. CASE NotifyOne(t)
      <4>1. \A s \in Threads : pc[s] \in WaitPcs <=> pc'[s] \in WaitPcs
            BY <3>1 DEF PostNotify, NotifyOne, Asleep
      <4> QED BY <4>1 DEF PostNotify
    <3>2. CASE NotifyAll(t)
          BY <3>2 DEF PostNotify, NotifyAll, Asleep
    <3> QED BY <3>1, <3>2 DEF PostNotify
  <2>7. CASE \E t \in Threads : WaitCheck(t)
    <3> PICK t \in Threads : WaitCheck(t)
        BY <2>7
    <3>1. CASE count = 0
          BY <3>1 DEF WaitCheck
    <3>2. CASE count > 0
      <4>1. Abstract!Take(t)
            BY <3>2 DEF WaitCheck, Abstract!Take
      <4> QED BY <4>1
    <3> QED BY <3>1, <3>2 DEF WaitCheck
  <2> QED
      BY <2>1, <2>2, <2>3, <2>4, <2>5, <2>6, <2>7 DEF Next, Step
<1> QED
    BY <1>1, <1>2, Invariance, PTL DEF Spec, Abstract!Spec
=============================================================================

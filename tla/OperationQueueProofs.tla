----------------------- MODULE OperationQueueProofs -----------------------
(***************************************************************************)
(* Theorems about OperationQueue.tla, for any finite set of threads, any   *)
(* operations and any bounds.                                              *)
(***************************************************************************)
EXTENDS OperationQueue, FiniteSetTheorems, SequenceTheorems, TLAPS

USE ThreadsAreFinite, ExitCountsAssumption DEF OwesToken, TokenLeft

\* What the three list operations do to the list and to its length.
LEMMA ListLengths ==
    ASSUME NEW op \in Operations, NEW q \in Seq(Operations)
    PROVE  /\ Append(q, op) \in Seq(Operations) /\ Len(Append(q, op)) = Len(q) + 1
           /\ <<op>> \o q \in Seq(Operations) /\ Len(<<op>> \o q) = Len(q) + 1
           /\ q # <<>> => Tail(q) \in Seq(Operations) /\ Len(Tail(q)) = Len(q) - 1
           /\ Len(q) \in Nat /\ (q # <<>> => Len(q) > 0)
<1>1. <<op>> \in Seq(Operations) /\ Len(<<op>>) = 1
      OBVIOUS
<1> QED BY <1>1, ConcatProperties, AppendProperties, HeadTailProperties, EmptySeq, LenProperties

\* Adding a thread to, or removing one from, a set of threads.
LEMMA ThreadSets ==
    ASSUME NEW S, S \subseteq Threads
    PROVE  /\ Cardinality(S) \in Nat
           /\ \A t \in Threads \ S : Cardinality(S \cup {t}) = Cardinality(S) + 1
           /\ \A t \in S : Cardinality(S \ {t}) = Cardinality(S) - 1
<1>1. IsFiniteSet(S)
  <2>1. S \in SUBSET Threads
        OBVIOUS
  <2> QED BY <2>1, FS_Subset
<1> QED BY <1>1, FS_CardinalityType, FS_AddElement, FS_RemoveElement

\* A step keeps the types.
LEMMA TypeStep == TypeOK /\ [Next]_vars => TypeOK'
<1> SUFFICES ASSUME TypeOK, [Next]_vars PROVE TypeOK'
    OBVIOUS
<1> USE DEF TypeOK, Outside
<1>1. CASE UNCHANGED vars
      BY <1>1 DEF vars
<1>2. ASSUME NEW t \in Threads, NEW op \in Operations, Push(t, op) PROVE TypeOK'
      BY <1>2, ListLengths DEF Push, PushBack, PushFront
<1>3. ASSUME NEW n \in ExitCounts, CallPushExit(n) PROVE TypeOK'
  <2>1. n \in Nat
        OBVIOUS
  <2> QED BY <1>3, <2>1 DEF CallPushExit, PushExit
<1>4. ASSUME NEW t \in Threads, ReturnFalse(t) PROVE TypeOK'
      BY <1>4 DEF ReturnFalse, PopNothing
<1>5. ASSUME NEW t \in Threads, Post(t) /\ UNCHANGED <<exits, refused>> PROVE TypeOK'
      BY <1>5 DEF Post
<1>6. ASSUME NEW t \in Threads, TakeToken(t) /\ UNCHANGED <<exits, refused>> PROVE TypeOK'
      BY <1>6 DEF TakeToken
<1>7. ASSUME NEW t \in Threads, PopFront(t) /\ UNCHANGED <<exits, refused>> PROVE TypeOK'
  <2>1. Tail(queue) \in Seq(Operations)
        BY <1>7, HeadTailProperties DEF PopFront
  <2> QED BY <1>7, <2>1 DEF PopFront
<1> QED BY <1>1, <1>2, <1>3, <1>4, <1>5, <1>6, <1>7 DEF Next

\* A step keeps the balance of tokens and operations.
LEMMA BalanceStep == TypeOK /\ TokenBalance /\ [Next]_vars => TokenBalance'
<1> SUFFICES ASSUME TypeOK, TokenBalance, [Next]_vars PROVE TokenBalance'
    OBVIOUS
<1>0. /\ Cardinality(popping) \in Nat /\ Cardinality(posting) \in Nat
      /\ Len(queue) \in Nat /\ sem \in Nat /\ exits \in Nat /\ refused \in Nat
      BY ThreadSets, LenProperties DEF TypeOK
<1>a. Tokens \in Nat /\ Tokens + refused = Len(queue) + exits
      BY <1>0 DEF Tokens, TokenBalance
<1>1. CASE UNCHANGED vars
      BY <1>1 DEF vars, TokenBalance, Tokens
<1>2. ASSUME NEW t \in Threads, NEW op \in Operations, Push(t, op)
      PROVE  TokenBalance'
  <2>1. t \in Threads \ posting /\ posting' = posting \cup {t}
        BY <1>2 DEF Push, PushBack, PushFront, Outside
  <2>2. Cardinality(posting') = Cardinality(posting) + 1
        BY <2>1, ThreadSets DEF TypeOK
  <2>3. Len(queue') = Len(queue) + 1
        BY <1>2, ListLengths DEF Push, PushBack, PushFront, TypeOK
  <2>4. sem' = sem /\ popping' = popping /\ exits' = exits /\ refused' = refused
        BY <1>2 DEF Push, PushBack, PushFront
  <2>5. Tokens' = Tokens + 1
        BY <2>2, <2>4, <1>0 DEF Tokens
  <2> QED BY <2>3, <2>4, <2>5, <1>0, <1>a DEF TokenBalance
<1>3. ASSUME NEW n \in ExitCounts, CallPushExit(n) PROVE TokenBalance'
  <2>1. n \in Nat
        OBVIOUS
  <2>2. Tokens' = Tokens + n
        BY <1>3, <2>1, <1>0 DEF CallPushExit, PushExit, Tokens
  <2> QED BY <1>3, <2>1, <2>2, <1>0, <1>a DEF CallPushExit, PushExit, TokenBalance
<1>4. ASSUME NEW t \in Threads, ReturnFalse(t) PROVE TokenBalance'
  <2>1. Cardinality(popping') = Cardinality(popping) - 1
        BY <1>4, ThreadSets DEF ReturnFalse, PopNothing, TypeOK
  <2>2. Tokens' = Tokens - 1
        BY <1>4, <2>1, <1>0 DEF ReturnFalse, PopNothing, Tokens
  <2> QED BY <1>4, <2>2, <1>0, <1>a DEF ReturnFalse, PopNothing, TokenBalance
<1>5. ASSUME NEW t \in Threads, Post(t) /\ UNCHANGED <<exits, refused>>
      PROVE  TokenBalance'
  <2>1. Cardinality(posting') = Cardinality(posting) - 1
        BY <1>5, ThreadSets DEF Post, TypeOK
  <2>2. Tokens' = Tokens
        BY <1>5, <2>1, <1>0 DEF Post, Tokens
  <2> QED BY <1>5, <2>2 DEF Post, TokenBalance
<1>6. ASSUME NEW t \in Threads, TakeToken(t) /\ UNCHANGED <<exits, refused>>
      PROVE  TokenBalance'
  <2>1. Cardinality(popping') = Cardinality(popping) + 1
        BY <1>6, ThreadSets DEF TakeToken, TypeOK, Outside
  <2>2. Tokens' = Tokens
        BY <1>6, <2>1, <1>0 DEF TakeToken, Tokens
  <2> QED BY <1>6, <2>2 DEF TakeToken, TokenBalance
<1>7. ASSUME NEW t \in Threads, PopFront(t) /\ UNCHANGED <<exits, refused>>
      PROVE  TokenBalance'
  <2>1. Cardinality(popping') = Cardinality(popping) - 1
        BY <1>7, ThreadSets DEF PopFront, TypeOK
  <2>2. Len(queue') = Len(queue) - 1
        BY <1>7, HeadTailProperties DEF PopFront, TypeOK
  <2>3. sem' = sem /\ posting' = posting /\ exits' = exits /\ refused' = refused
        BY <1>7 DEF PopFront
  <2>4. Tokens' = Tokens - 1
        BY <2>1, <2>3, <1>0 DEF Tokens
  <2> QED BY <2>2, <2>3, <2>4, <1>0, <1>a DEF TokenBalance
<1> QED BY <1>1, <1>2, <1>3, <1>4, <1>5, <1>6, <1>7 DEF Next

\* A thread is told to exit only while an exit token is unanswered: the token
\* it holds is in the balance, and the list is empty.
LEMMA ExitStep ==
    TypeOK /\ TokenBalance /\ ExitOnlyWhenAsked /\ [Next]_vars => ExitOnlyWhenAsked'
<1> SUFFICES ASSUME TypeOK, TokenBalance, ExitOnlyWhenAsked, [Next]_vars
             PROVE  ExitOnlyWhenAsked'
    OBVIOUS
<1> USE DEF TypeOK, ExitOnlyWhenAsked
<1>1. CASE UNCHANGED <<exits, refused>>
      BY <1>1
<1>2. ASSUME NEW n \in ExitCounts, CallPushExit(n) PROVE ExitOnlyWhenAsked'
  <2>1. n \in Nat
        OBVIOUS
  <2> QED BY <1>2, <2>1 DEF CallPushExit
<1>3. ASSUME NEW t \in Threads, ReturnFalse(t) PROVE ExitOnlyWhenAsked'
  <2>1. t \in popping /\ queue = <<>> /\ refused' = refused + 1 /\ exits' = exits
        BY <1>3 DEF ReturnFalse, PopNothing
  <2>2. Cardinality(popping) \in Nat /\ Cardinality(posting) \in Nat
        BY ThreadSets
  <2>3. Cardinality(popping) > 0
    <3>1. Cardinality(popping \ {t}) = Cardinality(popping) - 1
          BY <2>1, ThreadSets
    <3>2. Cardinality(popping \ {t}) \in Nat
          BY ThreadSets
    <3> QED BY <3>1, <3>2, <2>2
  <2>4. Len(queue) = 0
        BY <2>1
  <2> QED BY <2>1, <2>2, <2>3, <2>4 DEF TokenBalance, Tokens
<1> QED BY <1>1, <1>2, <1>3 DEF Next, vars, Push

\* The invariants of the queue hold in every reachable state.
LEMMA Invariance == Spec => [](TypeOK /\ TokenBalance /\ ExitOnlyWhenAsked)
<1>1. Init => TypeOK /\ TokenBalance /\ ExitOnlyWhenAsked
  <2> SUFFICES ASSUME Init PROVE TypeOK /\ TokenBalance /\ ExitOnlyWhenAsked
      OBVIOUS
  <2>1. Cardinality({}) = 0
        BY FS_EmptySet
  <2> QED BY <2>1 DEF Init, TypeOK, TokenBalance, Tokens, ExitOnlyWhenAsked
<1> QED BY <1>1, TypeStep, BalanceStep, ExitStep, PTL DEF Spec

\* Type correctness, for all threads, operations and bounds.
THEOREM TypeCorrect == Spec => []TypeOK
BY Invariance, PTL

\* Tokens and operations balance, whatever the interleaving.
THEOREM TokensBalance == Spec => []TokenBalance
BY Invariance, PTL

\* No worker is told to exit that was not asked to.
THEOREM ExitsAreAsked == Spec => []ExitOnlyWhenAsked
BY Invariance, PTL

\* No operation is left in the list once the tokens are gone.
THEOREM NoneStranded == Spec => []NothingStranded
<1>1. TypeOK /\ TokenBalance /\ ExitOnlyWhenAsked => NothingStranded
  <2> SUFFICES ASSUME TypeOK, TokenBalance, ExitOnlyWhenAsked,
                      sem = 0, posting = {}, popping = {}
               PROVE  queue = <<>>
      BY DEF NothingStranded
  <2>1. Cardinality({}) = 0
        BY FS_EmptySet
  <2>2. refused = Len(queue) + exits
        BY <2>1, LenProperties DEF TokenBalance, Tokens, TypeOK
  <2>3. Len(queue) = 0
        BY <2>2, LenProperties DEF ExitOnlyWhenAsked, TypeOK
  <2> QED BY <2>3, EmptySeq DEF TypeOK
<1> QED BY <1>1, Invariance, PTL
=============================================================================

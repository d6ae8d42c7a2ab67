-------------------------- MODULE ThreadPoolProofs --------------------------
(***************************************************************************)
(* Theorems about ThreadPool.tla, for any finite sets of workers and       *)
(* clients and any number of threads, starts and operations: typing, that  *)
(* the pool uses its queue as OperationQueue.tla allows, that no worker    *)
(* leaves before the destructor asks, that the destructor loses no         *)
(* operation, and that the pool implements the executor protocol.          *)
(***************************************************************************)
EXTENDS ThreadPool, FiniteSetTheorems, SequenceTheorems, TLAPS

Started == {w \in Workers : pc[w] # "none"}
Queued(q) == {q[i] : i \in DOMAIN q}

(***************************************************************************)
(* The inductive invariant, in two layers.  BaseInv is about the owner,    *)
(* the workers and the length of the queue; with it the steps of the pool  *)
(* are steps of the queue, whose own theorem bounds the workers that have  *)
(* left.  PlacedInv and OutInv then follow each operation to its end.      *)
(***************************************************************************)

\* start() counts its threads down, and the map of the thread group holds
\* exactly the threads that exist whenever start() is not inside createThread().
OwnerInv ==
    /\ owner \in {"creating", "registering"} => toCreate > 0
    /\ owner \notin {"registering", "destroyed"} => registered = Started
    /\ owner = "destroyed" => Started \subseteq Exited

RunInv ==
    /\ \A w \in popping : pc[w] = "fetching"
    /\ \A w \in Workers : pc[w] \in {"fetched", "running"} => cur[w] \in Operations

LengthInv == Len(queue) <= nOps

BaseInv == TypeOK /\ OwnerInv /\ RunInv /\ LengthInv

\* Every operation is over, cancelled, in the queue, or in a worker's hands.
PlacedInv ==
    \A o \in 1..nOps :
        \/ o \in finished \/ o \notin alive \/ o \in Queued(queue)
        \/ \E w \in Workers : pc[w] \in {"fetched", "running"} /\ cur[w] = o

\* The last worker to leave has seen the queue empty.
OutInv == Exited # {} /\ Started \subseteq Exited => queue = <<>>

USE ThreadsAssumption, BoundsAssumption, OpsMaySyncAssumption
USE DEF Threads, Operations, queueVars, ownerVars, opVars,
        ThreadsToCreate, ExitTokens, ToJoin, Locks, Caught,
        Queue!OwesToken, Queue!TokenLeft

-----------------------------------------------------------------------------
(* Lists *)

\* What adding to and taking from a list does to its length and its elements.
LEMMA ListFacts ==
    ASSUME NEW S, NEW q \in Seq(S), NEW o \in S
    PROVE  /\ Append(q, o) \in Seq(S) /\ Len(Append(q, o)) = Len(q) + 1
           /\ Queued(q) \cup {o} \subseteq Queued(Append(q, o))
           /\ <<o>> \o q \in Seq(S) /\ Len(<<o>> \o q) = Len(q) + 1
           /\ Queued(q) \cup {o} \subseteq Queued(<<o>> \o q)
<1> DEFINE b == Append(q, o)
           f == <<o>> \o q
<1>1. Len(q) \in Nat /\ DOMAIN q = 1..Len(q)
      BY LenProperties
<1>2. b \in Seq(S) /\ Len(b) = Len(q) + 1 /\ DOMAIN b = 1..(Len(q) + 1)
      BY AppendProperties, LenProperties
<1>3. b[Len(q) + 1] = o /\ \A i \in 1..Len(q) : b[i] = q[i]
      BY AppendProperties
<1>4. Queued(q) \cup {o} \subseteq Queued(b)
  <2> SUFFICES ASSUME NEW x \in Queued(q) \cup {o} PROVE x \in Queued(b)
      OBVIOUS
  <2>1. CASE x = o
    <3>1. Len(q) + 1 \in DOMAIN b
          BY <1>1, <1>2
    <3> QED BY <2>1, <3>1, <1>3 DEF Queued
  <2>2. CASE x \in Queued(q)
    <3>1. PICK i \in DOMAIN q : x = q[i]
          BY <2>2 DEF Queued
    <3>2. i \in DOMAIN b /\ b[i] = x
          BY <3>1, <1>1, <1>2, <1>3
    <3> QED BY <3>2 DEF Queued
  <2> QED BY <2>1, <2>2
<1>5. <<o>> \in Seq(S) /\ Len(<<o>>) = 1 /\ <<o>>[1] = o
      OBVIOUS
<1>6. f \in Seq(S) /\ Len(f) = Len(q) + 1 /\ DOMAIN f = 1..(Len(q) + 1)
      BY <1>5, <1>1, ConcatProperties, LenProperties
<1>7. f[1] = o /\ \A i \in 1..Len(q) : f[i + 1] = q[i]
      BY <1>5, <1>1, ConcatProperties
<1>8. Queued(q) \cup {o} \subseteq Queued(f)
  <2> SUFFICES ASSUME NEW x \in Queued(q) \cup {o} PROVE x \in Queued(f)
      OBVIOUS
  <2>1. CASE x = o
    <3>1. 1 \in DOMAIN f
          BY <1>1, <1>6
    <3> QED BY <2>1, <3>1, <1>7 DEF Queued
  <2>2. CASE x \in Queued(q)
    <3>1. PICK i \in DOMAIN q : x = q[i]
          BY <2>2 DEF Queued
    <3>2. i + 1 \in DOMAIN f /\ f[i + 1] = x
          BY <3>1, <1>1, <1>6, <1>7
    <3> QED BY <3>2 DEF Queued
  <2> QED BY <2>1, <2>2
<1> QED BY <1>2, <1>4, <1>6, <1>8

LEMMA TailFacts ==
    ASSUME NEW S, NEW q \in Seq(S), q # <<>>
    PROVE  /\ Tail(q) \in Seq(S) /\ Len(Tail(q)) = Len(q) - 1 /\ Head(q) \in S
           /\ Queued(q) \subseteq Queued(Tail(q)) \cup {Head(q)}
<1>1. Len(q) \in Nat \ {0} /\ DOMAIN q = 1..Len(q)
      BY LenProperties, EmptySeq
<1>2. Tail(q) \in Seq(S) /\ Len(Tail(q)) = Len(q) - 1 /\ Head(q) \in S
      BY HeadTailProperties
<1>3. \A i \in 1..Len(Tail(q)) : Tail(q)[i] = q[i + 1]
      BY HeadTailProperties
<1>4. DOMAIN Tail(q) = 1..(Len(q) - 1)
      BY <1>2, LenProperties
<1>5. ASSUME NEW x \in Queued(q) PROVE x \in Queued(Tail(q)) \cup {Head(q)}
  <2>1. PICK i \in DOMAIN q : x = q[i]
        BY DEF Queued
  <2>2. CASE i = 1
        BY <2>1, <2>2
  <2>3. CASE i # 1
    <3>1. i - 1 \in DOMAIN Tail(q) /\ Tail(q)[i - 1] = x
          BY <2>1, <2>3, <1>1, <1>2, <1>3, <1>4
    <3> QED BY <3>1 DEF Queued
  <2> QED BY <2>2, <2>3
<1> QED BY <1>2, <1>5

-----------------------------------------------------------------------------
(* The owner, the workers and the length of the queue *)

\* What Enqueue() changes, whichever end it uses.
LEMMA EnqueueFacts ==
    ASSUME TypeOK, LengthInv, NEW t \in Threads, NEW first \in BOOLEAN, Enqueue(t, first)
    PROVE  /\ nOps + 1 \in Operations /\ nOps' = nOps + 1
           /\ alive' = alive \cup {nOps + 1} /\ finished' = finished
           /\ queue' \in Seq(Operations) /\ Len(queue') = Len(queue) + 1
           /\ Len(queue) < MaxOps
           /\ Queued(queue) \cup {nOps + 1} \subseteq Queued(queue')
           /\ posting' = posting \cup {t} /\ popping' = popping /\ sem' = sem
           /\ Queue!PushBack(t, nOps + 1) \/ Queue!PushFront(t, nOps + 1)
<1>1. nOps + 1 \in Operations /\ queue \in Seq(Operations) /\ Len(queue) \in Nat
      BY LenProperties DEF TypeOK, Enqueue
<1>2. Len(queue) < MaxOps
      BY <1>1 DEF TypeOK, Enqueue, LengthInv
<1>3. /\ nOps' = nOps + 1 /\ alive' = alive \cup {nOps + 1} /\ finished' = finished
      BY <1>1 DEF TypeOK, Enqueue
<1>4. \/ Queue!PushBack(t, nOps + 1)
      \/ Queue!PushFront(t, nOps + 1)
      BY DEF Enqueue
<1>5. /\ posting' = posting \cup {t} /\ popping' = popping /\ sem' = sem
      /\ queue' = Append(queue, nOps + 1) \/ queue' = <<nOps + 1>> \o queue
      BY <1>4 DEF Queue!PushBack, Queue!PushFront
<1>6. /\ queue' \in Seq(Operations) /\ Len(queue') = Len(queue) + 1
      /\ Queued(queue) \cup {nOps + 1} \subseteq Queued(queue')
  <2> DEFINE o == nOps + 1
  <2>1. o \in Operations /\ queue \in Seq(Operations)
        BY <1>1
  <2>2. CASE queue' = Append(queue, o)
        BY <2>1, <2>2, ListFacts
  <2>3. CASE queue' = <<o>> \o queue
        BY <2>1, <2>3, ListFacts
  <2> QED BY <1>5, <2>2, <2>3
<1> QED BY <1>1, <1>2, <1>3, <1>4, <1>5, <1>6

LEMMA BaseInit == Init => BaseInv
<1> SUFFICES ASSUME Init PROVE BaseInv
    OBVIOUS
<1>1. TypeOK
      BY DEF Init, TypeOK
<1>2. OwnerInv
      BY DEF Init, OwnerInv, Started, Exited
<1>3. RunInv /\ LengthInv
      BY DEF Init, RunInv, LengthInv
<1> QED BY <1>1, <1>2, <1>3 DEF BaseInv

\* The steps of the owner.
LEMMA BaseOwner ==
    ASSUME BaseInv,
           \/ Start \/ RegisterThread \/ CreateFails \/ Shutdown \/ Joined
           \/ \E w \in Workers : CreateThread(w)
    PROVE  BaseInv'
<1> USE DEF BaseInv, TypeOK, OwnerInv, RunInv, LengthInv, Started, Exited
<1>1. CASE Start
  <2>1. TypeOK'
        BY <1>1 DEF Start
  <2>2. OwnerInv'
        BY <1>1 DEF Start
  <2>3. RunInv' /\ LengthInv'
        BY <1>1 DEF Start
  <2> QED BY <2>1, <2>2, <2>3
<1>2. CASE RegisterThread
  <2>1. TypeOK'
        BY <1>2 DEF RegisterThread
  <2>2. OwnerInv'
        BY <1>2 DEF RegisterThread
  <2>3. RunInv' /\ LengthInv'
        BY <1>2 DEF RegisterThread
  <2> QED BY <2>1, <2>2, <2>3
<1>3. CASE Shutdown
  <2> USE <1>3 DEF Shutdown, Queue!PushExit
  <2>1. TypeOK'
        OBVIOUS
  <2>2. OwnerInv'
        OBVIOUS
  <2>3. RunInv' /\ LengthInv'
        OBVIOUS
  <2> QED BY <2>1, <2>2, <2>3
<1>4. CASE Joined
  <2>1. TypeOK'
        BY <1>4 DEF Joined
  <2>2. OwnerInv'
        BY <1>4 DEF Joined
  <2>3. RunInv' /\ LengthInv'
        BY <1>4 DEF Joined
  <2> QED BY <2>1, <2>2, <2>3
<1>5. ASSUME NEW w \in Workers, CreateThread(w) PROVE BaseInv'
  <2>1. TypeOK'
        BY <1>5 DEF CreateThread
  <2>2. OwnerInv'
        BY <1>5 DEF CreateThread
  <2>3. RunInv' /\ LengthInv'
        BY <1>5 DEF CreateThread
  <2> QED BY <2>1, <2>2, <2>3
<1>6. CASE CreateFails
  <2>1. TypeOK'
        BY <1>6 DEF CreateFails
  <2>2. OwnerInv'
        BY <1>6 DEF CreateFails
  <2>3. RunInv' /\ LengthInv'
        BY <1>6 DEF CreateFails
  <2> QED BY <2>1, <2>2, <2>3
<1> QED BY <1>1, <1>2, <1>3, <1>4, <1>5, <1>6

\* The steps that queue an operation, or run it in place.
LEMMA BaseSubmit ==
    ASSUME BaseInv, NEW t \in Threads, NEW first \in BOOLEAN,
           Enqueue(t, first) \/ RunInPlace,
           waitFor' \in [Threads -> 0..MaxOps],
           pc' = pc, cur' = cur, UNCHANGED ownerVars
    PROVE  BaseInv'
<1> USE DEF BaseInv
<1>1. OwnerInv'
      BY DEF OwnerInv, Started, Exited
<1>2. CASE Enqueue(t, first)
  <2>1. TypeOK'
    <3>1. posting' \subseteq Threads /\ popping' \subseteq Workers /\ sem' \in Nat
          BY <1>2, EnqueueFacts DEF TypeOK
    <3>2. nOps + 1 \in 1..MaxOps /\ nOps' = nOps + 1
          BY <1>2, EnqueueFacts
    <3>3. alive' = alive \cup {nOps + 1} /\ finished' = finished
          BY <1>2, EnqueueFacts
    <3>4. alive' \subseteq Operations /\ finished' \subseteq Operations /\ nOps' \in 0..MaxOps
          BY <3>2, <3>3 DEF TypeOK
    <3>5. queue' \in Seq(Operations)
          BY <1>2, EnqueueFacts
    <3> QED BY <3>1, <3>4, <3>5 DEF TypeOK
  <2>2. RunInv' /\ LengthInv'
        BY <1>2, EnqueueFacts, LenProperties DEF TypeOK, RunInv, LengthInv
  <2> QED BY <1>1, <2>1, <2>2
<1>3. CASE RunInPlace
  <2>1. TypeOK'
        BY <1>3 DEF TypeOK, RunInPlace
  <2>2. RunInv' /\ LengthInv'
        BY <1>3, LenProperties DEF TypeOK, RunInv, LengthInv, RunInPlace
  <2> QED BY <1>1, <2>1, <2>2
<1> QED BY <1>2, <1>3

\* The steps of a worker in run().
LEMMA BaseWorker ==
    ASSUME BaseInv, NEW w \in Workers,
           \/ AcquireToken(w) \/ GetOperation(w) \/ GetNothing(w)
           \/ Invoke(w) \/ EndOperation(w)
    PROVE  BaseInv'
<1> USE DEF BaseInv
<1>1. owner' = owner /\ registered' = registered /\ toCreate' = toCreate /\ starts' = starts
      BY DEF AcquireToken, GetOperation, GetNothing, Invoke, EndOperation
<1>2. CASE AcquireToken(w)
  <2> USE <1>2 DEF AcquireToken, Queue!TakeToken
  <2>1. TypeOK'
        BY DEF TypeOK
  <2>2. OwnerInv' /\ RunInv' /\ LengthInv'
        BY DEF OwnerInv, RunInv, LengthInv, Started, Exited
  <2> QED BY <2>1, <2>2
<1>3. CASE GetOperation(w)
  <2>1. /\ w \in popping /\ queue # <<>> /\ queue' = Tail(queue)
        /\ popping' = popping \ {w} /\ sem' = sem /\ posting' = posting
        BY <1>3 DEF GetOperation, Queue!PopFront
  <2>2. /\ queue \in Seq(Operations) /\ queue' \in Seq(Operations)
        /\ Len(queue') = Len(queue) - 1 /\ Head(queue) \in Operations /\ Len(queue) \in Nat
        BY <2>1, TailFacts, LenProperties DEF TypeOK
  <2>3. pc[w] = "fetching"
        BY <2>1 DEF RunInv
  <2>4. TypeOK'
        BY <1>3, <2>1, <2>2 DEF TypeOK, GetOperation
  <2>5. OwnerInv'
        BY <1>3, <1>1, <2>3 DEF TypeOK, OwnerInv, Started, Exited, GetOperation
  <2>6. RunInv'
        BY <1>3, <2>1, <2>2 DEF TypeOK, RunInv, GetOperation
  <2>7. LengthInv'
        BY <1>3, <2>2 DEF TypeOK, LengthInv, GetOperation
  <2> QED BY <2>4, <2>5, <2>6, <2>7
<1>4. CASE GetNothing(w)
  <2>1. /\ w \in popping /\ queue' = queue
        /\ popping' = popping \ {w} /\ sem' = sem /\ posting' = posting
        BY <1>4 DEF GetNothing, Queue!PopNothing
  <2>2. pc[w] = "fetching"
        BY <2>1 DEF RunInv
  <2>3. TypeOK'
        BY <1>4, <2>1 DEF TypeOK, GetNothing
  <2>4. OwnerInv'
        BY <1>4, <1>1, <2>2 DEF TypeOK, OwnerInv, Started, Exited, GetNothing
  <2>5. RunInv' /\ LengthInv'
        BY <1>4, <2>1 DEF TypeOK, RunInv, LengthInv, GetNothing
  <2> QED BY <2>3, <2>4, <2>5
<1>5. CASE Invoke(w)
  <2>1. TypeOK'
    <3>1. cur' \in [Workers -> 0..MaxOps]
      <4>1. 0 \in 0..MaxOps
            OBVIOUS
      <4> QED BY <1>5, <4>1 DEF TypeOK, Invoke
    <3> QED BY <1>5, <3>1 DEF TypeOK, Invoke
  <2>2. OwnerInv'
        BY <1>5, <1>1 DEF TypeOK, OwnerInv, Started, Exited, Invoke
  <2>3. RunInv' /\ LengthInv'
        BY <1>5 DEF TypeOK, RunInv, LengthInv, Invoke
  <2> QED BY <2>1, <2>2, <2>3
<1>6. CASE EndOperation(w)
  <2>1. pc[w] = "running" /\ cur[w] \in Operations
        BY <1>6 DEF EndOperation, CanStep, RunInv
  <2>2. TypeOK'
    <3>1. cur' \in [Workers -> 0..MaxOps]
      <4>1. 0 \in 0..MaxOps
            OBVIOUS
      <4> QED BY <1>6, <4>1 DEF TypeOK, EndOperation
    <3> QED BY <1>6, <2>1, <3>1 DEF TypeOK, EndOperation
  <2>3. OwnerInv'
        BY <1>6, <1>1, <2>1 DEF TypeOK, OwnerInv, Started, Exited, EndOperation
  <2>4. RunInv' /\ LengthInv'
        BY <1>6, <2>1 DEF TypeOK, RunInv, LengthInv, EndOperation
  <2> QED BY <2>2, <2>3, <2>4
<1> QED BY <1>2, <1>3, <1>4, <1>5, <1>6

LEMMA BaseStep == BaseInv /\ [Next]_vars => BaseInv'
<1> SUFFICES ASSUME BaseInv, [Next]_vars PROVE BaseInv'
    OBVIOUS
<1>1. CASE UNCHANGED vars \/ Terminated
      BY <1>1 DEF vars, Terminated, BaseInv, TypeOK, OwnerInv, RunInv, LengthInv, Started, Exited
<1>2. CASE \/ Start \/ RegisterThread \/ CreateFails \/ Shutdown \/ Joined
           \/ \E w \in Workers : CreateThread(w)
      BY <1>2, BaseOwner
<1>3. CASE \E w \in Workers :
             \/ AcquireToken(w) \/ GetOperation(w) \/ GetNothing(w)
             \/ Invoke(w) \/ EndOperation(w)
      BY <1>3, BaseWorker
<1>4. ASSUME NEW c \in Clients, NEW first \in BOOLEAN, Async(c, first) \/ Sync(c, first)
      PROVE  BaseInv'
  <2>1. Enqueue(c, first) /\ pc' = pc /\ cur' = cur /\ UNCHANGED ownerVars
        BY <1>4 DEF Async, Sync
  <2>2. nOps + 1 \in Operations
        BY <2>1, EnqueueFacts DEF BaseInv
  <2>3. waitFor' \in [Threads -> 0..MaxOps]
        BY <1>4, <2>2 DEF Async, Sync, BaseInv, TypeOK
  <2> QED BY <2>1, <2>3, BaseSubmit
<1>5. ASSUME NEW w \in Workers, Operate(w) PROVE BaseInv'
  <2> PICK first \in BOOLEAN :
         (\E maySync \in BOOLEAN : OpAsync(w, first, maySync)) \/ OpSync(w, first)
      BY <1>5 DEF Operate
  <2>1. /\ Enqueue(w, first) \/ RunInPlace
        /\ pc' = pc /\ cur' = cur /\ UNCHANGED ownerVars
        BY DEF OpAsync, OpSync
  <2>2. nOps + 1 \in Operations
        BY <2>1 DEF BaseInv, TypeOK, Enqueue, RunInPlace
  <2>3. waitFor' \in [Threads -> 0..MaxOps]
    <3>1. CASE waitFor' = waitFor
          BY <3>1 DEF BaseInv, TypeOK
    <3>2. CASE waitFor' = [waitFor EXCEPT ![w] = nOps + 1]
          BY <2>2, <3>2 DEF BaseInv, TypeOK
    <3> QED BY <3>1, <3>2 DEF OpAsync, OpSync
  <2> QED BY <2>1, <2>3, BaseSubmit
<1>6. ASSUME NEW t \in Threads, Post(t) \/ SyncReturn(t) PROVE BaseInv'
  <2>1. TypeOK'
    <3>1. CASE Post(t)
          BY <3>1 DEF Post, Queue!Post, BaseInv, TypeOK
    <3>2. CASE SyncReturn(t)
      <4>1. 0 \in 0..MaxOps
            OBVIOUS
      <4>2. waitFor' \in [Threads -> 0..MaxOps]
            BY <3>2, <4>1 DEF SyncReturn, BaseInv, TypeOK
      <4> QED BY <3>2, <4>2 DEF SyncReturn, BaseInv, TypeOK
    <3> QED BY <1>6, <3>1, <3>2
  <2>2. OwnerInv' /\ RunInv' /\ LengthInv'
        BY <1>6 DEF Post, Queue!Post, SyncReturn, BaseInv, OwnerInv, RunInv, LengthInv, Started, Exited
  <2> QED BY <2>1, <2>2 DEF BaseInv
<1>7. ASSUME NEW o \in Operations, Cancel(o) PROVE BaseInv'
      BY <1>7 DEF Cancel, BaseInv, TypeOK, OwnerInv, RunInv, LengthInv, Started, Exited
<1> QED BY <1>1, <1>2, <1>3, <1>4, <1>5, <1>6, <1>7 DEF Next

LEMMA BaseInvariance == Spec => []BaseInv
BY BaseInit, BaseStep, PTL DEF Spec

\* Type correctness, for any workers, clients and bounds.
THEOREM TypeCorrect == Spec => []TypeOK
<1>1. BaseInv => TypeOK
      BY DEF BaseInv
<1> QED BY <1>1, BaseInvariance, PTL

-----------------------------------------------------------------------------
(* The pool uses its queue as OperationQueue.tla allows *)

\* A step that leaves the owner's phase and the exited workers alone.
LEMMA SameExits ==
    ASSUME Destroying' = Destroying, Exited' = Exited
    PROVE  ExitsPosted' = ExitsPosted /\ Cardinality(Exited)' = Cardinality(Exited)
BY DEF Destroying, ExitsPosted

\* A push by any thread is a push of the queue.
LEMMA PushRefines ==
    ASSUME BaseInv, NEW t \in Threads, NEW first \in BOOLEAN, Enqueue(t, first),
           pc' = pc, owner' = owner
    PROVE  Queue!Next
<1>1. ExitsPosted' = ExitsPosted /\ Cardinality(Exited)' = Cardinality(Exited)
      BY DEF ExitsPosted, Exited
<1>2. Queue!Push(t, nOps + 1)
      BY <1>1, EnqueueFacts DEF Queue!Push, BaseInv
<1>3. nOps + 1 \in Operations
      BY EnqueueFacts DEF BaseInv
<1> QED BY <1>2, <1>3 DEF Queue!Next

\* A step of a worker that does not touch the queue or leave run().
LEMMA QueueStutter ==
    ASSUME UNCHANGED queueVars, Destroying' = Destroying, Exited' = Exited
    PROVE  UNCHANGED Queue!vars
<1>1. ExitsPosted' = ExitsPosted /\ Cardinality(Exited)' = Cardinality(Exited)
      BY SameExits
<1> QED BY <1>1 DEF Queue!vars

LEMMA QueueInit == Init => Queue!Init
<1> SUFFICES ASSUME Init PROVE Queue!Init
    OBVIOUS
<1>1. Exited = {} /\ Cardinality({}) = 0
      BY FS_EmptySet DEF Init, Exited
<1>2. ExitsPosted = 0
      BY DEF Init, ExitsPosted
<1> QED BY <1>1, <1>2 DEF Init, Queue!Init

LEMMA QueueStep == BaseInv /\ [Next]_vars => [Queue!Next]_(Queue!vars)
<1> SUFFICES ASSUME BaseInv, [Next]_vars PROVE Queue!Next \/ UNCHANGED Queue!vars
    OBVIOUS
<1> USE DEF Destroying
<1>1. CASE UNCHANGED vars \/ Terminated
      BY <1>1, QueueStutter DEF vars, Terminated, Exited
<1>2. CASE Start \/ RegisterThread \/ CreateFails \/ Joined
      BY <1>2, QueueStutter DEF Start, RegisterThread, CreateFails, Joined, Exited
<1>3. ASSUME NEW w \in Workers, CreateThread(w) PROVE UNCHANGED Queue!vars
  <2>1. Exited' = Exited
        BY <1>3 DEF CreateThread, Exited, BaseInv, TypeOK
  <2> QED BY <1>3, <2>1, QueueStutter DEF CreateThread
<1>4. CASE Shutdown
  <2>1. Queue!PushExit(NumThreads) /\ Cardinality(Exited)' = Cardinality(Exited)
        BY <1>4 DEF Shutdown, Exited
  <2>2. ExitsPosted = 0 /\ ExitsPosted' = NumThreads
        BY <1>4 DEF Shutdown, ExitsPosted
  <2>3. Queue!CallPushExit(NumThreads)
        BY <2>1, <2>2 DEF Queue!CallPushExit
  <2> QED BY <2>3 DEF Queue!Next
<1>5. ASSUME NEW w \in Workers, AcquireToken(w) PROVE Queue!Next
  <2>1. ExitsPosted' = ExitsPosted /\ Cardinality(Exited)' = Cardinality(Exited)
        BY <1>5, SameExits DEF AcquireToken, Exited
  <2> QED BY <1>5, <2>1 DEF AcquireToken, Queue!Next
<1>6. ASSUME NEW w \in Workers, GetOperation(w) PROVE Queue!Next
  <2>1. pc[w] = "fetching"
        BY <1>6 DEF GetOperation, Queue!PopFront, BaseInv, RunInv
  <2>2. Exited' = Exited
        BY <1>6, <2>1 DEF GetOperation, Exited, BaseInv, TypeOK
  <2>3. ExitsPosted' = ExitsPosted /\ Cardinality(Exited)' = Cardinality(Exited)
        BY <1>6, <2>2, SameExits DEF GetOperation
  <2> QED BY <1>6, <2>3 DEF GetOperation, Queue!Next
<1>7. ASSUME NEW w \in Workers, GetNothing(w) PROVE Queue!Next
  <2>1. pc[w] = "fetching"
        BY <1>7 DEF GetNothing, Queue!PopNothing, BaseInv, RunInv
  <2>2. Exited' = Exited \cup {w} /\ w \notin Exited
        BY <1>7, <2>1 DEF GetNothing, Exited, BaseInv, TypeOK
  <2>3. IsFiniteSet(Exited)
    <3>1. Exited \in SUBSET Workers
          BY DEF Exited
    <3> QED BY <3>1, FS_Subset
  <2>4. Cardinality(Exited)' = Cardinality(Exited) + 1
        BY <2>2, <2>3, FS_AddElement
  <2>5. ExitsPosted' = ExitsPosted
        BY <1>7 DEF GetNothing, ExitsPosted
  <2>6. Queue!ReturnFalse(w)
        BY <1>7, <2>4, <2>5 DEF GetNothing, Queue!ReturnFalse
  <2> QED BY <2>6 DEF Queue!Next
<1>8. ASSUME NEW w \in Workers, Invoke(w) \/ EndOperation(w) PROVE UNCHANGED Queue!vars
  <2>1. Exited' = Exited
        BY <1>8 DEF Invoke, EndOperation, CanStep, Exited, BaseInv, TypeOK
  <2> QED BY <1>8, <2>1, QueueStutter DEF Invoke, EndOperation
<1>9. ASSUME NEW c \in Clients, NEW first \in BOOLEAN, Async(c, first) \/ Sync(c, first)
      PROVE  Queue!Next
      BY <1>9, PushRefines DEF Async, Sync
<1>10. ASSUME NEW w \in Workers, Operate(w) PROVE Queue!Next \/ UNCHANGED Queue!vars
  <2> PICK first \in BOOLEAN :
         (\E maySync \in BOOLEAN : OpAsync(w, first, maySync)) \/ OpSync(w, first)
      BY <1>10 DEF Operate
  <2>1. CASE Enqueue(w, first)
        BY <2>1, PushRefines DEF OpAsync, OpSync
  <2>2. CASE RunInPlace
        BY <2>2, QueueStutter DEF OpAsync, OpSync, RunInPlace, Exited
  <2> QED BY <2>1, <2>2 DEF OpAsync, OpSync
<1>11. ASSUME NEW t \in Threads, Post(t) PROVE Queue!Next
  <2>1. ExitsPosted' = ExitsPosted /\ Cardinality(Exited)' = Cardinality(Exited)
        BY <1>11, SameExits DEF Post, Exited
  <2> QED BY <1>11, <2>1 DEF Post, Queue!Next
<1>12. ASSUME NEW t \in Threads, SyncReturn(t) PROVE UNCHANGED Queue!vars
       BY <1>12, QueueStutter DEF SyncReturn, Exited
<1>13. ASSUME NEW o \in Operations, Cancel(o) PROVE UNCHANGED Queue!vars
       BY <1>13, QueueStutter DEF Cancel, Exited
<1> QED BY <1>1, <1>2, <1>3, <1>4, <1>5, <1>6, <1>7, <1>8, <1>9, <1>10, <1>11, <1>12, <1>13
        DEF Next

\* Every step of the pool is one the queue allows, or leaves it alone.
THEOREM UsesQueueAsSpecified == Spec => ImplementsQueue
<1>1. Init => Queue!Init
      BY QueueInit
<1>2. BaseInv /\ [Next]_vars => [Queue!Next]_(Queue!vars)
      BY QueueStep
<1> QED BY <1>1, <1>2, BaseInvariance, PTL DEF Spec, ImplementsQueue, Queue!Spec

-----------------------------------------------------------------------------
(* No worker leaves before the destructor asks *)

QueueFacts == INSTANCE OperationQueueProofs WITH
    ExitCounts <- {NumThreads}, MaxLength <- MaxOps, MaxExits <- NumThreads,
    exits <- ExitsPosted, refused <- Cardinality(Exited)

\* The theorems of the queue, read for the queue of the pool.
LEMMA SameQueue ==
    /\ Queue!Init => QueueFacts!Init
    /\ [Queue!Next]_(Queue!vars) => [QueueFacts!Next]_(QueueFacts!vars)
    /\ QueueFacts!ExitOnlyWhenAsked => Queue!ExitOnlyWhenAsked
<1>1. Queue!Init => QueueFacts!Init
      BY DEF Queue!Init, QueueFacts!Init
<1>2. UNCHANGED Queue!vars => UNCHANGED QueueFacts!vars
      BY DEF Queue!vars, QueueFacts!vars
<1>3. QueueFacts!ExitOnlyWhenAsked => Queue!ExitOnlyWhenAsked
      BY DEF Queue!ExitOnlyWhenAsked, QueueFacts!ExitOnlyWhenAsked
<1>4. Queue!Next => QueueFacts!Next
      BY DEF Queue!Next, Queue!Push, Queue!PushBack, Queue!PushFront, Queue!CallPushExit,
             Queue!PushExit, Queue!ReturnFalse, Queue!PopNothing, Queue!Post,
             Queue!TakeToken, Queue!PopFront, Queue!Outside,
             QueueFacts!Next, QueueFacts!Push, QueueFacts!PushBack, QueueFacts!PushFront,
             QueueFacts!CallPushExit, QueueFacts!PushExit, QueueFacts!ReturnFalse,
             QueueFacts!PopNothing, QueueFacts!Post, QueueFacts!TakeToken,
             QueueFacts!PopFront, QueueFacts!Outside,
             QueueFacts!OwesToken, QueueFacts!TokenLeft
<1> QED BY <1>1, <1>2, <1>3, <1>4

\* No more workers have left than exit tokens were posted.
LEMMA ExitsBounded == Spec => [](Cardinality(Exited) <= ExitsPosted)
<1>1. QueueFacts!IsFiniteSet(Threads)
  <2>1. IsFiniteSet(Threads)
        BY FS_Union
  <2> QED BY <2>1 DEF IsFiniteSet, QueueFacts!IsFiniteSet
<1>2. {NumThreads} \subseteq Nat
      OBVIOUS
<1>3. QueueFacts!Spec => []QueueFacts!ExitOnlyWhenAsked
      BY <1>1, <1>2, QueueFacts!ExitsAreAsked
<1>4. QueueFacts!ExitOnlyWhenAsked => Cardinality(Exited) <= ExitsPosted
      BY DEF QueueFacts!ExitOnlyWhenAsked
<1> QED BY <1>3, <1>4, SameQueue, UsesQueueAsSpecified, PTL
        DEF ImplementsQueue, Queue!Spec, QueueFacts!Spec

\* No worker leaves run() before the destructor has posted the exit tokens.
THEOREM ExitsAfterShutdown == Spec => []ExitOnlyAfterShutdown
<1>1. Cardinality(Exited) <= ExitsPosted => ExitOnlyAfterShutdown
  <2> SUFFICES ASSUME Cardinality(Exited) <= ExitsPosted, ~Destroying
               PROVE  Exited = {}
      BY DEF ExitOnlyAfterShutdown
  <2>1. IsFiniteSet(Exited)
    <3>1. Exited \in SUBSET Workers
          BY DEF Exited
    <3> QED BY <3>1, FS_Subset
  <2>2. Cardinality(Exited) \in Nat /\ Cardinality(Exited) <= 0
        BY <2>1, FS_CardinalityType DEF Destroying, ExitsPosted
  <2> QED BY <2>1, <2>2, FS_EmptySet
<1> QED BY <1>1, ExitsBounded, PTL

-----------------------------------------------------------------------------
(* The destructor loses no operation *)

InHand(o) == \E w \in Workers : pc[w] \in {"fetched", "running"} /\ cur[w] = o

\* A step keeps hold of every operation: where it is taken from one place, it
\* is put into another.
LEMMA PlacedStep == BaseInv /\ PlacedInv /\ [Next]_vars => PlacedInv'
<1> SUFFICES ASSUME BaseInv, PlacedInv, [Next]_vars, NEW o \in (1..nOps)',
                    o \notin finished', o \in alive'
             PROVE  (o \in Queued(queue) \/ InHand(o))'
    BY DEF PlacedInv, InHand
<1> USE DEF BaseInv
<1>1. CASE /\ UNCHANGED <<queue, opVars>>
           /\ \A w \in Workers : pc[w] \in {"fetched", "running"} => pc'[w] = pc[w] /\ cur'[w] = cur[w]
      BY <1>1 DEF PlacedInv, InHand
<1>2. CASE UNCHANGED vars \/ Terminated
      BY <1>1, <1>2 DEF vars, Terminated
<1>3. CASE Start \/ RegisterThread \/ CreateFails \/ Shutdown \/ Joined
      BY <1>1, <1>3 DEF Start, RegisterThread, CreateFails, Shutdown, Queue!PushExit, Joined
<1>4. ASSUME NEW w \in Workers, CreateThread(w) PROVE (o \in Queued(queue) \/ InHand(o))'
      BY <1>1, <1>4 DEF CreateThread, TypeOK
<1>5. ASSUME NEW w \in Workers, AcquireToken(w) PROVE (o \in Queued(queue) \/ InHand(o))'
      BY <1>1, <1>5 DEF AcquireToken, Queue!TakeToken
<1>6. ASSUME NEW w \in Workers, GetOperation(w) PROVE (o \in Queued(queue) \/ InHand(o))'
  <2>1. pc[w] = "fetching" /\ queue # <<>> /\ queue' = Tail(queue)
        BY <1>6 DEF GetOperation, Queue!PopFront, RunInv
  <2>2. Queued(queue) \subseteq Queued(queue') \cup {Head(queue)}
        BY <2>1, TailFacts DEF TypeOK
  <2>3. pc'[w] = "fetched" /\ cur'[w] = Head(queue)
        BY <1>6 DEF GetOperation, TypeOK
  <2>4. o \in Queued(queue) \/ InHand(o)
        BY <1>6 DEF GetOperation, PlacedInv, InHand
  <2>5. CASE o \in Queued(queue)
        BY <2>2, <2>3, <2>5 DEF InHand
  <2>6. CASE InHand(o)
    <3>1. PICK v \in Workers : pc[v] \in {"fetched", "running"} /\ cur[v] = o
          BY <2>6 DEF InHand
    <3>2. v # w /\ pc'[v] = pc[v] /\ cur'[v] = cur[v]
          BY <1>6, <2>1, <3>1 DEF GetOperation, TypeOK
    <3> QED BY <3>1, <3>2 DEF InHand
  <2> QED BY <2>4, <2>5, <2>6
<1>7. ASSUME NEW w \in Workers, GetNothing(w) PROVE (o \in Queued(queue) \/ InHand(o))'
  <2>1. pc[w] = "fetching" /\ queue' = queue
        BY <1>7 DEF GetNothing, Queue!PopNothing, RunInv
  <2> QED BY <1>1, <1>7, <2>1 DEF GetNothing, TypeOK
<1>8. ASSUME NEW w \in Workers, Invoke(w) PROVE (o \in Queued(queue) \/ InHand(o))'
  <2>1. o \in Queued(queue) \/ InHand(o)
        BY <1>8 DEF Invoke, PlacedInv, InHand
  <2>2. CASE o \in Queued(queue)
        BY <1>8, <2>2 DEF Invoke
  <2>3. CASE InHand(o)
    <3>1. PICK v \in Workers : pc[v] \in {"fetched", "running"} /\ cur[v] = o
          BY <2>3 DEF InHand
    <3>2. cur[v] \in alive
          BY <1>8, <3>1 DEF Invoke
    <3>3. pc'[v] \in {"fetched", "running"} /\ cur'[v] = cur[v]
          BY <1>8, <3>1, <3>2 DEF Invoke, TypeOK
    <3> QED BY <3>1, <3>3 DEF InHand
  <2> QED BY <2>1, <2>2, <2>3
<1>9. ASSUME NEW w \in Workers, EndOperation(w) PROVE (o \in Queued(queue) \/ InHand(o))'
  <2>1. o \in Queued(queue) \/ InHand(o)
        BY <1>9 DEF EndOperation, PlacedInv, InHand
  <2>2. CASE o \in Queued(queue)
        BY <1>9, <2>2 DEF EndOperation
  <2>3. CASE InHand(o)
    <3>1. PICK v \in Workers : pc[v] \in {"fetched", "running"} /\ cur[v] = o
          BY <2>3 DEF InHand
    <3>2. v # w
          BY <1>9, <3>1 DEF EndOperation
    <3>3. pc'[v] = pc[v] /\ cur'[v] = cur[v]
          BY <1>9, <3>2 DEF EndOperation, TypeOK
    <3> QED BY <3>1, <3>3 DEF InHand
  <2> QED BY <2>1, <2>2, <2>3
<1>10. ASSUME NEW t \in Threads, NEW first \in BOOLEAN, Enqueue(t, first) \/ RunInPlace,
              pc' = pc, cur' = cur
       PROVE  (o \in Queued(queue) \/ InHand(o))'
  <2>1. CASE RunInPlace
    <3>1. o \in 1..nOps /\ o \notin finished /\ o \in alive /\ queue' = queue
          BY <2>1 DEF RunInPlace, TypeOK
    <3> QED BY <1>10, <3>1 DEF PlacedInv, InHand
  <2>2. CASE Enqueue(t, first)
    <3>1. Queued(queue) \cup {nOps + 1} \subseteq Queued(queue') /\ nOps' = nOps + 1
          BY <2>2, EnqueueFacts
    <3>2. alive' = alive \cup {nOps + 1} /\ finished' = finished
          BY <2>2, EnqueueFacts
    <3>3. CASE o = nOps + 1
          BY <3>1, <3>3
    <3>4. CASE o # nOps + 1
      <4>1. o \in 1..nOps /\ o \notin finished /\ o \in alive
            BY <3>1, <3>2, <3>4 DEF TypeOK
      <4> QED BY <1>10, <3>1, <4>1 DEF PlacedInv, InHand
    <3> QED BY <3>3, <3>4
  <2> QED BY <1>10, <2>1, <2>2
<1>11. ASSUME NEW c \in Clients, NEW first \in BOOLEAN, Async(c, first) \/ Sync(c, first)
       PROVE  (o \in Queued(queue) \/ InHand(o))'
       BY <1>10, <1>11 DEF Async, Sync
<1>12. ASSUME NEW w \in Workers, Operate(w) PROVE (o \in Queued(queue) \/ InHand(o))'
       BY <1>10, <1>12 DEF Operate, OpAsync, OpSync
<1>13. ASSUME NEW t \in Threads, Post(t) \/ SyncReturn(t)
       PROVE  (o \in Queued(queue) \/ InHand(o))'
       BY <1>1, <1>13 DEF Post, Queue!Post, SyncReturn
<1>14. ASSUME NEW p \in Operations, Cancel(p) PROVE (o \in Queued(queue) \/ InHand(o))'
       BY <1>14 DEF Cancel, PlacedInv, InHand
<1> QED BY <1>2, <1>3, <1>4, <1>5, <1>6, <1>7, <1>8, <1>9, <1>11, <1>12, <1>13, <1>14
        DEF Next

\* A step that pushes is one of a thread that is not past its last operation.
LEMMA OutStep == BaseInv /\ ExitOnlyAfterShutdown /\ OutInv /\ [Next]_vars => OutInv'
<1> SUFFICES ASSUME BaseInv, ExitOnlyAfterShutdown, OutInv, [Next]_vars,
                    (Exited # {})', (Started \subseteq Exited)'
             PROVE  queue' = <<>>
    BY DEF OutInv
<1> USE DEF BaseInv, Started, Exited
<1>1. CASE queue' = queue /\ pc' = pc
      BY <1>1 DEF OutInv
<1>2. CASE \/ Terminated \/ UNCHANGED vars \/ Start \/ RegisterThread \/ CreateFails \/ Shutdown \/ Joined
           \/ \E t \in Threads : Post(t) \/ SyncReturn(t)
           \/ \E o \in Operations : Cancel(o)
           \/ \E w \in Workers : AcquireToken(w)
      BY <1>1, <1>2 DEF Terminated, vars, Start, RegisterThread, CreateFails, Shutdown, Queue!PushExit, Joined,
             Post, Queue!Post, SyncReturn, Cancel, AcquireToken, Queue!TakeToken
<1>3. ASSUME NEW w \in Workers, CreateThread(w) PROVE queue' = <<>>
  <2>1. pc'[w] = "fetching"
        BY <1>3 DEF CreateThread, TypeOK
  <2> QED BY <2>1
<1>4. ASSUME NEW w \in Workers, GetOperation(w) \/ Invoke(w) \/ EndOperation(w)
      PROVE  queue' = <<>>
  <2>1. pc'[w] \in {"fetching", "fetched", "running"}
        BY <1>4 DEF GetOperation, Invoke, EndOperation, TypeOK
  <2> QED BY <2>1
<1>5. ASSUME NEW w \in Workers, GetNothing(w) PROVE queue' = <<>>
      BY <1>5 DEF GetNothing, Queue!PopNothing
<1>6. ASSUME NEW c \in Clients, NEW first \in BOOLEAN, Async(c, first) \/ Sync(c, first)
      PROVE  queue' = <<>>
  <2>1. Exited' = Exited /\ ~Destroying
        BY <1>6 DEF Async, Sync, ClientCanCall
  <2> QED BY <2>1 DEF ExitOnlyAfterShutdown
<1>7. ASSUME NEW w \in Workers, Operate(w) PROVE queue' = <<>>
  <2>1. pc[w] = "running" /\ pc' = pc
        BY <1>7 DEF Operate, OpAsync, OpSync, CanStep
  <2>2. w \in Started' /\ w \notin Exited'
        BY <2>1
  <2> QED BY <2>2
<1> QED BY <1>2, <1>3, <1>4, <1>5, <1>6, <1>7 DEF Next

\* When the destructor is over, every operation that was ever submitted to a
\* pool with a thread has run or was cancelled, though start() may have failed.
THEOREM NothingLost == Spec => []NoOperationLost
<1>1. Init => PlacedInv /\ OutInv
      BY DEF Init, PlacedInv, OutInv
<1>2. BaseInv /\ PlacedInv /\ OutInv => NoOperationLost
  <2> SUFFICES ASSUME BaseInv, PlacedInv, OutInv,
                      owner = "destroyed", Exited # {}, NEW o \in 1..nOps
               PROVE  o \in finished \/ o \notin alive
      BY DEF NoOperationLost
  <2>1. Started \subseteq Exited
        BY DEF BaseInv, OwnerInv
  <2>2. Queued(queue) = {}
        BY <2>1 DEF OutInv, Queued
  <2>3. \A w \in Workers : pc[w] \notin {"fetched", "running"}
        BY <2>1 DEF Started, Exited
  <2> QED BY <2>2, <2>3 DEF PlacedInv
<1> QED BY <1>1, <1>2, BaseInvariance, ExitsAfterShutdown, PlacedStep, OutStep, PTL DEF Spec

\* A thread of the pool is recognised as one whenever start() is not at work,
\* so that its sync() does not wait.
THEOREM NoWaitForOneself == Spec => NoSelfWait
<1>1. BaseInv /\ [Next]_vars =>
        [\A w \in Workers : waitFor[w] = 0 /\ waitFor'[w] # 0 => InStart]_vars
  <2> SUFFICES ASSUME BaseInv, Next, NEW w \in Workers, waitFor[w] = 0, waitFor'[w] # 0, ~InStart
               PROVE  FALSE
      OBVIOUS
  <2>1. \E first \in BOOLEAN : OpSync(w, first)
    <3>1. waitFor' # waitFor
          OBVIOUS
    <3>2. ~\E c \in Clients, first \in BOOLEAN : Async(c, first) \/ Sync(c, first)
      <4> SUFFICES ASSUME NEW c \in Clients, NEW first \in BOOLEAN, Sync(c, first) PROVE FALSE
          BY <3>1 DEF Async
      <4>1. waitFor'[w] = waitFor[w]
            BY DEF Sync, BaseInv, TypeOK
      <4> QED BY <4>1
    <3>3. ~\E t \in Threads : SyncReturn(t)
      <4> SUFFICES ASSUME NEW t \in Threads, SyncReturn(t) PROVE FALSE
          OBVIOUS
      <4> QED BY DEF SyncReturn, BaseInv, TypeOK
    <3>4. PICK v \in Workers, first \in BOOLEAN : OpSync(v, first)
          BY <3>1, <3>2, <3>3 DEF Next, Start, RegisterThread, CreateFails, Shutdown, Joined, Terminated, vars,
             CreateThread, AcquireToken, GetOperation, GetNothing, Invoke, EndOperation, Operate,
             OpAsync, Post, Cancel
    <3>5. v = w
          BY <3>4 DEF OpSync, BaseInv, TypeOK
    <3> QED BY <3>4, <3>5
  <2>2. w \in registered
    <3>1. pc[w] = "running"
          BY <2>1 DEF OpSync, CanStep
    <3>2. w \in Started /\ w \notin Exited
          BY <3>1 DEF Started, Exited
    <3> QED BY <3>2 DEF BaseInv, OwnerInv, InStart
  <2> QED BY <2>1, <2>2 DEF OpSync, IsThisThreadIn
<1> QED BY <1>1, BaseInvariance, PTL DEF Spec, NoSelfWait

-----------------------------------------------------------------------------
(* The pool is an executor *)

Holds(w) == pc[w] \in {"fetched", "running"}

NoRepeats(q) == \A i, j \in DOMAIN q : q[i] = q[j] => i = j

\* What PlacedInv leaves open: an operation that is not over is in one place
\* only, so that no two workers run it, and one that is over is in none.
OnceInv ==
    /\ alive \subseteq 1..nOps /\ finished \subseteq 1..nOps
    /\ Queued(queue) \subseteq (1..nOps) \ finished
    /\ NoRepeats(queue)
    /\ \A w \in Workers : Holds(w) => cur[w] \in (1..nOps) \ (finished \cup Queued(queue))
    /\ \A v, w \in Workers : Holds(v) /\ Holds(w) /\ cur[v] = cur[w] => v = w

\* Adding a new element to a list, at either end, adds nothing else.
LEMMA NewElement ==
    ASSUME NEW S, NEW q \in Seq(S), NEW o \in S, o \notin Queued(q), NoRepeats(q),
           NEW p, p = Append(q, o) \/ p = <<o>> \o q
    PROVE  Queued(p) = Queued(q) \cup {o} /\ NoRepeats(p)
<1>1. Len(q) \in Nat /\ DOMAIN q = 1..Len(q)
      BY LenProperties
<1>2. CASE p = Append(q, o)
  <2>1. /\ p \in Seq(S) /\ Len(p) = Len(q) + 1 /\ p[Len(q) + 1] = o
        /\ \A i \in 1..Len(q) : p[i] = q[i]
        BY <1>2, AppendProperties
  <2>2. DOMAIN p = 1..(Len(q) + 1)
        BY <2>1, LenProperties
  <2>3. \A i \in DOMAIN p : i = Len(q) + 1 \/ (i \in DOMAIN q /\ p[i] = q[i])
        BY <1>1, <2>1, <2>2
  <2>4. Queued(p) = Queued(q) \cup {o}
        BY <1>1, <1>2, <2>1, <2>3, ListFacts DEF Queued
  <2>5. NoRepeats(p)
        BY <2>1, <2>3 DEF Queued, NoRepeats
  <2> QED BY <2>4, <2>5
<1>3. CASE p = <<o>> \o q
  <2>1. <<o>> \in Seq(S) /\ Len(<<o>>) = 1 /\ <<o>>[1] = o
        OBVIOUS
  <2>2. /\ p \in Seq(S) /\ Len(p) = Len(q) + 1 /\ p[1] = o
        /\ \A i \in 1..Len(q) : p[i + 1] = q[i]
        BY <1>1, <1>3, <2>1, ConcatProperties
  <2>3. DOMAIN p = 1..(Len(q) + 1)
        BY <2>2, LenProperties
  <2>4. \A i \in DOMAIN p : i = 1 \/ (i - 1 \in DOMAIN q /\ p[i] = q[i - 1])
        BY <1>1, <2>2, <2>3
  <2>5. Queued(p) = Queued(q) \cup {o}
    <3>1. Queued(q) \cup {o} \subseteq Queued(p)
          BY <1>3, ListFacts
    <3>2. ASSUME NEW i \in DOMAIN p PROVE p[i] \in Queued(q) \cup {o}
      <4>1. CASE i = 1
            BY <2>2, <4>1
      <4>2. CASE i # 1
            BY <2>4, <4>2 DEF Queued
      <4> QED BY <4>1, <4>2
    <3> QED BY <3>1, <3>2 DEF Queued
  <2>6. ASSUME NEW i \in DOMAIN p, NEW j \in DOMAIN p, p[i] = p[j] PROVE i = j
    <3>1. (i = 1) <=> (j = 1)
          BY <2>2, <2>4, <2>6 DEF Queued
    <3>2. CASE i # 1 /\ j # 1
      <4>1. i - 1 = j - 1
            BY <2>4, <2>6, <3>2 DEF NoRepeats
      <4> QED BY <2>3, <4>1
    <3> QED BY <3>1, <3>2
  <2> QED BY <2>5, <2>6 DEF NoRepeats
<1> QED BY <1>2, <1>3

\* Taking the first element of a list takes it out of the list.
LEMMA TakenElement ==
    ASSUME NEW S, NEW q \in Seq(S), q # <<>>, NoRepeats(q)
    PROVE  /\ Queued(Tail(q)) = Queued(q) \ {Head(q)} /\ Head(q) \in Queued(q)
           /\ NoRepeats(Tail(q))
<1>1. Len(q) \in Nat \ {0} /\ DOMAIN q = 1..Len(q) /\ Head(q) = q[1] /\ 1 \in DOMAIN q
      BY LenProperties, EmptySeq, HeadTailProperties
<1> DEFINE p == Tail(q)
<1>2. DOMAIN p = 1..(Len(q) - 1) /\ \A i \in 1..(Len(q) - 1) : p[i] = q[i + 1]
  <2>1. p \in Seq(S) /\ Len(p) = Len(q) - 1 /\ \A i \in 1..Len(p) : p[i] = q[i + 1]
        BY HeadTailProperties
  <2> QED BY <2>1, LenProperties
<1> HIDE DEF p
<1>3. \A i \in DOMAIN p : i + 1 \in DOMAIN q /\ p[i] = q[i + 1] /\ i + 1 # 1
      BY <1>1, <1>2
<1>4. \A i \in DOMAIN q : i = 1 \/ (i - 1 \in DOMAIN p /\ p[i - 1] = q[i])
      BY <1>1, <1>2
<1>5. Queued(p) \subseteq Queued(q) \ {Head(q)}
      BY <1>1, <1>3 DEF Queued, NoRepeats
<1>6. Queued(q) \subseteq Queued(p) \cup {Head(q)}
      BY <1>1, <1>4 DEF Queued
<1>7. ASSUME NEW i \in DOMAIN p, NEW j \in DOMAIN p, p[i] = p[j] PROVE i = j
  <2>1. i + 1 = j + 1
        BY <1>3, <1>7 DEF NoRepeats
  <2> QED BY <1>2, <2>1
<1>8. Head(q) \in Queued(q)
      BY <1>1 DEF Queued
<1> QED BY <1>5, <1>6, <1>7, <1>8 DEF NoRepeats, p

\* A new operation is nowhere yet.
LEMMA EnqueueOnce ==
    ASSUME BaseInv, OnceInv, NEW t \in Threads, NEW first \in BOOLEAN, Enqueue(t, first),
           pc' = pc, cur' = cur
    PROVE  OnceInv'
<1>0. PICK o : o = nOps + 1
      OBVIOUS
<1>1. /\ queue \in Seq(Operations) /\ o \in Operations /\ o \notin 1..nOps
      /\ 1..nOps' = (1..nOps) \cup {o}
      /\ alive' = alive \cup {o} /\ finished' = finished
      /\ queue' = Append(queue, o) \/ queue' = <<o>> \o queue
      BY <1>0 DEF BaseInv, TypeOK, Enqueue, Queue!PushFront, Queue!PushBack
<1>2. o \notin Queued(queue) /\ o \notin finished /\ \A w \in Workers : Holds(w) => cur[w] # o
      BY <1>1 DEF OnceInv
<1>3. Queued(queue') = Queued(queue) \cup {o} /\ NoRepeats(queue')
      BY <1>1, <1>2, NewElement DEF OnceInv
<1>4. \A w \in Workers : Holds(w)' = Holds(w)
      BY DEF Holds
<1> QED BY <1>1, <1>2, <1>3, <1>4 DEF OnceInv

\* A new operation that is run in place is over at once.
LEMMA InPlaceOnce ==
    ASSUME BaseInv, OnceInv, RunInPlace, pc' = pc, cur' = cur
    PROVE  OnceInv'
<1>0. PICK o : o = nOps + 1
      OBVIOUS
<1>1. /\ o \notin 1..nOps /\ 1..nOps' = (1..nOps) \cup {o}
      /\ alive' = alive /\ finished' = finished \cup {o} /\ queue' = queue
      BY <1>0 DEF BaseInv, TypeOK, RunInPlace
<1>2. \A w \in Workers : Holds(w)' = Holds(w)
      BY DEF Holds
<1> QED BY <1>1, <1>2 DEF OnceInv

\* Steps that move no operation: a worker may let go of the one it holds.
LEMMA SameOnce ==
    ASSUME OnceInv, UNCHANGED <<queue, nOps, finished>>, alive' \subseteq alive,
           \A w \in Workers : Holds(w)' => Holds(w) /\ cur'[w] = cur[w]
    PROVE  OnceInv'
<1>1. \A w \in Workers : Holds(w)' => Holds(w) /\ cur[w]' = cur[w]
      OBVIOUS
<1> QED BY <1>1 DEF OnceInv

\* No step puts an operation into a second place.
LEMMA OnceStep == BaseInv /\ OnceInv /\ [Next]_vars => OnceInv'
<1> SUFFICES ASSUME BaseInv, OnceInv, [Next]_vars PROVE OnceInv'
    OBVIOUS
<1> USE DEF Holds
<1>1. CASE UNCHANGED vars \/ Terminated
      BY <1>1, SameOnce DEF vars, Terminated
<1>2. CASE Start \/ RegisterThread \/ CreateFails \/ Shutdown \/ Joined
      BY <1>2, SameOnce DEF Start, RegisterThread, CreateFails, Shutdown, Queue!PushExit, Joined
<1>3. ASSUME NEW w \in Workers, CreateThread(w) PROVE OnceInv'
  <2>1. \A v \in Workers : Holds(v)' => Holds(v) /\ cur'[v] = cur[v]
        BY <1>3 DEF CreateThread, BaseInv, TypeOK
  <2> QED BY <1>3, <2>1, SameOnce DEF CreateThread
<1>4. ASSUME NEW w \in Workers, AcquireToken(w) PROVE OnceInv'
      BY <1>4, SameOnce DEF AcquireToken, Queue!TakeToken
<1>5. ASSUME NEW w \in Workers, GetOperation(w) PROVE OnceInv'
  <2>1. PICK o : o = Head(queue)
        OBVIOUS
  <2>2. /\ queue # <<>> /\ queue' = Tail(queue) /\ UNCHANGED opVars
        /\ pc' = [pc EXCEPT ![w] = "fetched"] /\ cur' = [cur EXCEPT ![w] = o]
        BY <1>5, <2>1 DEF GetOperation, Queue!PopFront
  <2>3. /\ Queued(queue') = Queued(queue) \ {o} /\ o \in Queued(queue) /\ NoRepeats(queue')
        BY <2>1, <2>2, TakenElement DEF OnceInv, BaseInv, TypeOK
  <2>4. /\ Holds(w)' /\ cur[w]' = o
        /\ \A v \in Workers \ {w} : (Holds(v)' <=> Holds(v)) /\ cur[v]' = cur[v]
        BY <2>2 DEF BaseInv, TypeOK
  <2>5. \A v \in Workers : Holds(v) => cur[v] # o
        BY <2>3 DEF OnceInv
  <2> HIDE DEF Holds
  <2>6. \A v \in Workers : Holds(v)' => cur[v]' \in (1..nOps) \ (finished \cup Queued(queue'))
        BY <2>3, <2>4, <2>5 DEF OnceInv
  <2>7. \A u, v \in Workers : Holds(u)' /\ Holds(v)' /\ cur[u]' = cur[v]' => u = v
        BY <2>4, <2>5 DEF OnceInv
  <2> QED BY <2>2, <2>3, <2>6, <2>7 DEF OnceInv
<1>6. ASSUME NEW w \in Workers, GetNothing(w) PROVE OnceInv'
  <2>1. \A v \in Workers : Holds(v)' => Holds(v) /\ cur'[v] = cur[v]
        BY <1>6 DEF GetNothing, BaseInv, TypeOK
  <2> QED BY <1>6, <2>1, SameOnce DEF GetNothing, Queue!PopNothing
<1>7. ASSUME NEW w \in Workers, Invoke(w) PROVE OnceInv'
  <2>1. \A v \in Workers : Holds(v)' => Holds(v) /\ cur'[v] = cur[v]
        BY <1>7 DEF Invoke, BaseInv, TypeOK
  <2> QED BY <1>7, <2>1, SameOnce DEF Invoke
<1>8. ASSUME NEW w \in Workers, EndOperation(w) PROVE OnceInv'
  <2>1. PICK o : o = cur[w]
        OBVIOUS
  <2>2. /\ Holds(w) /\ finished' = finished \cup {o} /\ UNCHANGED <<queue, nOps, alive>>
        /\ \A v \in Workers : Holds(v)' => v # w /\ Holds(v) /\ cur[v]' = cur[v]
        BY <1>8, <2>1 DEF EndOperation, CanStep, BaseInv, TypeOK
  <2> HIDE DEF Holds
  <2>3. /\ o \in 1..nOps /\ o \notin Queued(queue)
        /\ \A v \in Workers : Holds(v)' => cur[v]' # o
        BY <2>1, <2>2 DEF OnceInv
  <2> QED BY <2>2, <2>3 DEF OnceInv
<1>9. ASSUME NEW w \in Workers, Operate(w) PROVE OnceInv'
  <2> PICK first \in BOOLEAN :
         (\E maySync \in BOOLEAN : OpAsync(w, first, maySync)) \/ OpSync(w, first)
      BY <1>9 DEF Operate
  <2>1. pc' = pc /\ cur' = cur /\ (Enqueue(w, first) \/ RunInPlace)
        BY DEF OpAsync, OpSync
  <2> QED BY <2>1, EnqueueOnce, InPlaceOnce
<1>10. ASSUME NEW c \in Clients, NEW first \in BOOLEAN, Async(c, first) \/ Sync(c, first) PROVE OnceInv'
       BY <1>10, EnqueueOnce DEF Async, Sync
<1>11. ASSUME NEW t \in Threads, Post(t) \/ SyncReturn(t) PROVE OnceInv'
       BY <1>11, SameOnce DEF Post, Queue!Post, SyncReturn
<1>12. ASSUME NEW o \in Operations, Cancel(o) PROVE OnceInv'
       BY <1>12, SameOnce DEF Cancel
<1> QED BY <1>1, <1>2, <1>3, <1>4, <1>5, <1>6, <1>7, <1>8, <1>9, <1>10, <1>11, <1>12 DEF Next

Runs(o) == \E w \in Workers : pc[w] = "running" /\ cur[w] = o

\* One operation gets on, in the terms of the protocol.
LEMMA MoveFacts ==
    ASSUME NEW o \in Operations, NEW from, NEW to, StatusOf(o) = from, StatusOf(o)' = to,
           \A p \in Operations \ {o} : StatusOf(p)' = StatusOf(p)
    PROVE  Executor!Move(o, from, to)
BY DEF Executor!Move

\* No operation does.
LEMMA SameStatus ==
    ASSUME UNCHANGED <<opVars, waitFor>>, \A o \in Operations : Runs(o)' <=> Runs(o)
    PROVE  UNCHANGED Executor!vars
<1>1. \A o \in Operations : StatusOf(o)' = StatusOf(o)
      BY DEF StatusOf, Runs
<1> QED BY <1>1 DEF Executor!vars

\* A new operation was unused, and nothing else changes.
LEMMA NewStatus ==
    ASSUME BaseInv, OnceInv, NEW o, o = nOps + 1, nOps < MaxOps, nOps' = nOps + 1,
           pc' = pc, cur' = cur,
           \/ alive' = alive \cup {o} /\ finished' = finished
           \/ alive' = alive /\ finished' = finished \cup {o}
    PROVE  /\ o \in Operations
           /\ finished' = finished => Executor!Move(o, "unused", "pending")
           /\ finished' # finished => Executor!Move(o, "unused", "done")
<1>1. /\ o \in Operations /\ o > nOps /\ ~(o > nOps') /\ o \notin 1..nOps
      /\ \A p \in Operations \ {o} : p > nOps' <=> p > nOps
      BY DEF BaseInv, TypeOK
<1>2. o \notin finished /\ o \notin alive /\ ~Runs(o)
      BY <1>1 DEF OnceInv, Holds, Runs
<1>3. \A p \in Operations : Runs(p)' <=> Runs(p)
      BY DEF Runs
<1>4. \A p \in Operations \ {o} : StatusOf(p)' = StatusOf(p)
      BY <1>1, <1>3 DEF StatusOf, Runs
<1>5. StatusOf(o) = "unused"
      BY <1>1 DEF StatusOf
<1>6. ASSUME finished' = finished PROVE StatusOf(o)' = "pending"
  <2>1. o \in alive' /\ o \notin finished' /\ ~Runs(o)'
        BY <1>1, <1>2, <1>3, <1>6
  <2> QED BY <1>1, <2>1 DEF StatusOf, Runs
<1>7. ASSUME finished' # finished PROVE StatusOf(o)' = "done"
  <2>1. o \in finished' /\ ~Runs(o)'
        BY <1>1, <1>2, <1>3, <1>7
  <2> QED BY <1>1, <2>1 DEF StatusOf, Runs
<1> QED BY <1>1, <1>4, <1>5, <1>6, <1>7, MoveFacts

\* Calls: a submission, one run in place, a return, a cancellation.
LEMMA CallImplements ==
    ASSUME BaseInv, OnceInv,
           \/ \E w \in Workers : Operate(w)
           \/ \E c \in Clients, first \in BOOLEAN : Async(c, first) \/ Sync(c, first)
           \/ \E t \in Threads : SyncReturn(t)
           \/ \E o \in Operations : Cancel(o)
    PROVE  [Executor!Next]_(Executor!vars)
<1>0. PICK n : n = nOps + 1
      OBVIOUS
<1>1. ASSUME NEW t \in Threads, NEW first \in BOOLEAN, Enqueue(t, first), pc' = pc, cur' = cur,
             waitFor' = waitFor \/ (waitFor[t] = 0 /\ waitFor' = [waitFor EXCEPT ![t] = n])
      PROVE  Executor!Next
  <2>1. n \in Operations /\ Executor!Move(n, "unused", "pending")
        BY <1>0, <1>1, NewStatus DEF Enqueue
  <2>2. Executor!Submit(n) \/ Executor!SubmitAndWait(t, n)
        BY <1>1, <2>1 DEF Executor!Submit, Executor!SubmitAndWait
  <2> QED BY <2>1, <2>2 DEF Executor!Next
<1>2. ASSUME RunInPlace, pc' = pc, cur' = cur, waitFor' = waitFor
      PROVE  Executor!Next
  <2>1. n \notin finished
        BY <1>0 DEF OnceInv, BaseInv, TypeOK
  <2>2. n \in Operations /\ Executor!Move(n, "unused", "done")
        BY <1>0, <1>2, <2>1, NewStatus DEF RunInPlace
  <2>3. Executor!RunInPlace(n)
        BY <1>2, <2>2 DEF Executor!RunInPlace
  <2> QED BY <2>2, <2>3 DEF Executor!Next
<1>3. ASSUME NEW w \in Workers, Operate(w) PROVE Executor!Next
  <2> PICK first \in BOOLEAN :
         (\E maySync \in BOOLEAN : OpAsync(w, first, maySync)) \/ OpSync(w, first)
      BY <1>3 DEF Operate
  <2>1. pc' = pc /\ cur' = cur /\ waitFor[w] = 0
        BY DEF OpAsync, OpSync, CanStep
  <2>2. \/ RunInPlace /\ waitFor' = waitFor
        \/ Enqueue(w, first) /\ (waitFor' = waitFor \/ waitFor' = [waitFor EXCEPT ![w] = n])
        BY <1>0 DEF OpAsync, OpSync
  <2> QED BY <1>1, <1>2, <2>1, <2>2
<1>4. ASSUME NEW c \in Clients, NEW first \in BOOLEAN, Async(c, first) \/ Sync(c, first)
      PROVE  Executor!Next
      BY <1>0, <1>1, <1>4 DEF Async, Sync, ClientCanCall
<1>5. ASSUME NEW t \in Threads, SyncReturn(t) PROVE Executor!Next
  <2>0. PICK o : o = waitFor[t]
        OBVIOUS
  <2>1. o \in finished /\ o \in Operations /\ o # 0 /\ ~(o > nOps)
        BY <1>5, <2>0 DEF SyncReturn, OnceInv, BaseInv, TypeOK
  <2>2. ~Runs(o)
        BY <2>1 DEF OnceInv, Holds, Runs
  <2>3. StatusOf(o) = "done"
        BY <2>1, <2>2 DEF StatusOf, Runs
  <2>4. \A p \in Operations : StatusOf(p)' = StatusOf(p)
        BY <1>5 DEF SyncReturn, StatusOf
  <2>5. Executor!SyncReturn(t)
        BY <1>5, <2>0, <2>1, <2>3, <2>4 DEF SyncReturn, Executor!SyncReturn
  <2> QED BY <2>5 DEF Executor!Next
<1>6. ASSUME NEW o \in Operations, Cancel(o) PROVE [Executor!Next]_(Executor!vars)
  <2>1. /\ o \in alive /\ o \notin finished /\ ~(o > nOps) /\ alive' = alive \ {o}
        /\ UNCHANGED <<nOps, pc, cur, finished, waitFor>>
        BY <1>6 DEF Cancel, OnceInv, BaseInv, TypeOK
  <2>2. \A p \in Operations : Runs(p)' <=> Runs(p)
        BY <2>1 DEF Runs
  <2>3. \A p \in Operations \ {o} : StatusOf(p)' = StatusOf(p)
        BY <2>1, <2>2 DEF StatusOf, Runs
  <2>4. CASE Runs(o)
    <3>1. StatusOf(o)' = StatusOf(o)
          BY <2>1, <2>2, <2>4 DEF StatusOf, Runs
    <3>2. \A p \in Operations : StatusOf(p)' = StatusOf(p)
          BY <2>3, <3>1
    <3> QED BY <2>1, <3>2 DEF Executor!vars
  <2>5. CASE ~Runs(o)
    <3>1. StatusOf(o) = "pending" /\ StatusOf(o)' = "cancelled"
          BY <2>1, <2>2, <2>5 DEF StatusOf, Runs
    <3>2. Executor!Cancel(o)
          BY <1>6, <2>1, <2>3, <3>1, MoveFacts DEF Cancel, Executor!Cancel
    <3> QED BY <3>2 DEF Executor!Next
  <2> QED BY <2>4, <2>5
<1> QED BY <1>3, <1>4, <1>5, <1>6

\* A worker begins its operation, skips it, or ends it.
LEMMA RunImplements ==
    ASSUME BaseInv, OnceInv, NEW w \in Workers, Invoke(w) \/ EndOperation(w)
    PROVE  [Executor!Next]_(Executor!vars)
<1>0. PICK o : o = cur[w]
      OBVIOUS
<1>1. /\ Holds(w) /\ o \in Operations /\ ~(o > nOps) /\ o \notin finished
      /\ \A v \in Workers \ {w} : pc[v] = "running" => cur[v] # o
      BY <1>0 DEF Invoke, EndOperation, CanStep, Holds, OnceInv, BaseInv, TypeOK
<1>2. /\ \A v \in Workers \ {w} : pc'[v] = pc[v] /\ cur'[v] = cur[v]
      /\ nOps' = nOps /\ alive' = alive /\ waitFor' = waitFor
      BY DEF Invoke, EndOperation, BaseInv, TypeOK
<1>3. CASE Invoke(w) /\ o \notin alive
  <2>1. pc[w] = "fetched" /\ pc'[w] = "fetching" /\ UNCHANGED opVars
        BY <1>0, <1>3 DEF Invoke, BaseInv, TypeOK
  <2>2. \A p \in Operations : Runs(p)' <=> Runs(p)
        BY <1>2, <2>1 DEF Runs
  <2> QED BY <1>2, <2>1, <2>2, SameStatus
<1>4. CASE Invoke(w) /\ o \in alive
  <2>1. /\ pc[w] = "fetched" /\ pc'[w] = "running" /\ cur[w] = o /\ cur'[w] = o
        /\ UNCHANGED opVars
        BY <1>0, <1>4 DEF Invoke, BaseInv, TypeOK
  <2>2. ~Runs(o) /\ Runs(o)' /\ \A p \in Operations \ {o} : Runs(p)' <=> Runs(p)
        BY <1>1, <1>2, <2>1 DEF Runs
  <2>3. StatusOf(o) = "pending" /\ StatusOf(o)' = "running"
        BY <1>1, <1>4, <2>1, <2>2 DEF StatusOf, Runs
  <2>4. \A p \in Operations \ {o} : StatusOf(p)' = StatusOf(p)
        BY <2>1, <2>2 DEF StatusOf, Runs
  <2>5. Executor!Begin(o)
        BY <1>1, <1>2, <2>3, <2>4, MoveFacts DEF Executor!Begin
  <2> QED BY <1>1, <2>5 DEF Executor!Next
<1>5. CASE EndOperation(w)
  <2>1. /\ pc[w] = "running" /\ pc'[w] = "fetching" /\ cur[w] = o
        /\ finished' = finished \cup {o}
        BY <1>0, <1>5 DEF EndOperation, CanStep, BaseInv, TypeOK
  <2>2. Runs(o) /\ ~Runs(o)' /\ \A p \in Operations \ {o} : Runs(p)' <=> Runs(p)
        BY <1>1, <1>2, <2>1 DEF Runs
  <2>3. StatusOf(o) = "running" /\ StatusOf(o)' = "done"
        BY <1>1, <1>2, <2>1, <2>2 DEF StatusOf, Runs
  <2>4. \A p \in Operations \ {o} : StatusOf(p)' = StatusOf(p)
        BY <1>2, <2>1, <2>2 DEF StatusOf, Runs
  <2>5. Executor!End(o)
        BY <1>1, <1>2, <2>3, <2>4, MoveFacts DEF Executor!End
  <2> QED BY <1>1, <2>5 DEF Executor!Next
<1> QED BY <1>3, <1>4, <1>5

\* Every step of a pool is one of the protocol, or none.
LEMMA ExecutorStep == BaseInv /\ OnceInv /\ [Next]_vars => [Executor!Next]_(Executor!vars)
<1> SUFFICES ASSUME BaseInv, OnceInv, [Next]_vars PROVE [Executor!Next]_(Executor!vars)
    OBVIOUS
<1>1. ASSUME UNCHANGED <<opVars, waitFor>>,
             \A w \in Workers : pc'[w] = "running" <=> pc[w] = "running",
             \A w \in Workers : pc[w] = "running" => cur'[w] = cur[w]
      PROVE  UNCHANGED Executor!vars
  <2>1. \A o \in Operations : Runs(o)' <=> Runs(o)
        BY <1>1 DEF Runs
  <2> QED BY <1>1, <2>1, SameStatus
<1>2. CASE UNCHANGED vars \/ Terminated
      BY <1>1, <1>2 DEF vars, Terminated
<1>3. CASE Start \/ RegisterThread \/ CreateFails \/ Shutdown \/ Joined
      BY <1>1, <1>3 DEF Start, RegisterThread, CreateFails, Shutdown, Joined
<1>4. ASSUME NEW w \in Workers,
             CreateThread(w) \/ AcquireToken(w) \/ GetOperation(w) \/ GetNothing(w)
      PROVE  UNCHANGED Executor!vars
  <2>1. UNCHANGED <<opVars, waitFor>>
        BY <1>4 DEF CreateThread, AcquireToken, GetOperation, GetNothing
  <2>2. /\ pc[w] # "running" /\ pc'[w] # "running"
        /\ \A v \in Workers \ {w} : pc'[v] = pc[v] /\ cur'[v] = cur[v]
        BY <1>4 DEF CreateThread, AcquireToken, GetOperation, GetNothing, Queue!PopFront,
           Queue!PopNothing, BaseInv, RunInv, TypeOK
  <2> QED BY <1>1, <2>1, <2>2
<1>5. ASSUME NEW t \in Threads, Post(t) PROVE UNCHANGED Executor!vars
      BY <1>1, <1>5 DEF Post
<1> QED BY <1>2, <1>3, <1>4, <1>5, CallImplements, RunImplements DEF Next

\* Whatever the interleaving of clients, workers and owner, an operation
\* begins at most once and never after a cancel(), and sync() returns only
\* when its operation is over: for any number of threads and operations.
THEOREM Refinement == Spec => ImplementsExecutor
<1>1. ASSUME Init PROVE OnceInv /\ Executor!Init
  <2>1. OnceInv
        BY <1>1 DEF Init, OnceInv, Queued, NoRepeats, Holds
  <2>2. \A o \in Operations : StatusOf(o) = "unused"
        BY <1>1 DEF Init, StatusOf
  <2> QED BY <1>1, <2>1, <2>2 DEF Init, Executor!Init
<1> QED
    BY <1>1, OnceStep, ExecutorStep, BaseInvariance, PTL
    DEF Spec, ImplementsExecutor, Executor!Spec
=============================================================================

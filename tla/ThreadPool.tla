----------------------------- MODULE ThreadPool -----------------------------
(***************************************************************************)
(* Thread/ThreadPool.h with the parts of Thread/ThreadGroup.h and of       *)
(* Thread/OperationExecutor.h it is made of: workers that fetch operations *)
(* from an OperationQueue, clients that submit, wait for and cancel them,  *)
(* and the owner, who starts the threads and destroys the pool.            *)
(*                                                                         *)
(* An operation is named by its number in the order of submission.  It may *)
(* itself call async(), asyncFirst(), sync() or syncFirst() on its pool,   *)
(* return, or throw.  While the owner is inside start(), its writes to     *)
(* ThreadGroup::_threadMap and _threadID race with the reads of a worker   *)
(* in isThisThreadIn(), so that read may then give either answer.          *)
(***************************************************************************)
EXTENDS Naturals, Sequences, FiniteSets

CONSTANTS Workers,     \* the threads std::thread may create
          Clients,     \* the other threads that use the pool
          NumThreads,  \* _threadNum
          MaxStarts,   \* bound: calls of start(), the constructor's included
          MaxOps,      \* bound: operations submitted
          OpsMaySync   \* whether operations call sync() on their own pool

ASSUME ThreadsAssumption ==
    IsFiniteSet(Workers) /\ IsFiniteSet(Clients) /\ Workers \cap Clients = {}
ASSUME BoundsAssumption == NumThreads \in Nat /\ MaxStarts \in Nat /\ MaxOps \in Nat
ASSUME OpsMaySyncAssumption == OpsMaySync \in BOOLEAN

VARIABLES
    queue, sem, posting, popping,  \* _queue, see OperationQueue.tla
    pc,          \* where each worker is in run()
    cur,         \* op, the local of run() (0: null)
    registered,  \* _threadGroup: the workers in its map
    owner,       \* what the owner of the pool is doing
    toCreate,    \* threads start() has still to create
    starts,      \* calls of start() so far
    nOps,        \* operations submitted so far
    alive,       \* operations that are not cancelled (_strongOp is set)
    finished,    \* operations that have returned or thrown
    waitFor      \* the operation a thread waits for in sync() (0: none)

queueVars == <<queue, sem, posting, popping>>
ownerVars == <<registered, owner, toCreate, starts>>
opVars == <<nOps, alive, finished>>
vars == <<queueVars, pc, cur, ownerVars, opVars, waitFor>>

Threads == Workers \cup Clients
Operations == 1..MaxOps

Exited == {w \in Workers : pc[w] = "exited"}

\* push_exit() is called once, by the destructor.
ExitsPosted == IF owner \in {"joining", "destroyed"} THEN NumThreads ELSE 0

Queue == INSTANCE OperationQueue WITH
    ExitCounts <- {NumThreads}, MaxLength <- MaxOps, MaxExits <- NumThreads,
    exits <- ExitsPosted, refused <- Cardinality(Exited)

TypeOK ==
    /\ queue \in Seq(Operations) /\ sem \in Nat
    /\ posting \subseteq Threads /\ popping \subseteq Workers
    /\ pc \in [Workers -> {"none", "fetching", "fetched", "running", "exited"}]
    /\ cur \in [Workers -> 0..MaxOps]
    /\ registered \subseteq Workers
    /\ owner \in {"ready", "creating", "registering", "joining", "destroyed"}
    /\ toCreate \in 0..NumThreads /\ starts \in 0..MaxStarts
    /\ nOps \in 0..MaxOps
    /\ alive \subseteq Operations /\ finished \subseteq Operations
    /\ waitFor \in [Threads -> 0..MaxOps]

Init ==
    /\ queue = <<>> /\ sem = 0 /\ posting = {} /\ popping = {}
    /\ pc = [w \in Workers |-> "none"]
    /\ cur = [w \in Workers |-> 0]
    /\ registered = {} /\ owner = "ready" /\ toCreate = 0 /\ starts = 0
    /\ nOps = 0 /\ alive = {} /\ finished = {}
    /\ waitFor = [t \in Threads |-> 0]

-----------------------------------------------------------------------------
(* The owner: start(), and the destructor *)

OneTooMany == NumThreads + 1

\* The loop of start() does not count the threads there are already.
ThreadsToCreate == NumThreads

\* start(), up to its loop; nothing limits how often it is called.
Start ==
    /\ owner = "ready"
    /\ starts < MaxStarts
    /\ starts' = starts + 1
    /\ IF NumThreads = 0 THEN UNCHANGED <<owner, toCreate>>
       ELSE owner' = "creating" /\ toCreate' = ThreadsToCreate
    /\ UNCHANGED <<queueVars, pc, cur, registered, opVars, waitFor>>

\* ThreadGroup::createThread() begins with the new thread already running.
CreateThread(w) ==
    /\ owner = "creating"
    /\ pc[w] = "none"
    /\ pc' = [pc EXCEPT ![w] = "fetching"]
    /\ owner' = "registering"
    /\ UNCHANGED <<queueVars, cur, registered, toCreate, starts, opVars, waitFor>>

\* ... and ends with its entry in the map; start() goes round its loop.
RegisterThread ==
    /\ owner = "registering"
    /\ registered' = {w \in Workers : pc[w] # "none"}
    /\ toCreate' = toCreate - 1
    /\ owner' = IF toCreate = 1 THEN "ready" ELSE "creating"
    /\ UNCHANGED <<queueVars, pc, cur, starts, opVars, waitFor>>

\* The system refuses a thread, and start() leaves its loop by an exception:
\* the pool has the threads created so far.  (In the constructor that ends the
\* program, or the pool if there are none; here the owner calls start().)
CreateFails ==
    /\ owner = "creating"
    /\ owner' = "ready" /\ toCreate' = 0
    /\ UNCHANGED <<queueVars, pc, cur, registered, starts, opVars, waitFor>>

OneToken == 1

ExitTokens == NumThreads

\* ~ThreadPool() calls shutdown().  The owner's part of the bargain is that
\* no client is inside a call, or will make one.
Shutdown ==
    /\ owner = "ready"
    /\ \A c \in Clients : c \notin posting /\ waitFor[c] = 0
    /\ Queue!PushExit(ExitTokens)
    /\ owner' = "joining"
    /\ UNCHANGED <<pc, cur, registered, toCreate, starts, opVars, waitFor>>

JoinNobody == {}

ToJoin == registered

\* ... then wait(): joinAll() returns once every thread of the map is over.
Joined ==
    /\ owner = "joining"
    /\ ToJoin \subseteq Exited
    /\ registered' = {}
    /\ owner' = "destroyed"
    /\ UNCHANGED <<queueVars, pc, cur, toCreate, starts, opVars, waitFor>>

-----------------------------------------------------------------------------
(* Submitting operations *)

InStart == owner \in {"creating", "registering"}
Destroying == owner \in {"joining", "destroyed"}

InNoThread(w) == {FALSE}

\* What isThisThreadIn() may answer to worker w.
IsThisThreadIn(w) == IF InStart THEN BOOLEAN ELSE {w \in registered}

\* The operation is allotted the next number and queued by thread t.
Enqueue(t, first) ==
    LET o == nOps + 1 IN
    /\ nOps < MaxOps
    /\ nOps' = o
    /\ alive' = alive \cup {o}
    /\ IF first THEN Queue!PushFront(t, o) ELSE Queue!PushBack(t, o)
    /\ UNCHANGED finished

ClientCanCall(c) == ~Destroying /\ c \notin posting /\ waitFor[c] = 0

\* async() or asyncFirst() by a client, which is never a thread of the pool.
Async(c, first) ==
    /\ ClientCanCall(c)
    /\ Enqueue(c, first)
    /\ UNCHANGED <<pc, cur, ownerVars, waitFor>>

\* sync() or syncFirst() by a client.
Sync(c, first) ==
    /\ ClientCanCall(c)
    /\ Enqueue(c, first)
    /\ waitFor' = [waitFor EXCEPT ![c] = nOps + 1]
    /\ UNCHANGED <<pc, cur, ownerVars>>

\* The second half of a push, by whichever thread made it.
Post(t) ==
    /\ Queue!Post(t)
    /\ UNCHANGED <<pc, cur, ownerVars, opVars, waitFor>>

\* The token that sync() waits for is posted as the operation ends, thrown or
\* not (the destructor of its onceToken).
SyncReturn(t) ==
    /\ waitFor[t] \in finished
    /\ t \notin posting
    /\ waitFor' = [waitFor EXCEPT ![t] = 0]
    /\ UNCHANGED <<queueVars, pc, cur, ownerVars, opVars>>

\* Operation::cancel() by a holder of the handle.  A sync() keeps its handle;
\* cancelling what is over changes nothing that is left to happen.
Cancel(o) ==
    /\ o \in alive \ finished
    /\ \A t \in Threads : waitFor[t] # o
    /\ alive' = alive \ {o}
    /\ UNCHANGED <<queueVars, pc, cur, ownerVars, nOps, finished, waitFor>>

-----------------------------------------------------------------------------
(* The workers: run() *)

\* get_operation() draws a token ...
AcquireToken(w) ==
    /\ pc[w] = "fetching"
    /\ Queue!TakeToken(w)
    /\ UNCHANGED <<pc, cur, ownerVars, opVars, waitFor>>

\* ... and returns the first operation, ...
GetOperation(w) ==
    /\ Queue!PopFront(w)
    /\ cur' = [cur EXCEPT ![w] = Head(queue)]
    /\ pc' = [pc EXCEPT ![w] = "fetched"]
    /\ UNCHANGED <<ownerVars, opVars, waitFor>>

\* ... or false, on which the worker leaves its loop.
GetNothing(w) ==
    /\ Queue!PopNothing(w)
    /\ pc' = [pc EXCEPT ![w] = "exited"]
    /\ cur' = [cur EXCEPT ![w] = 0]
    /\ UNCHANGED <<ownerVars, opVars, waitFor>>

LocksAnyway(o) == TRUE

\* Operation::operator() locks _weakOp: the function is then kept, whoever
\* cancels, until it ends; ...
Locks(o) == o \in alive

\* ... a cancelled operation is skipped.
Invoke(w) ==
    /\ pc[w] = "fetched"
    /\ IF Locks(cur[w])
       THEN pc' = [pc EXCEPT ![w] = "running"] /\ UNCHANGED cur
       ELSE /\ pc' = [pc EXCEPT ![w] = "fetching"]
            /\ cur' = [cur EXCEPT ![w] = 0]
    /\ UNCHANGED <<queueVars, ownerVars, opVars, waitFor>>

\* The operation of w is between two of its own statements.
CanStep(w) == pc[w] = "running" /\ w \notin posting /\ waitFor[w] = 0

\* A call on a thread of the pool runs the new operation in place.
RunInPlace ==
    LET o == nOps + 1 IN
    /\ nOps < MaxOps
    /\ nOps' = o
    /\ finished' = finished \cup {o}
    /\ UNCHANGED <<queueVars, alive>>

\* The operation of w calls async() or asyncFirst().
OpAsync(w, first, maySync) ==
    /\ CanStep(w)
    /\ \E isIn \in IsThisThreadIn(w) :
         IF maySync /\ isIn THEN RunInPlace ELSE Enqueue(w, first)
    /\ UNCHANGED <<pc, cur, ownerVars, waitFor>>

\* The operation of w calls sync() or syncFirst().
OpSync(w, first) ==
    /\ OpsMaySync
    /\ CanStep(w)
    /\ \E isIn \in IsThisThreadIn(w) :
         IF isIn THEN RunInPlace /\ UNCHANGED waitFor
         ELSE Enqueue(w, first) /\ waitFor' = [waitFor EXCEPT ![w] = nOps + 1]
    /\ UNCHANGED <<pc, cur, ownerVars>>

Uncaught == "exited"

\* run() catches what an operation throws, and goes round its loop.
Caught == "fetching"

\* The operation returns, and run() lets go of it; or it throws, and run()
\* keeps it until it fetches another.
EndOperation(w) ==
    /\ CanStep(w)
    /\ finished' = finished \cup {cur[w]}
    /\ \/ pc' = [pc EXCEPT ![w] = "fetching"] /\ cur' = [cur EXCEPT ![w] = 0]
       \/ pc' = [pc EXCEPT ![w] = Caught] /\ UNCHANGED cur
    /\ UNCHANGED <<queueVars, ownerVars, nOps, alive, waitFor>>

-----------------------------------------------------------------------------

Operate(w) == \E first \in BOOLEAN :
    \/ \E maySync \in BOOLEAN : OpAsync(w, first, maySync)
    \/ OpSync(w, first)

\* The end of the program: without it TLC reports a deadlock wherever else
\* nothing can move.
Terminated == owner = "destroyed" /\ UNCHANGED vars

Next ==
    \/ Start \/ RegisterThread \/ CreateFails \/ Shutdown \/ Joined \/ Terminated
    \/ \E w \in Workers :
         \/ CreateThread(w)
         \/ AcquireToken(w) \/ GetOperation(w) \/ GetNothing(w)
         \/ Invoke(w) \/ Operate(w) \/ EndOperation(w)
    \/ \E c \in Clients, first \in BOOLEAN : Async(c, first) \/ Sync(c, first)
    \/ \E t \in Threads : Post(t) \/ SyncReturn(t)
    \/ \E o \in Operations : Cancel(o)

Spec == Init /\ [][Next]_vars

\* Threads that can run do, operations end, and the semaphore lets somebody
\* through while it has tokens (CountingSemaphore.tla).  Nobody is obliged to
\* call anything.
Fairness ==
    /\ WF_vars(\E w \in Workers : CreateThread(w))
    /\ WF_vars(RegisterThread)
    /\ WF_vars(Joined)
    /\ WF_vars(\E w \in Workers : AcquireToken(w))
    /\ \A w \in Workers :
         /\ WF_vars(GetOperation(w) \/ GetNothing(w))
         /\ WF_vars(Invoke(w))
         /\ WF_vars(EndOperation(w))
    /\ \A t \in Threads : WF_vars(Post(t)) /\ WF_vars(SyncReturn(t))

FairSpec == Spec /\ Fairness

-----------------------------------------------------------------------------
(* Properties *)

\* The queue and its semaphore are used as OperationQueue.tla allows, with
\* one exit token for each thread the pool was made for.
ImplementsQueue == Queue!Spec

\* No worker leaves run() before the destructor asks: a push makes the
\* operation visible before its token, so a token never finds an empty list
\* unless it is an exit token.
ExitOnlyAfterShutdown == Exited # {} => Destroying

\* The destructor of a pool that has a thread loses no operation, though
\* start() may have failed half way: what was queued before or during it has
\* run or was cancelled.
NoOperationLost ==
    owner = "destroyed" /\ Exited # {}
        => \A o \in 1..nOps : o \in finished \/ o \notin alive

\* An operation that calls sync() on its own pool blocks a worker only if it
\* does so while start() is still creating threads.
NoSelfWait ==
    [][\A w \in Workers : waitFor[w] = 0 /\ waitFor'[w] # 0 => InStart]_vars

\* How far operation o is, as its submitter sees it.
StatusOf(o) ==
    IF o > nOps THEN "unused"
    ELSE IF \E w \in Workers : pc[w] = "running" /\ cur[w] = o THEN "running"
    ELSE IF o \in finished THEN "done"
    ELSE IF o \in alive THEN "pending"
    ELSE "cancelled"

Executor == INSTANCE ExecutorProtocol WITH
    Callers <- Threads, NoOperation <- 0,
    status <- [o \in Operations |-> StatusOf(o)]

\* Whatever the interleaving of clients, workers and owner, each operation
\* begins at most once and never after a cancel(), and sync() returns only
\* when its operation is over.
ImplementsExecutor == Executor!Spec

\* A worker waits for ever in the sync() of its own operation: it must have
\* called it while start() was at work (NoSelfWait).
WorkerStuck == \E w \in Workers : [](waitFor[w] # 0)

\* ~ThreadPool() returns, and has joined every thread, if start() was called
\* once, even if it failed half way, and no operation waits for its own pool.
DestructorReturns == owner = "joining" ~> owner = "destroyed" \/ WorkerStuck

\* Every operation submitted to a pool with a thread is over in the end, or
\* was cancelled, unless operations wait for their own pool: the destructor
\* does not overtake it.
OperationsSettle ==
    \A o \in Operations :
        o <= nOps /\ (\E w \in Workers : pc[w] # "none")
            ~> o \in finished \/ o \notin alive \/ WorkerStuck

\* "num" of the constructor is the number of the pool's threads.
ThreadCountIsNum == Cardinality({w \in Workers : pc[w] # "none"}) <= NumThreads
=============================================================================

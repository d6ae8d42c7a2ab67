---------------------------- MODULE EventPoller ----------------------------
(***************************************************************************)
(* The operation side of Poller/EventPoller.cpp: other threads append to a *)
(* list and write one byte to a pipe; the loop thread sleeps in epoll_wait *)
(* until the pipe's edge fires, empties the pipe, takes the whole list and *)
(* runs it.  The destructor puts an operation that throws ExitException in *)
(* front, joins the loop thread and then serves the pipe event once more   *)
(* itself.  The loop thread and the owner run the same onPipeEvent(), so   *)
(* its steps take the runner as a parameter.                               *)
(*                                                                         *)
(* The kernel's side: the pipe holds PipeCapacity bytes and its write end  *)
(* does not block, so a byte may be dropped; the watch is edge triggered,  *)
(* so a wakeup is due when a write makes an empty pipe readable, may or    *)
(* may not be when it was readable already, and is not repeated.           *)
(*                                                                         *)
(* async_l() is taken to queue ret, the Operation it returns (the source   *)
(* passes op, which does not compile).                                     *)
(***************************************************************************)
EXTENDS Naturals, Sequences, FiniteSets, Functions

CONSTANTS Clients,       \* the threads that submit operations
          MaxOps,        \* bound: operations submitted
          PipeCapacity,  \* bytes the pipe holds
          ReadSize       \* bytes onPipeEvent() reads at once

ASSUME BoundsAssumption ==
    MaxOps \in Nat /\ PipeCapacity \in Nat \ {0} /\ ReadSize \in Nat \ {0}

VARIABLES
    opList,     \* _operationList
    pipe,       \* bytes in the pipe
    edge,       \* whether epoll_wait has an event of the pipe to return
    posting,    \* threads between their append and their write to the pipe
    loop,       \* where the loop thread is in runLoop()
    owner,      \* where the owner of the poller is
    exitFlag,   \* _exitFlag
    loopID,     \* _loopThreadID
    at,         \* where the current runner is in onPipeEvent()
    batch,      \* _swapList, from the operation being run on
    nOps, alive, finished,   \* as in ThreadPool.tla
    fronts,     \* the operations of asyncFirst() and syncFirst()
    waitFor,    \* the operation a client waits for in sync() (0: none)
    late        \* operations queued during the owner's own onPipeEvent()

sharedVars == <<opList, pipe, edge, posting>>
threadVars == <<loop, owner, exitFlag, loopID>>
runVars == <<at, batch>>
opVars == <<nOps, fronts, alive, finished, waitFor, late>>
vars == <<sharedVars, threadVars, runVars, opVars>>

Operations == 1..MaxOps
Exit == 0                      \* the operation that throws ExitException
Runners == {"loop", "owner"}
Threads == Clients \cup Runners

\* Who is inside onPipeEvent().
Runs(r) == IF r = "loop" THEN loop = "onPipeEvent" ELSE owner = "onPipeEvent"

TypeOK ==
    /\ opList \in Seq({Exit} \cup Operations) /\ batch \in Seq({Exit} \cup Operations)
    /\ pipe \in 0..PipeCapacity /\ edge \in BOOLEAN
    /\ posting \subseteq Threads
    /\ loop \in {"none", "starting", "top", "asleep", "onPipeEvent", "exited"}
    /\ owner \in {"constructed", "starting", "using", "shutdown", "joining",
                  "onPipeEvent", "destroyed"}
    /\ exitFlag \in BOOLEAN /\ loopID \in Runners
    /\ at \in {"read", "swap", "next", "running"}
    /\ ~(Runs("loop") /\ Runs("owner"))  \* runVars belong to one of them
    /\ nOps \in 0..MaxOps /\ fronts \subseteq Operations
    /\ alive \subseteq Operations /\ finished \subseteq Operations
    /\ waitFor \in [Clients -> 0..MaxOps] /\ late \subseteq Operations

Init ==
    /\ opList = <<>> /\ pipe = 0 /\ edge = FALSE /\ posting = {}
    /\ loop = "none" /\ owner = "constructed" /\ exitFlag = FALSE /\ loopID = "owner"
    /\ at = "read" /\ batch = <<>>
    /\ nOps = 0 /\ fronts = {} /\ alive = {} /\ finished = {}
    /\ waitFor = [c \in Clients |-> 0] /\ late = {}

-----------------------------------------------------------------------------
(* async_l(): the list under its mutex, then a byte into the pipe *)

PlacedBehind(o, first) == Append(opList, o)

Placed(o, first) == IF first THEN <<o>> \o opList ELSE Append(opList, o)

Push(t, o, first) ==
    /\ t \notin posting
    /\ opList' = Placed(o, first)
    /\ posting' = posting \cup {t}
    /\ UNCHANGED <<pipe, edge>>

Enqueue(t, first) ==
    LET o == nOps + 1 IN
    /\ nOps < MaxOps
    /\ nOps' = o
    /\ alive' = alive \cup {o}
    /\ fronts' = IF first THEN fronts \cup {o} ELSE fronts
    /\ late' = IF owner = "onPipeEvent" THEN late \cup {o} ELSE late
    /\ Push(t, o, first)
    /\ UNCHANGED finished

RoomAssumed == TRUE

RoomInPipe == pipe < PipeCapacity

\* _pipe.write("", 1), whose result nobody looks at: EAGAIN on a full pipe.
Write(t) ==
    /\ t \in posting
    /\ posting' = posting \ {t}
    /\ IF RoomInPipe
       THEN /\ pipe' = pipe + 1
            /\ edge' \in IF pipe = 0 THEN {TRUE} ELSE {edge, TRUE}
       ELSE UNCHANGED <<pipe, edge>>
    /\ UNCHANGED <<opList, threadVars, runVars, opVars>>

ClientCanCall(c) == owner = "using" /\ c \notin posting /\ waitFor[c] = 0

\* async() and asyncFirst() by another thread.
Async(c, first) ==
    /\ ClientCanCall(c)
    /\ Enqueue(c, first)
    /\ UNCHANGED <<threadVars, runVars, waitFor>>

\* sync() and syncFirst() by another thread.
Sync(c, first) ==
    /\ ClientCanCall(c)
    /\ Enqueue(c, first)
    /\ waitFor' = [waitFor EXCEPT ![c] = nOps + 1]
    /\ UNCHANGED <<threadVars, runVars>>

\* The operation has posted the semaphore sync() waits on.
SyncReturn(c) ==
    /\ c \notin posting
    /\ waitFor[c] \in finished
    /\ waitFor' = [waitFor EXCEPT ![c] = 0]
    /\ UNCHANGED <<sharedVars, threadVars, runVars, nOps, fronts, alive, finished, late>>

\* Operation::cancel(), by a holder of the handle.
Cancel(o) ==
    /\ o \in alive \ finished
    /\ \A c \in Clients : waitFor[c] # o
    /\ alive' = alive \ {o}
    /\ UNCHANGED <<sharedVars, threadVars, runVars, nOps, fronts, finished, waitFor, late>>

-----------------------------------------------------------------------------
(* onPipeEvent(), run by r *)

EnterPipeEvent == at' = "read"

ReadOnce == TRUE

\* read() reports EAGAIN: ...
ReadAll == pipe = 0

\* ... onPipeEvent() reads until it does.
Read(r) ==
    /\ Runs(r) /\ at = "read"
    /\ pipe' = IF pipe > ReadSize THEN pipe - ReadSize ELSE 0
    /\ at' = IF ReadAll THEN "swap" ELSE "read"
    /\ UNCHANGED <<opList, edge, posting, threadVars, batch, opVars>>

Swap(r) ==
    /\ Runs(r) /\ at = "swap"
    /\ batch' = opList
    /\ opList' = <<>>
    /\ at' = "next"
    /\ UNCHANGED <<pipe, edge, posting, threadVars, opVars>>

LocksAnyway(o) == TRUE

\* Operation::operator() gets hold of the function.
Locks(o) == o \in alive

\* The next operation of the batch: ExitException only sets the flag, a
\* cancelled operation is skipped, another one begins.
NextOperation(r) ==
    /\ Runs(r) /\ at = "next"
    /\ batch # <<>>
    /\ CASE Head(batch) = Exit ->
              exitFlag' = TRUE /\ batch' = Tail(batch) /\ UNCHANGED at
         [] Head(batch) # Exit /\ ~Locks(Head(batch)) ->
              batch' = Tail(batch) /\ UNCHANGED <<at, exitFlag>>
         [] Head(batch) # Exit /\ Locks(Head(batch)) ->
              at' = "running" /\ UNCHANGED <<batch, exitFlag>>
    /\ UNCHANGED <<sharedVars, loop, owner, loopID, opVars>>

CanStep(r) == Runs(r) /\ at = "running" /\ r \notin posting

\* The operation calls async() or asyncFirst() (with maySync), sync() or
\* syncFirst(): isCurrentThread() is true of the runner, and the new
\* operation is run in place.
OpRunsInPlace(r) ==
    /\ CanStep(r) /\ loopID = r
    /\ nOps < MaxOps
    /\ nOps' = nOps + 1
    /\ finished' = finished \cup {nOps + 1}
    /\ UNCHANGED <<sharedVars, threadVars, runVars, fronts, alive, waitFor, late>>

\* It calls async(op, false) or asyncFirst(op, false).
OpEnqueues(r, first) ==
    /\ CanStep(r)
    /\ Enqueue(r, first)
    /\ UNCHANGED <<threadVars, runVars, waitFor>>

\* It returns, or throws and is caught.
EndOperation(r) ==
    /\ CanStep(r)
    /\ finished' = finished \cup {Head(batch)}
    /\ batch' = Tail(batch)
    /\ at' = "next"
    /\ UNCHANGED <<sharedVars, threadVars, nOps, fronts, alive, waitFor, late>>

LeavePipeEvent(r) == Runs(r) /\ at = "next" /\ batch = <<>>

-----------------------------------------------------------------------------
(* runLoop() on the loop thread *)

\* _loopThreadID, _semWithRunStarted.post(), _exitFlag = false.
LoopStarts ==
    /\ loop = "starting"
    /\ loopID' = "loop"
    /\ exitFlag' = FALSE
    /\ loop' = "top"
    /\ UNCHANGED <<sharedVars, owner, runVars, opVars>>

NeverExits == FALSE

LoopExits == exitFlag

\* while (!_exitFlag): no delayed operation is due, so epoll_wait blocks.
LoopTop ==
    /\ loop = "top"
    /\ loop' = IF LoopExits THEN "exited" ELSE "asleep"
    /\ UNCHANGED <<sharedVars, owner, exitFlag, loopID, runVars, opVars>>

\* epoll_wait returns the pipe's event if the pipe is readable, and the
\* callback of the pipe is called.
Wake ==
    /\ loop = "asleep"
    /\ edge /\ pipe > 0
    /\ edge' = FALSE
    /\ loop' = "onPipeEvent"
    /\ EnterPipeEvent
    /\ UNCHANGED <<opList, pipe, posting, owner, exitFlag, loopID, batch, opVars>>

\* epoll_wait drops an event whose pipe is empty again.
DropEdge ==
    /\ loop = "asleep"
    /\ edge /\ pipe = 0
    /\ edge' = FALSE
    /\ UNCHANGED <<opList, pipe, posting, threadVars, runVars, opVars>>

LoopReturns ==
    /\ LeavePipeEvent("loop")
    /\ loop' = "top"
    /\ UNCHANGED <<sharedVars, owner, exitFlag, loopID, runVars, opVars>>

-----------------------------------------------------------------------------
(* The owner: runLoop(false, ...), ~EventPoller() *)

RunLoop ==
    /\ owner = "constructed"
    /\ loop' = "starting"
    /\ owner' = "starting"
    /\ UNCHANGED <<sharedVars, exitFlag, loopID, runVars, opVars>>

\* _semWithRunStarted.wait() returns, and the poller is handed out.
Started ==
    /\ owner = "starting"
    /\ loop \notin {"none", "starting"}
    /\ owner' = "using"
    /\ UNCHANGED <<sharedVars, loop, exitFlag, loopID, runVars, opVars>>

\* ~EventPoller() runs when the last pointer is dropped, so no client is
\* inside a call.  shutdown() begins with async_l(ExitException, first).
Shutdown ==
    /\ owner = "using"
    /\ \A c \in Clients : c \notin posting /\ waitFor[c] = 0
    /\ Push("owner", Exit, TRUE)
    /\ owner' = "joining"
    /\ UNCHANGED <<loop, exitFlag, loopID, runVars, opVars>>

GoesAtOnce == "destroyed"

\* ~EventPoller() calls onPipeEvent() once the loop thread is over.
ServesTheRest == "onPipeEvent"

\* join() and wait() return; the owner takes the loop thread's identity and
\* serves what is left.
Joined ==
    /\ owner = "joining"
    /\ "owner" \notin posting
    /\ loop = "exited"
    /\ owner' = ServesTheRest
    /\ loopID' = "owner"
    /\ EnterPipeEvent
    /\ UNCHANGED <<sharedVars, loop, exitFlag, batch, opVars>>

OwnerReturns ==
    /\ LeavePipeEvent("owner")
    /\ owner' = "destroyed"
    /\ UNCHANGED <<sharedVars, loop, exitFlag, loopID, runVars, opVars>>

Terminated == owner = "destroyed" /\ UNCHANGED vars

-----------------------------------------------------------------------------

PipeEvent(r) ==
    \/ Read(r) \/ Swap(r) \/ NextOperation(r) \/ EndOperation(r)

Submit(r) == OpRunsInPlace(r) \/ \E first \in BOOLEAN : OpEnqueues(r, first)

LoopStep == LoopStarts \/ LoopTop \/ Wake \/ LoopReturns \/ PipeEvent("loop")
OwnerStep == Joined \/ OwnerReturns \/ PipeEvent("owner")

Next ==
    \/ \E c \in Clients :
         \/ \E first \in BOOLEAN : Async(c, first) \/ Sync(c, first)
         \/ SyncReturn(c)
    \/ \E t \in Threads : Write(t)
    \/ \E o \in Operations : Cancel(o)
    \/ LoopStep \/ OwnerStep \/ DropEdge
    \/ \E r \in Runners : Submit(r)
    \/ RunLoop \/ Started \/ Shutdown \/ Terminated

Spec == Init /\ [][Next]_vars

\* Threads that can run do; operations end.
Fairness ==
    /\ WF_vars(LoopStep) /\ WF_vars(OwnerStep) /\ WF_vars(Started)
    /\ \A t \in Threads : WF_vars(Write(t))
    /\ \A c \in Clients : WF_vars(SyncReturn(c))

FairSpec == Spec /\ Fairness

-----------------------------------------------------------------------------
(* Properties *)

\* The loop thread never sleeps on work: while it is in epoll_wait with
\* operations queued, an event of the pipe is due, or somebody has still to
\* write.  It rests on reading until EAGAIN and before the swap, and holds
\* although a full pipe drops bytes.
NoLostWakeup ==
    loop = "asleep" /\ opList # <<>> => posting # {} \/ (edge /\ pipe > 0)

\* Operations of async() begin in the order of submission, over the list and
\* the batch together; in the list those of asyncFirst() lead, latest first.
SubmissionOrder ==
    LET all == batch \o opList IN
    /\ \A i, j \in DOMAIN all :
         i < j /\ {all[i], all[j]} \cap (fronts \cup {Exit}) = {} => all[i] < all[j]
    /\ \A i, j \in DOMAIN opList :
         i < j /\ opList[j] \in fronts /\ opList[i] # Exit
           => opList[i] \in fronts /\ opList[i] > opList[j]

\* The destructor loses no operation but those that operations run by the
\* destructor itself have queued again.
OnlyLateOperationsLost ==
    owner = "destroyed"
        => \A o \in 1..nOps : o \in finished \/ o \notin alive \/ o \in late

StatusOf(o) ==
    IF o > nOps THEN "unused"
    ELSE IF at = "running" /\ Head(batch) = o THEN "running"
    ELSE IF o \in finished THEN "done"
    ELSE IF o \in alive THEN "pending"
    ELSE "cancelled"

Executor == INSTANCE ExecutorProtocol WITH
    Callers <- Clients, NoOperation <- 0,
    status <- [o \in Operations |-> StatusOf(o)]

\* A poller keeps the promise of every executor, over the change of the
\* thread that runs the operations too.
ImplementsExecutor == Executor!Spec

\* ~EventPoller() returns: the loop thread gets the exit operation, however
\* full the pipe and however many operations are queued.
DestructorReturns == owner = "joining" ~> owner = "destroyed"

\* Every operation queued is over in the end, was cancelled, or came too late.
OperationsSettle ==
    \A o \in Operations :
        o <= nOps ~> o \in finished \/ o \notin alive \/ o \in late
=============================================================================

-------------------------- MODULE ExecutorProtocol --------------------------
(***************************************************************************)
(* What OperationExecutorProtocol (Thread/OperationExecutor.h) promises to *)
(* its callers, whichever executor is behind it: async() and asyncFirst()  *)
(* hand an operation over, sync() and syncFirst() also wait for it, and a  *)
(* handle may cancel it.  No thread, queue or lock is visible here.        *)
(* ThreadPool.tla and EventPoller.tla are shown to implement it.           *)
(***************************************************************************)
CONSTANTS Callers,     \* the threads that call the executor
          Operations,  \* the operations, each submitted at most once
          NoOperation  \* what a caller outside sync() waits for

VARIABLES status,      \* how far each operation is
          waitFor      \* the operation each caller is blocked on in sync()

vars == <<status, waitFor>>

Init ==
    /\ status = [o \in Operations |-> "unused"]
    /\ waitFor = [c \in Callers |-> NoOperation]

Move(o, from, to) == status[o] = from /\ status' = [status EXCEPT ![o] = to]

\* async(): the operation is now the executor's to run.
Submit(o) == Move(o, "unused", "pending") /\ UNCHANGED waitFor

\* sync(): the same, and the caller blocks.
SubmitAndWait(c, o) ==
    /\ Move(o, "unused", "pending")
    /\ waitFor[c] = NoOperation
    /\ waitFor' = [waitFor EXCEPT ![c] = o]

\* Either call on a thread of the executor may run the operation at once.
RunInPlace(o) == Move(o, "unused", "done") /\ UNCHANGED waitFor

Begin(o) == Move(o, "pending", "running") /\ UNCHANGED waitFor

\* The operation returns or throws.
End(o) == Move(o, "running", "done") /\ UNCHANGED waitFor

\* Operation::cancel() on one that has not begun; nobody waits for it, since
\* sync() keeps the handle to itself.
Cancel(o) ==
    /\ Move(o, "pending", "cancelled")
    /\ \A c \in Callers : waitFor[c] # o
    /\ UNCHANGED waitFor

\* sync() returns only once the operation is over.
SyncReturn(c) ==
    /\ waitFor[c] # NoOperation
    /\ status[waitFor[c]] = "done"
    /\ waitFor' = [waitFor EXCEPT ![c] = NoOperation]
    /\ UNCHANGED status

Next ==
    \/ \E o \in Operations :
         \/ Submit(o) \/ RunInPlace(o) \/ Begin(o) \/ End(o) \/ Cancel(o)
         \/ \E c \in Callers : SubmitAndWait(c, o)
    \/ \E c \in Callers : SyncReturn(c)

Spec == Init /\ [][Next]_vars
=============================================================================

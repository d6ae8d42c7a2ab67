-------------------------- MODULE ExecutorProvider --------------------------
(***************************************************************************)
(* OperationExecutorProvider (Thread/OperationExecutor.h) over executors   *)
(* with one thread each, as EventPollerPool and WorkThreadPool create them:*)
(* getExecutor() asks every executor for its load and returns the least    *)
(* loaded; getExecutorLoad() only asks.  They take no lock: the executors  *)
(* go to sleep and wake up, and the clock moves, between two loads that    *)
(* are read, and callers share _pos.                                       *)
(*                                                                         *)
(* getPoller() of a WorkThreadPool is getExecutor().  That of an           *)
(* EventPollerPool returns, without a change, the poller on whose thread   *)
(* it is called, as long as _preferCurrentThread says so.                  *)
(***************************************************************************)
EXTENDS ThreadLoad

CONSTANTS NumExecutors,  \* the size of _executors
          Callers,       \* threads that call the pool
          Home,          \* the executor whose loop thread a caller is, if it is one
          MaxNow,        \* bound: the clock
          MaxTurns       \* bound: how often an executor goes to sleep or gets up

Executors == 0..NumExecutors - 1

ASSUME NumAssumption == NumExecutors \in Nat \ {0}
ASSUME HomeAssumption ==
    DOMAIN Home \subseteq Callers /\ \A c \in DOMAIN Home : Home[c] \in Executors

VARIABLES
    now,       \* getCurrentMicrosecond()
    loads,     \* the ThreadLoad of each executor
    turns,     \* how often each executor went to sleep or got up
    slept,     \* the ticks of the clock each executor has slept through
    _pos,      \* where getExecutor() starts
    _preferCurrentThread,
    scan,      \* the local variables of getExecutor() or getExecutorLoad()
    readings   \* all that each executor has said its load was in this getExecutor()

providerVars == <<now, loads, turns, slept, _pos, _preferCurrentThread, scan, readings>>

NoReadings == [e \in Executors |-> {}]

Idle == [at |-> 0, i |-> 0, best |-> 0, minLoad |-> 0, in |-> "none"]

ProviderInit ==
    /\ now = 0
    /\ loads = [e \in Executors |-> Created(0)]
    /\ turns = [e \in Executors |-> 0]
    /\ slept = [e \in Executors |-> {}]
    /\ _pos = 0 /\ _preferCurrentThread = TRUE
    /\ scan = [c \in Callers |-> Idle]
    /\ readings = [c \in Callers |-> NoReadings]

-----------------------------------------------------------------------------
(* The executors *)

Asleep(e) == turns[e] > 0 /\ loads[e].sleeping

Tick ==
    /\ now < MaxNow
    /\ now' = now + 1
    /\ slept' = [e \in Executors |-> slept[e] \cup IF Asleep(e) THEN {now + 1} ELSE {}]
    /\ UNCHANGED <<loads, turns, _pos, _preferCurrentThread, scan, readings>>

\* The loop thread is in the pool, called by a callback it runs.
InCallback(e) == \E c \in DOMAIN Home : Home[c] = e /\ scan[c] # Idle

GoToSleep(e) ==
    /\ ~Asleep(e) /\ ~InCallback(e) /\ turns[e] < MaxTurns
    /\ loads' = [loads EXCEPT ![e] = StartSleep(loads[e], now)]
    /\ turns' = [turns EXCEPT ![e] = @ + 1]
    /\ UNCHANGED <<now, slept, _pos, _preferCurrentThread, scan, readings>>

GetUp(e) ==
    /\ Asleep(e) /\ turns[e] < MaxTurns
    /\ loads' = [loads EXCEPT ![e] = WakeUp(loads[e], now)]
    /\ turns' = [turns EXCEPT ![e] = @ + 1]
    /\ UNCHANGED <<now, slept, _pos, _preferCurrentThread, scan, readings>>

-----------------------------------------------------------------------------
(* getPoller() and getExecutor() *)

Sleeps == UNCHANGED <<now, turns, slept>>

\* getCurrentPoller() finds the poller whose loop thread the caller is.
OnLoopThread(c) == c \in DOMAIN Home

\* A loop thread calls the pool while it is awake, everybody else at any time.
MayCall(c) ==
    /\ scan[c] = Idle
    /\ OnLoopThread(c) => turns[Home[c]] > 0 /\ ~Asleep(Home[c])

PreferCurrentThread(flag) ==
    /\ _preferCurrentThread' = flag
    /\ Sleeps /\ UNCHANGED <<loads, _pos, scan, readings>>

Wrap(at) == IF at >= NumExecutors THEN 0 ELSE at

\* An executor that is asked for its load drops its old records ...
SayLoad(e) == loads' = [loads EXCEPT ![e] = Trim(loads[e], now)]

\* ... and getExecutor() goes by what it says.
ReadLoad(c, e) ==
    /\ SayLoad(e)
    /\ readings' = [readings EXCEPT ![c][e] = @ \cup {Load(loads'[e], now)}]

Begin(c) ==
    /\ MayCall(c)
    /\ LET at == Wrap(_pos) IN
       /\ ReadLoad(c, at)
       /\ scan' = [scan EXCEPT ![c] =
                     [at |-> at, i |-> 0, best |-> at, minLoad |-> Load(loads'[at], now),
                      in |-> "getExecutor"]]
    /\ Sleeps /\ UNCHANGED <<_pos, _preferCurrentThread>>

GetPoller(c) ==
    /\ ~(_preferCurrentThread /\ OnLoopThread(c))
    /\ Begin(c)

\* The loop is over: all were asked, or one was found that has no load.
Scanned(c) == scan[c].i = NumExecutors

EndsEarly(least) == least = 0

KeepsFirst(at, best, better) == best

\* The executor that says less than the least so far takes its place.
MinLoadExecutor(at, best, better) == IF better THEN at ELSE best

Scan(c) ==
    /\ scan[c].in = "getExecutor" /\ ~Scanned(c)
    /\ LET at == Wrap(scan[c].at) IN
       /\ ReadLoad(c, at)
       /\ LET load == Load(loads'[at], now)
              better == scan[c].minLoad > load
              least == IF better THEN load ELSE scan[c].minLoad
          IN scan' = [scan EXCEPT ![c] =
                        [at |-> IF EndsEarly(least) THEN at ELSE at + 1,
                         i |-> IF EndsEarly(least) THEN NumExecutors ELSE scan[c].i + 1,
                         best |-> MinLoadExecutor(at, scan[c].best, better),
                         minLoad |-> least,
                         in |-> "getExecutor"]]
    /\ Sleeps /\ UNCHANGED <<_pos, _preferCurrentThread>>

Return(c) ==
    /\ scan[c].in = "getExecutor" /\ Scanned(c)
    /\ _pos' = scan[c].at
    /\ scan' = [scan EXCEPT ![c] = Idle]
    /\ readings' = [readings EXCEPT ![c] = NoReadings]
    /\ Sleeps /\ UNCHANGED <<loads, _preferCurrentThread>>

\* getExecutorLoad(): the executors say their loads in turn.
AskLoad(c) ==
    /\ MayCall(c) \/ scan[c].in = "getExecutorLoad"
    /\ SayLoad(scan[c].i)
    /\ LET asked == scan[c].i + 1
           over == asked = NumExecutors
       IN  scan' = [scan EXCEPT ![c] =
                      IF over THEN Idle
                      ELSE [scan[c] EXCEPT !.i = asked, !.in = "getExecutorLoad"]]
    /\ Sleeps /\ UNCHANGED <<_pos, _preferCurrentThread, readings>>

ProviderNext ==
    \/ Tick
    \/ \E flag \in BOOLEAN : PreferCurrentThread(flag)
    \/ \E e \in Executors : GoToSleep(e) \/ GetUp(e)
    \/ \E c \in Callers : GetPoller(c) \/ Scan(c) \/ Return(c) \/ AskLoad(c)

ProviderSpec == ProviderInit /\ [][ProviderNext]_providerVars

-----------------------------------------------------------------------------
(* Properties *)

\* The records and the current interval of an executor cover exactly the last
\* TotalTime ticks: its run time is the number of those it did not sleep,
\* whatever load() and the limit of the list have dropped.
LoadIsMeasured ==
    \A e \in {d \in Executors : turns[d] > 0} :
        LET window == now - TotalTime(loads[e], now) + 1 .. now
        IN  /\ window \subseteq 1..now
            /\ TotalRunTime(loads[e], now) = Cardinality(window \ slept[e])

\* The executor that getExecutor() returns (best) has said of its load what no
\* executor, itself included, went below, and it was 0 or all were asked,
\* wherever the other callers have set _pos meanwhile and whatever became of the
\* loads since they were read.
LeastLoaded ==
    \A c \in Callers : scan[c].in = "getExecutor" /\ Scanned(c) =>
        \E least \in readings[c][scan[c].best] :
            /\ \A e \in Executors : \A load \in readings[c][e] : least <= load
            /\ least = 0 \/ \A e \in Executors : readings[c][e] # {}
=============================================================================

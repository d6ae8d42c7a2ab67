-------------------------- MODULE DelayOperations --------------------------
(***************************************************************************)
(* The delayed operations of Poller/EventPoller.cpp: a map ordered by due  *)
(* time, which the loop thread alone reads and writes.  Before it sleeps   *)
(* the loop runs what is due and computes how long to sleep, in            *)
(* milliseconds, 0 meaning that there is nothing to wait for; a sleeping   *)
(* loop is woken by its timeout or by a new registration.                  *)
(*                                                                         *)
(* Time is the millisecond clock of Util/Utilities.cpp: a thread of its own*)
(* looks at the system's clock, which people set, and leaves out steps that*)
(* go back or are too long.  epoll_wait measures its timeout by yet another*)
(* clock.  A delayed operation returns the delay until its next run, 0 to  *)
(* stop, or throws, and may start another delayed operation.               *)
(***************************************************************************)
EXTENDS Integers, Sequences, FiniteSets, Functions, SequencesExt

CONSTANTS Tasks,        \* the delayed operations, each started at most once
          ClientDelays, \* delayMs of other threads' startDelayOperation()
          TaskDelays,   \* delayMs of delayed operations' own calls
          NextDelays,   \* what a delayed operation may return
          MaxDue,       \* bound: the due times
          MaxTime,      \* bound: the clock
          Steps,        \* how far the system's clock moves between two looks at it
          Second,       \* steps that are not shorter are left out
          IntSize       \* 2^32: epoll_wait takes the timeout as an int

ASSUME DelaysAssumption ==
    ClientDelays \subseteq Nat /\ TaskDelays \subseteq Nat /\ NextDelays \subseteq Nat
ASSUME BoundsAssumption ==
    MaxDue \in Nat /\ MaxTime \in Nat /\ MaxDue <= MaxTime /\ IntSize \in Nat \ {0}
ASSUME StepsAssumption == Steps \subseteq Int /\ Second \in Nat

VARIABLES
    now,       \* getCurrentMillisecond()
    used,      \* the tasks that were started
    alive,     \* the tasks that are not cancelled
    ended,     \* the tasks that have returned 0 or thrown, or were skipped
    pending,   \* registrations waiting in _operationList
    delayMap,  \* _delayOperationMap
    copyMap,   \* copyMap of flushDelayOperation()
    flushNow,  \* its nowTime
    minDelay,  \* minDelay of runLoop()
    endless,   \* whether epoll_wait was called without a timeout
    pc         \* where the loop thread is

taskVars == <<used, alive, ended>>
vars == <<now, taskVars, pending, delayMap, copyMap, flushNow, minDelay, endless, pc>>

Entry == [due : 0..MaxDue, task : Tasks]

TypeOK ==
    /\ now \in 0..MaxTime /\ flushNow \in 0..MaxTime
    /\ used \subseteq Tasks /\ alive \subseteq used /\ ended \subseteq used
    /\ {pending, delayMap, copyMap} \subseteq Seq(Entry)
    /\ minDelay \in 0..MaxDue
    /\ endless \in BOOLEAN
    /\ pc \in {"top", "flush", "sleep", "asleep"}

Init ==
    /\ now = 0 /\ flushNow = 0 /\ minDelay = 0 /\ endless = FALSE
    /\ used = {} /\ alive = {} /\ ended = {}
    /\ pending = <<>> /\ delayMap = <<>> /\ copyMap = <<>>
    /\ pc = "top"

\* The clock thread: what it takes for time that has passed.
Expired(step) == IF step > 0 /\ step < Second THEN step ELSE 0

Tick(step) ==
    /\ now + Expired(step) <= MaxTime
    /\ now' = now + Expired(step)
    /\ UNCHANGED <<taskVars, pending, delayMap, copyMap, flushNow, minDelay, endless, pc>>

-----------------------------------------------------------------------------
(* The multimap: ordered by due time, equal times in order of insertion *)

UpperBound(map, e) == Cardinality({i \in DOMAIN map : map[i].due <= e.due})

Emplace(map, e) == InsertAt(map, UpperBound(map, e) + 1, e)

EmplaceAll(map, entries) ==
    LET f[n \in 0..Len(entries)] == IF n = 0 THEN map ELSE Emplace(f[n - 1], entries[n])
    IN  f[Len(entries)]

-----------------------------------------------------------------------------
(* startDelayOperation() and cancel() *)

NewTask(k) == k \notin used /\ used' = used \cup {k} /\ alive' = alive \cup {k}

\* By another thread: asyncFirst() puts the registration in front.
StartDelayOperation(k, delayMs) ==
    /\ now + delayMs <= MaxDue
    /\ NewTask(k)
    /\ pending' = <<[due |-> now + delayMs, task |-> k]>> \o pending
    /\ UNCHANGED <<now, ended, delayMap, copyMap, flushNow, minDelay, endless, pc>>

Cancel(k) ==
    /\ k \in alive \ ended
    /\ alive' = alive \ {k}
    /\ UNCHANGED <<now, used, ended, pending, delayMap, copyMap, flushNow, minDelay, endless, pc>>

-----------------------------------------------------------------------------
(* The loop thread *)

DueLate(e, time) == e.due < time

Due(e, time) == e.due <= time

\* getMinDelay(): nothing to do, nothing due yet, or the flush begins.
GetMinDelay ==
    /\ pc = "top"
    /\ IF delayMap # <<>> /\ Due(Head(delayMap), now)
       THEN /\ copyMap' = delayMap /\ delayMap' = <<>>
            /\ flushNow' = now
            /\ pc' = "flush"
            /\ UNCHANGED minDelay
       ELSE /\ minDelay' = IF delayMap = <<>> THEN 0 ELSE Head(delayMap).due - now
            /\ pc' = "sleep"
            /\ UNCHANGED <<copyMap, delayMap, flushNow>>
    /\ UNCHANGED <<now, taskVars, pending, endless>>

DueEntry == pc = "flush" /\ copyMap # <<>> /\ Due(Head(copyMap), flushNow)

\* A cancelled operation is not called and counts as having returned 0.
SkipTask ==
    /\ DueEntry
    /\ Head(copyMap).task \notin alive
    /\ ended' = ended \cup {Head(copyMap).task}
    /\ copyMap' = Tail(copyMap)
    /\ UNCHANGED <<now, used, alive, pending, delayMap, flushNow, minDelay, endless, pc>>

\* The operation returns (a throw drops it as a 0 does); its entry moves to
\* the other map with its next due time, or goes.
RunTask(next) ==
    LET k == Head(copyMap).task IN
    /\ DueEntry
    /\ k \in alive
    /\ next = 0 \/ flushNow + next <= MaxDue
    /\ IF next = 0
       THEN ended' = ended \cup {k} /\ UNCHANGED delayMap
       ELSE /\ delayMap' = Emplace(delayMap, [due |-> flushNow + next, task |-> k])
            /\ UNCHANGED ended
    /\ copyMap' = Tail(copyMap)
    /\ UNCHANGED <<now, used, alive, pending, flushNow, minDelay, endless, pc>>

\* A running operation calls startDelayOperation(): on the loop thread the
\* registration is run in place.
TaskStarts(k, delayMs) ==
    /\ DueEntry
    /\ Head(copyMap).task \in alive
    /\ now + delayMs <= MaxDue
    /\ NewTask(k)
    /\ delayMap' = Emplace(delayMap, [due |-> now + delayMs, task |-> k])
    /\ UNCHANGED <<now, ended, pending, copyMap, flushNow, minDelay, endless, pc>>

NewForgotten == copyMap

\* The new entries join the ones that were not due, ...
NewWithOld == EmplaceAll(copyMap, delayMap)

TheClock == now

\* ... and the delay returned is measured from the time the flush began.
FlushBegan == flushNow

FlushEnds ==
    /\ pc = "flush"
    /\ ~DueEntry
    /\ delayMap' = NewWithOld
    /\ minDelay' = IF delayMap' = <<>> THEN 0 ELSE Head(delayMap').due - FlushBegan
    /\ copyMap' = <<>>
    /\ pc' = "sleep"
    /\ UNCHANGED <<now, taskVars, pending, flushNow, endless>>

\* As an int a timeout of 2^31 and more is negative, which is none.
Negative(timeout) == 2 * (timeout % IntSize) >= IntSize

\* epoll_wait(..., minDelay ? minDelay : -1)
Sleep ==
    /\ pc = "sleep"
    /\ endless' = (minDelay = 0 \/ Negative(minDelay))
    /\ pc' = "asleep"
    /\ UNCHANGED <<now, taskVars, pending, delayMap, copyMap, flushNow, minDelay>>

WakeUp == pc = "asleep" /\ pc' = "top" /\ endless' = FALSE

\* Not when our clock says so: it may be behind, or ahead.
TimeoutExpires ==
    /\ WakeUp
    /\ ~endless
    /\ UNCHANGED <<now, taskVars, pending, delayMap, copyMap, flushNow, minDelay>>

\* The pipe wakes the loop, which runs every registration queued.
Register ==
    /\ WakeUp
    /\ pending # <<>>
    /\ delayMap' = EmplaceAll(delayMap, pending)
    /\ pending' = <<>>
    /\ UNCHANGED <<now, taskVars, copyMap, flushNow, minDelay>>

-----------------------------------------------------------------------------

LoopStep ==
    \/ GetMinDelay \/ SkipTask \/ FlushEnds \/ Sleep
    \/ \E next \in NextDelays \cup {0} : RunTask(next)

Next ==
    \/ \E step \in Steps : Tick(step)
    \/ \E k \in Tasks :
         \/ \E delayMs \in ClientDelays : StartDelayOperation(k, delayMs)
         \/ \E delayMs \in TaskDelays : TaskStarts(k, delayMs)
         \/ Cancel(k)
    \/ LoopStep \/ TimeoutExpires \/ Register

Spec == Init /\ [][Next]_vars

\* The clock thread sees time pass, the loop thread runs when it can, operations end, and
\* epoll_wait returns for a timeout or a registration.
FairSpec ==
    /\ Spec
    /\ WF_vars(\E step \in Steps : Expired(step) > 0 /\ Tick(step)) /\ WF_vars(LoopStep)
    /\ WF_vars(TimeoutExpires) /\ WF_vars(Register)

-----------------------------------------------------------------------------
(* Properties *)

Scheduled(k, due) ==
    [due |-> due, task |-> k] \in Range(pending) \cup Range(delayMap) \cup Range(copyMap)

\* The loop sleeps without a timeout only when no delayed operation is left.
SleepsForeverOnlyIdle == pc = "asleep" /\ endless => delayMap = <<>>

\* A started operation that has not ended has one entry, in one of the three
\* places, and one that has ended has none: the double swap of the flush
\* neither loses nor repeats an operation, whatever runs inside it.
OneEntryEach ==
    LET all == pending \o delayMap \o copyMap IN
    \A k \in used :
        Cardinality({i \in DOMAIN all : all[i].task = k}) = IF k \in ended THEN 0 ELSE 1

\* Every delayed operation is run, or skipped if cancelled, once it is due.
DueTasksRun ==
    \A k \in Tasks, due \in 0..MaxDue : Scheduled(k, due) ~> ~Scheduled(k, due)
=============================================================================

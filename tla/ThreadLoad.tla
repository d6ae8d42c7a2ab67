----------------------------- MODULE ThreadLoad -----------------------------
(***************************************************************************)
(* ThreadLoad (Thread/OperationExecutor.h): the share of its time that a   *)
(* thread has been running.  The members are a record; the methods, each   *)
(* of them under the mutex, are operators from the old record and the time *)
(* to the new one.                                                         *)
(***************************************************************************)
EXTENDS Integers, Sequences, FiniteSetsExt

CONSTANTS MaxSize,  \* _maxSize: intervals remembered
          MaxUsec   \* _maxUsec: how far back load() looks

ASSUME LimitsAssumption == MaxSize \in Nat \ {0} /\ MaxUsec \in Nat

TimeRecord == [time : Nat, isSleep : BOOLEAN]

Created(now) ==
    [sleeping |-> TRUE, lastSleep |-> now, lastWake |-> now, timeList |-> <<>>]

Remember(timeList, time, isSleep) ==
    LET longer == Append(timeList, [time |-> time, isSleep |-> isSleep])
    IN  IF Len(longer) > MaxSize THEN Tail(longer) ELSE longer

\* The thread goes to sleep: it has run since it woke up.
StartSleep(l, now) ==
    [l EXCEPT !.sleeping = TRUE, !.lastSleep = now,
              !.timeList = Remember(l.timeList, now - l.lastWake, FALSE)]

SinceLastWake(l, now) == now - l.lastWake

Slept(l, now) == now - l.lastSleep

\* The thread wakes up: it has slept since it went to sleep.
WakeUp(l, now) ==
    [l EXCEPT !.sleeping = FALSE, !.lastWake = now,
              !.timeList = Remember(l.timeList, Slept(l, now), TRUE)]

-----------------------------------------------------------------------------
(* load() *)

Total(times) ==
    LET sum[n \in 0..Len(times)] == IF n = 0 THEN 0 ELSE sum[n - 1] + times[n]
    IN  sum[Len(times)]

Times(records) == [n \in 1..Len(records) |-> records[n].time]

RunTimes(records) ==
    [n \in 1..Len(records) |-> IF records[n].isSleep THEN 0 ELSE records[n].time]

\* The interval that is not over yet.
Current(l, now) == now - IF l.sleeping THEN l.lastSleep ELSE l.lastWake

TotalTime(l, now) == Total(Times(l.timeList)) + Current(l, now)

TotalRunTime(l, now) ==
    Total(RunTimes(l.timeList)) + IF l.sleeping THEN 0 ELSE Current(l, now)

\* The oldest records go while there are too many or they reach too far back.
Trim(l, now) ==
    LET Rest(k) == SubSeq(l.timeList, k + 1, Len(l.timeList))
        Short(k) == /\ Total(Times(Rest(k))) + Current(l, now) <= MaxUsec
                    /\ Len(Rest(k)) <= MaxSize
        dropped == Min({k \in 0..Len(l.timeList) : k = Len(l.timeList) \/ Short(k)})
    IN  [l EXCEPT !.timeList = Rest(dropped)]

\* In percent, of what Trim() leaves.
Load(l, now) ==
    IF TotalTime(l, now) = 0 THEN 0
    ELSE (TotalRunTime(l, now) * 100) \div TotalTime(l, now)
=============================================================================

------------------------- MODULE EventPollerProofs -------------------------
(***************************************************************************)
(* Theorems about EventPoller.tla, for any clients, any number of          *)
(* operations and any sizes of the pipe and of a read: typing, no lost     *)
(* wakeup, the order of submission, what the destructor may lose, and that *)
(* a poller implements the executor protocol.  Below them theorems about   *)
(* ExecutorProvider.tla, by which pools of pollers choose among them, for  *)
(* any executors, callers and limits: that loads are measured, and that    *)
(* the least loaded executor is returned.                                  *)
(***************************************************************************)
EXTENDS EventPoller, ExecutorProvider, SequenceTheorems, FiniteSetTheorems,
        WellFoundedInduction, TLAPS

(***************************************************************************)
(* The inductive invariant.  RunInv relates the positions of the loop, of  *)
(* the owner and of whoever runs onPipeEvent() to the batch.  WakeInv is   *)
(* NoLostWakeup split in two and stated of all the places at which it must *)
(* hold for the sleep to be safe: what is queued has a byte in the pipe or *)
(* on its way there, and such a byte has raised the edge.  ListInv says    *)
(* which operations are in the batch and in the list, PlacedInv that all   *)
(* the others are over, and LateInv what is queued once the owner himself  *)
(* has taken the list.                                                     *)
(***************************************************************************)
All == batch \o opList

Submitted == 1..nOps

RunInv ==
    /\ owner = "constructed" => loop = "none"
    /\ owner \in {"onPipeEvent", "destroyed"} => loop = "exited"
    /\ at = "running" => batch # <<>> /\ Head(batch) # Exit
    /\ at \in {"read", "swap"} => batch = <<>>
    /\ ~Runs("loop") /\ ~Runs("owner") => batch = <<>>

\* The loop thread may have bytes or operations to find before it sleeps ...
Reading == loop = "onPipeEvent" /\ at = "read"
Draining == loop = "onPipeEvent" /\ at \in {"read", "swap"}

\* ... but not at any other place.
WakeInv == loop # "exited" =>
    /\ ~Reading /\ pipe > 0 => edge
    /\ ~Draining /\ opList # <<>> => posting # {} \/ pipe > 0

ListInv ==
    /\ Range(All) \subseteq {Exit} \cup (Submitted \ finished)
    /\ IsInjective(All)
    /\ alive \subseteq Submitted /\ finished \subseteq Submitted /\ fronts \subseteq Submitted
    /\ Exit \in Range(All) => owner \notin {"constructed", "starting", "using"}

PlacedInv == \A o \in Submitted : o \in finished \/ o \in Range(All) \/ o \notin alive

LateInv ==
    owner = "destroyed" \/ (owner = "onPipeEvent" /\ at \in {"next", "running"})
        => Range(opList) \subseteq late

Control == TypeOK /\ RunInv /\ WakeInv

USE BoundsAssumption
USE DEF Operations, Exit, Runners, Threads, Runs, sharedVars, threadVars, runVars, opVars, vars,
        Placed, RoomInPipe, EnterPipeEvent, ReadAll, Locks, LoopExits, ServesTheRest

Queueable == {Exit} \cup Operations

-----------------------------------------------------------------------------
(* Lists *)

\* List v is list u with o after its first k elements.
Inserted(u, v, k, o) ==
    /\ Len(v) = Len(u) + 1 /\ v[k + 1] = o
    /\ \A i \in 1..k : v[i] = u[i]
    /\ \A i \in (k + 1)..Len(u) : v[i + 1] = u[i]

\* In list q, what is not in X ascends.
Ascends(q, X) == \A i, j \in DOMAIN q : i < j /\ {q[i], q[j]} \cap X = {} => q[i] < q[j]

\* Where the elements of u are in v, and what else v has.
Shift(i, k) == IF i <= k THEN i ELSE i + 1

\* An insertion moves the elements of a list, and keeps their order.
LEMMA ShiftFacts ==
    ASSUME NEW S, NEW u \in Seq(S), NEW v \in Seq(S), NEW k \in 0..Len(u), NEW o,
           Inserted(u, v, k, o)
    PROVE  /\ \A i \in DOMAIN u :
                Shift(i, k) \in DOMAIN v /\ Shift(i, k) # k + 1 /\ v[Shift(i, k)] = u[i]
           /\ \A i, j \in DOMAIN u : i < j <=> Shift(i, k) < Shift(j, k)
           /\ \A i, j \in DOMAIN u : Shift(i, k) = Shift(j, k) => i = j
           /\ \A j \in DOMAIN v : j = k + 1 \/ \E i \in DOMAIN u : j = Shift(i, k)
           /\ k + 1 \in DOMAIN v /\ v[k + 1] = o
<1> USE DEF Shift
<1>1. Len(u) \in Nat /\ Len(v) = Len(u) + 1 /\ DOMAIN u = 1..Len(u) /\ DOMAIN v = 1..(Len(u) + 1)
      BY LenProperties DEF Inserted
<1>2. \A i \in DOMAIN u : Shift(i, k) \in DOMAIN v /\ Shift(i, k) # k + 1 /\ v[Shift(i, k)] = u[i]
      BY <1>1 DEF Inserted
<1>3. k + 1 \in DOMAIN v /\ v[k + 1] = o
      BY <1>1 DEF Inserted
<1>4. ASSUME NEW j \in DOMAIN v, j # k + 1 PROVE \E i \in DOMAIN u : j = Shift(i, k)
  <2>1. CASE j <= k
        BY <1>1, <2>1
  <2>2. CASE j > k + 1
    <3>1. j - 1 \in DOMAIN u /\ j = Shift(j - 1, k)
          BY <1>1, <2>2
    <3> QED BY <3>1
  <2> QED BY <1>1, <1>4, <2>1, <2>2
<1>5. /\ \A i, j \in DOMAIN u : i < j <=> Shift(i, k) < Shift(j, k)
      /\ \A i, j \in DOMAIN u : Shift(i, k) = Shift(j, k) => i = j
      BY <1>1
<1> QED BY <1>2, <1>3, <1>4, <1>5

\* An insertion adds one element, which is new if the longer list has no
\* element twice.
LEMMA InsertedFacts ==
    ASSUME NEW S, NEW u \in Seq(S), NEW v \in Seq(S), NEW k \in 0..Len(u), NEW o,
           Inserted(u, v, k, o)
    PROVE  /\ Range(v) = Range(u) \cup {o}
           /\ IsInjective(u) /\ o \notin Range(u) => IsInjective(v)
           /\ IsInjective(v) => IsInjective(u) /\ o \notin Range(u)
<1>1. /\ \A i \in DOMAIN u :
           Shift(i, k) \in DOMAIN v /\ Shift(i, k) # k + 1 /\ v[Shift(i, k)] = u[i]
      /\ \A i, j \in DOMAIN u : Shift(i, k) = Shift(j, k) => i = j
      /\ \A j \in DOMAIN v : j = k + 1 \/ \E i \in DOMAIN u : j = Shift(i, k)
      /\ k + 1 \in DOMAIN v /\ v[k + 1] = o
      BY ShiftFacts
<1>2. Range(v) = Range(u) \cup {o}
      BY <1>1 DEF Range
<1>3. ASSUME IsInjective(u), o \notin Range(u) PROVE IsInjective(v)
  <2> SUFFICES ASSUME NEW i \in DOMAIN v, NEW j \in DOMAIN v, v[i] = v[j] PROVE i = j
      BY DEF IsInjective
  <2>1. CASE i = k + 1 \/ j = k + 1
        BY <1>1, <1>3, <2>1 DEF Range
  <2>2. CASE i # k + 1 /\ j # k + 1
        BY <1>1, <1>3, <2>2 DEF IsInjective
  <2> QED BY <2>1, <2>2
<1>4. ASSUME IsInjective(v) PROVE IsInjective(u) /\ o \notin Range(u)
      BY <1>1, <1>4 DEF IsInjective, Range
<1> QED BY <1>2, <1>3, <1>4

\* A removal keeps a list ascending; an insertion does if what it adds does
\* not count, or is last and the greatest.
LEMMA InsertedAscends ==
    ASSUME NEW S, NEW u \in Seq(S), NEW v \in Seq(S), NEW k \in 0..Len(u), NEW o, NEW X,
           Inserted(u, v, k, o)
    PROVE  /\ Ascends(v, X) => Ascends(u, X)
           /\ Ascends(u, X) /\ o \in X => Ascends(v, X)
           /\ Ascends(u, X) /\ k = Len(u) /\ (\A x \in Range(u) : x < o) => Ascends(v, X)
<1>1. /\ \A i \in DOMAIN u :
           Shift(i, k) \in DOMAIN v /\ Shift(i, k) # k + 1 /\ v[Shift(i, k)] = u[i]
      /\ \A i, j \in DOMAIN u : i < j <=> Shift(i, k) < Shift(j, k)
      /\ \A j \in DOMAIN v : j = k + 1 \/ \E i \in DOMAIN u : j = Shift(i, k)
      /\ k + 1 \in DOMAIN v /\ v[k + 1] = o
      BY ShiftFacts
<1>2. Ascends(v, X) => Ascends(u, X)
      BY <1>1 DEF Ascends
<1>3. ASSUME Ascends(u, X), NEW i \in DOMAIN v, NEW j \in DOMAIN v, i < j, {v[i], v[j]} \cap X = {},
             i # k + 1, j # k + 1
      PROVE  v[i] < v[j]
  <2>1. PICK a \in DOMAIN u, b \in DOMAIN u : i = Shift(a, k) /\ j = Shift(b, k)
        BY <1>1, <1>3
  <2> QED BY <1>1, <1>3, <2>1 DEF Ascends
<1>4. Ascends(u, X) /\ o \in X => Ascends(v, X)
      BY <1>1, <1>3 DEF Ascends
<1>5. ASSUME Ascends(u, X), k = Len(u), \A x \in Range(u) : x < o PROVE Ascends(v, X)
  <2> SUFFICES ASSUME NEW i \in DOMAIN v, NEW j \in DOMAIN v, i < j, {v[i], v[j]} \cap X = {}
               PROVE  v[i] < v[j]
      BY DEF Ascends
  <2>1. i # k + 1
        BY <1>5, LenProperties DEF Inserted
  <2>2. CASE j = k + 1
    <3>1. v[i] \in Range(u)
          BY <1>1, <2>1 DEF Range
    <3> QED BY <1>1, <1>5, <2>2, <3>1
  <2> QED BY <1>3, <1>5, <2>1, <2>2
<1> QED BY <1>2, <1>4, <1>5

\* Two lists, one after the other.
LEMMA ConcatFacts ==
    ASSUME NEW b \in Seq(Queueable), NEW q \in Seq(Queueable)
    PROVE  /\ b \o q \in Seq(Queueable) /\ Len(b) \in Nat /\ Len(q) \in Nat
           /\ Len(b \o q) = Len(b) + Len(q)
           /\ \A i \in 1..Len(b) : (b \o q)[i] = b[i]
           /\ \A i \in 1..Len(q) : (b \o q)[Len(b) + i] = q[i]
<1>1. Len(b) \in Nat /\ Len(q) \in Nat
      BY LenProperties
<1>2. /\ b \o q \in Seq(Queueable) /\ Len(b \o q) = Len(b) + Len(q)
      /\ \A i \in 1..(Len(b) + Len(q)) :
           (b \o q)[i] = IF i <= Len(b) THEN b[i] ELSE q[i - Len(b)]
      BY ConcatProperties
<1>3. ASSUME NEW i \in 1..Len(q) PROVE (b \o q)[Len(b) + i] = q[i]
  <2>1. Len(b) + i \in 1..(Len(b) + Len(q)) /\ ~(Len(b) + i <= Len(b)) /\ Len(b) + i - Len(b) = i
        BY <1>1
  <2> QED BY <1>2, <2>1
<1> QED BY <1>1, <1>2, <1>3

\* An insertion into the second list is one into the whole.
LEMMA InsertedBehind ==
    ASSUME NEW b \in Seq(Queueable), NEW q \in Seq(Queueable), NEW p \in Seq(Queueable),
           NEW k \in 0..Len(q), NEW o, Inserted(q, p, k, o)
    PROVE  Inserted(b \o q, b \o p, Len(b) + k, o)
<1> DEFINE u == b \o q
           v == b \o p
           n == Len(b)
<1>1. /\ n \in Nat /\ Len(q) \in Nat /\ Len(u) = n + Len(q) /\ Len(v) = n + Len(p)
      /\ \A i \in 1..n : u[i] = b[i] /\ v[i] = b[i]
      /\ \A i \in 1..Len(q) : u[n + i] = q[i]
      /\ \A i \in 1..Len(p) : v[n + i] = p[i]
      BY ConcatFacts
<1>2. /\ Len(p) = Len(q) + 1 /\ p[k + 1] = o
      /\ \A i \in 1..k : p[i] = q[i]
      /\ \A i \in (k + 1)..Len(q) : p[i + 1] = q[i]
      BY DEF Inserted
<1> HIDE DEF u, v, n
<1>3. v[(n + k) + 1] = o
  <2>1. k + 1 \in 1..Len(p) /\ (n + k) + 1 = n + (k + 1)
        BY <1>1, <1>2
  <2> QED BY <1>1, <1>2, <2>1
<1>4. ASSUME NEW i \in 1..(n + k) PROVE v[i] = u[i]
  <2>1. CASE i <= n
        BY <1>1, <2>1
  <2>2. CASE i > n
    <3> DEFINE m == i - n
    <3>1. m \in 1..k /\ m \in 1..Len(q) /\ m \in 1..Len(p) /\ i = n + m
          BY <1>1, <1>2, <2>2
    <3> HIDE DEF m
    <3> QED BY <1>1, <1>2, <3>1
  <2> QED BY <1>1, <2>1, <2>2
<1>5. ASSUME NEW i \in ((n + k) + 1)..Len(u) PROVE v[i + 1] = u[i]
  <2> DEFINE m == i - n
  <2>1. /\ m \in (k + 1)..Len(q) /\ m \in 1..Len(q) /\ m + 1 \in 1..Len(p)
        /\ i = n + m /\ i + 1 = n + (m + 1)
        BY <1>1, <1>2
  <2> HIDE DEF m
  <2> QED BY <1>1, <1>2, <2>1
<1>6. Len(v) = Len(u) + 1
      BY <1>1, <1>2
<1>7. Inserted(u, v, n + k, o)
      BY <1>3, <1>4, <1>5, <1>6 DEF Inserted
<1> QED BY <1>7 DEF u, v, n

\* What the lists of the poller become as an operation is queued.
LEMMA ListFacts ==
    ASSUME NEW b \in Seq(Queueable), NEW q \in Seq(Queueable), NEW o \in Queueable
    PROVE  /\ b \o q \in Seq(Queueable)
           /\ Len(q) \in 0..Len(q) /\ 0 \in 0..Len(q)
           /\ Len(b \o q) \in 0..Len(b \o q) /\ Len(b) \in 0..Len(b \o q)
           /\ Append(q, o) \in Seq(Queueable) /\ Inserted(q, Append(q, o), Len(q), o)
           /\ <<o>> \o q \in Seq(Queueable) /\ Inserted(q, <<o>> \o q, 0, o)
           /\ b \o Append(q, o) \in Seq(Queueable)
           /\ Inserted(b \o q, b \o Append(q, o), Len(b \o q), o)
           /\ b \o (<<o>> \o q) \in Seq(Queueable)
           /\ Inserted(b \o q, b \o (<<o>> \o q), Len(b), o)
<1>1. Len(b) \in Nat /\ Len(q) \in Nat /\ b \o q \in Seq(Queueable) /\ Len(b \o q) = Len(b) + Len(q)
      BY ConcatFacts
<1>2. Append(q, o) \in Seq(Queueable) /\ Inserted(q, Append(q, o), Len(q), o)
      BY <1>1, AppendProperties DEF Inserted
<1>3. <<o>> \o q \in Seq(Queueable) /\ Inserted(q, <<o>> \o q, 0, o)
  <2>1. <<o>> \in Seq(Queueable) /\ Len(<<o>>) = 1 /\ <<o>>[1] = o
        OBVIOUS
  <2>2. /\ <<o>> \o q \in Seq(Queueable) /\ Len(<<o>> \o q) = 1 + Len(q)
        /\ (<<o>> \o q)[1] = o /\ \A i \in 1..Len(q) : (<<o>> \o q)[1 + i] = q[i]
        BY <2>1, ConcatFacts
  <2> QED BY <1>1, <2>2 DEF Inserted
<1>4. Len(q) \in 0..Len(q) /\ 0 \in 0..Len(q) /\ Len(b) + 0 = Len(b)
      BY <1>1
<1>5. /\ b \o Append(q, o) \in Seq(Queueable)
      /\ Inserted(b \o q, b \o Append(q, o), Len(b) + Len(q), o)
  <2> DEFINE p == Append(q, o)
  <2>1. p \in Seq(Queueable) /\ Inserted(q, p, Len(q), o)
        BY <1>2
  <2> HIDE DEF p
  <2>2. b \o p \in Seq(Queueable) /\ Inserted(b \o q, b \o p, Len(b) + Len(q), o)
        BY <1>4, <2>1, InsertedBehind, ConcatFacts
  <2> QED BY <2>2 DEF p
<1>6. /\ b \o (<<o>> \o q) \in Seq(Queueable)
      /\ Inserted(b \o q, b \o (<<o>> \o q), Len(b), o)
  <2> DEFINE p == <<o>> \o q
  <2>1. p \in Seq(Queueable) /\ Inserted(q, p, 0, o)
        BY <1>3
  <2> HIDE DEF p
  <2>2. b \o p \in Seq(Queueable) /\ Inserted(b \o q, b \o p, Len(b) + 0, o)
        BY <1>4, <2>1, InsertedBehind, ConcatFacts
  <2> QED BY <1>4, <2>2 DEF p
<1>7. Len(b \o q) \in 0..Len(b \o q) /\ Len(b) \in 0..Len(b \o q)
      BY <1>1
<1> QED BY <1>1, <1>2, <1>3, <1>4, <1>5, <1>6, <1>7

\* What taking the first operation of the batch does to both lists together.
LEMMA TailFacts ==
    ASSUME NEW b \in Seq(Queueable), NEW q \in Seq(Queueable), b # <<>>
    PROVE  /\ Tail(b) \in Seq(Queueable) /\ Head(b) \in Queueable
           /\ Tail(b) \o q \in Seq(Queueable)
           /\ Inserted(Tail(b) \o q, b \o q, 0, Head(b))
<1> DEFINE c == Tail(b)
           u == c \o q
           v == b \o q
<1>1. Len(b) \in Nat \ {0} /\ Len(q) \in Nat
      BY LenProperties, EmptySeq
<1>2. c \in Seq(Queueable) /\ Len(c) = Len(b) - 1 /\ Head(b) = b[1] /\ Head(b) \in Queueable
      BY HeadTailProperties
<1>3. \A i \in 1..Len(c) : c[i] = b[i + 1]
      BY <1>1, <1>2, HeadTailProperties
<1> HIDE DEF c
<1>4. /\ v \in Seq(Queueable) /\ Len(v) = Len(b) + Len(q)
      /\ \A i \in 1..Len(b) : v[i] = b[i]
      /\ \A i \in 1..Len(q) : v[Len(b) + i] = q[i]
      BY ConcatFacts
<1>5. /\ u \in Seq(Queueable) /\ Len(u) = Len(c) + Len(q)
      /\ \A i \in 1..Len(c) : u[i] = c[i]
      /\ \A i \in 1..Len(q) : u[Len(c) + i] = q[i]
      BY <1>2, ConcatFacts
<1> HIDE DEF u, v
<1>6. ASSUME NEW i \in 1..Len(u) PROVE v[i + 1] = u[i]
  <2>1. CASE i <= Len(c)
        BY <1>1, <1>2, <1>3, <1>4, <1>5, <2>1
  <2>2. CASE i > Len(c)
    <3> DEFINE m == i - Len(c)
    <3>1. m \in 1..Len(q) /\ i = Len(c) + m /\ i + 1 = Len(b) + m
          BY <1>1, <1>2, <1>5, <2>2
    <3> HIDE DEF m
    <3> QED BY <1>4, <1>5, <3>1
  <2> QED BY <1>1, <1>2, <1>5, <2>1, <2>2
<1>7. v[1] = Head(b) /\ Len(v) = Len(u) + 1
      BY <1>1, <1>2, <1>4, <1>5
<1>8. Inserted(u, v, 0, Head(b))
      BY <1>6, <1>7 DEF Inserted
<1> QED BY <1>2, <1>5, <1>8 DEF c, u, v

\* The same, of the lists of the model.
LEMMA PlacedFacts ==
    ASSUME TypeOK, NEW o \in Queueable, NEW first \in BOOLEAN
    PROVE  /\ Placed(o, first) \in Seq(Queueable) /\ Placed(o, first) # <<>>
           /\ Len(opList) \in 0..Len(opList) /\ 0 \in 0..Len(opList)
           /\ Inserted(opList, Placed(o, first), IF first THEN 0 ELSE Len(opList), o)
           /\ All \in Seq(Queueable) /\ batch \o Placed(o, first) \in Seq(Queueable)
           /\ Len(All) \in 0..Len(All) /\ Len(batch) \in 0..Len(All)
           /\ Inserted(All, batch \o Placed(o, first),
                       IF first THEN Len(batch) ELSE Len(All), o)
<1>1. batch \in Seq(Queueable) /\ opList \in Seq(Queueable)
      BY DEF TypeOK, Queueable
<1>2. Placed(o, first) # <<>>
  <2>1. Len(opList) \in Nat /\ Len(Append(opList, o)) = Len(opList) + 1
        BY <1>1, LenProperties, AppendProperties
  <2>2. Len(<<o>> \o opList) = Len(opList) + 1
        BY <1>1, ListFacts DEF Inserted
  <2>3. \A q : Len(q) = Len(opList) + 1 => q # <<>>
        BY <2>1
  <2> QED BY <2>1, <2>2, <2>3
<1>3. CASE first
      BY <1>1, <1>2, <1>3, ListFacts DEF All
<1>4. CASE ~first
      BY <1>1, <1>2, <1>4, ListFacts DEF All
<1> QED BY <1>3, <1>4

-----------------------------------------------------------------------------
(* Typing and the wakeups *)

\* Whoever queues an operation is about to write to the pipe.
LEMMA PushControl ==
    ASSUME Control, NEW t \in Threads, NEW o \in Queueable, NEW first \in BOOLEAN,
           Push(t, o, first), loop' = loop, owner' \in {owner, "joining"}, loopID' = loopID,
           exitFlag' = exitFlag, UNCHANGED runVars,
           owner' # owner => owner = "using",
           nOps' \in 0..MaxOps /\ fronts' \subseteq Operations /\ alive' \subseteq Operations,
           finished' \subseteq Operations /\ late' \subseteq Operations,
           waitFor' \in [Clients -> 0..MaxOps]
    PROVE  Control'
<1> USE DEF Control
<1>1. opList' \in Seq(Queueable) /\ opList' # <<>> /\ posting' = posting \cup {t}
      BY PlacedFacts DEF Push
<1>2. TypeOK'
      BY <1>1 DEF TypeOK, Push, Queueable
<1>3. RunInv'
      BY DEF RunInv
<1>4. WakeInv'
      BY <1>1 DEF WakeInv, Push, Reading, Draining
<1> QED BY <1>2, <1>3, <1>4

\* The types of the new operation.
LEMMA EnqueueControl ==
    ASSUME Control, NEW t \in Threads, NEW first \in BOOLEAN, Enqueue(t, first),
           UNCHANGED <<threadVars, runVars>>, waitFor' \in [Clients -> 0..MaxOps]
    PROVE  Control'
<1>1. nOps + 1 \in Operations /\ nOps + 1 \in Queueable
      BY DEF Control, TypeOK, Enqueue, Queueable
<1>2. /\ nOps' \in 0..MaxOps /\ fronts' \subseteq Operations /\ alive' \subseteq Operations
      /\ finished' \subseteq Operations /\ late' \subseteq Operations
      BY <1>1 DEF Control, TypeOK, Enqueue
<1>3. Push(t, nOps + 1, first)
      BY DEF Enqueue
<1> QED BY <1>1, <1>2, <1>3, PushControl

\* Submissions and cancellations.
LEMMA CallControl ==
    ASSUME Control,
           \/ \E c \in Clients :
                \/ \E first \in BOOLEAN : Async(c, first) \/ Sync(c, first)
                \/ SyncReturn(c)
           \/ \E o \in Operations : Cancel(o)
           \/ \E r \in Runners : Submit(r)
           \/ Shutdown
    PROVE  Control'
<1> USE DEF Control
<1>1. ASSUME NEW c \in Clients, NEW first \in BOOLEAN, Async(c, first) PROVE Control'
  <2>1. waitFor' \in [Clients -> 0..MaxOps]
        BY <1>1 DEF TypeOK, Async
  <2> QED BY <1>1, <2>1, EnqueueControl DEF Async
<1>2. ASSUME NEW c \in Clients, NEW first \in BOOLEAN, Sync(c, first) PROVE Control'
  <2>1. waitFor' \in [Clients -> 0..MaxOps]
        BY <1>2 DEF TypeOK, Sync, Enqueue
  <2> QED BY <1>2, <2>1, EnqueueControl DEF Sync
<1>3. ASSUME NEW c \in Clients, SyncReturn(c) PROVE Control'
  <2>1. TypeOK'
        BY <1>3 DEF TypeOK, SyncReturn
  <2>2. RunInv' /\ WakeInv'
        BY <1>3 DEF SyncReturn, RunInv, WakeInv, Reading, Draining
  <2> QED BY <2>1, <2>2
<1>4. ASSUME NEW o \in Operations, Cancel(o) PROVE Control'
  <2>1. TypeOK'
        BY <1>4 DEF TypeOK, Cancel
  <2>2. RunInv' /\ WakeInv'
        BY <1>4 DEF Cancel, RunInv, WakeInv, Reading, Draining
  <2> QED BY <2>1, <2>2
<1>5. ASSUME NEW r \in Runners, NEW first \in BOOLEAN, OpEnqueues(r, first) PROVE Control'
  <2>1. waitFor' \in [Clients -> 0..MaxOps]
        BY <1>5 DEF TypeOK, OpEnqueues
  <2> QED BY <1>5, <2>1, EnqueueControl DEF OpEnqueues
<1>6. ASSUME NEW r \in Runners, OpRunsInPlace(r) PROVE Control'
  <2>1. TypeOK'
        BY <1>6 DEF TypeOK, OpRunsInPlace
  <2>2. RunInv' /\ WakeInv'
        BY <1>6 DEF OpRunsInPlace, RunInv, WakeInv, Reading, Draining
  <2> QED BY <2>1, <2>2
<1>7. CASE Shutdown
  <2>1. "owner" \in Threads /\ Exit \in Queueable /\ TRUE \in BOOLEAN
        BY DEF Queueable
  <2> QED BY <1>7, <2>1, PushControl DEF Shutdown, TypeOK
<1> QED BY <1>1, <1>2, <1>3, <1>4, <1>5, <1>6, <1>7 DEF Submit

\* A write finds room in the pipe, or bytes in it.
LEMMA WriteControl == ASSUME Control, NEW t \in Threads, Write(t) PROVE Control'
<1> USE DEF Control
<1>1. CASE RoomInPipe
  <2>1. /\ pipe' = pipe + 1 /\ (pipe = 0 => edge' = TRUE) /\ (edge => edge' = TRUE)
        /\ edge' \in BOOLEAN /\ posting' = posting \ {t}
        BY <1>1 DEF Write, TypeOK
  <2>2. TypeOK'
        BY <1>1, <2>1 DEF TypeOK, Write
  <2>3. RunInv'
        BY DEF Write, RunInv
  <2>4. WakeInv'
        BY <2>1 DEF Write, WakeInv, Reading, Draining, TypeOK
  <2> QED BY <2>2, <2>3, <2>4
<1>2. CASE ~RoomInPipe
  <2>1. pipe > 0 /\ pipe' = pipe /\ edge' = edge /\ posting' = posting \ {t}
        BY <1>2 DEF Write, TypeOK
  <2>2. TypeOK'
        BY <2>1 DEF TypeOK, Write
  <2>3. RunInv'
        BY DEF Write, RunInv
  <2>4. WakeInv'
        BY <2>1 DEF Write, WakeInv, Reading, Draining
  <2> QED BY <2>2, <2>3, <2>4
<1> QED BY <1>1, <1>2

\* Only what onPipeEvent() finds when it reports the pipe empty lets it take
\* the list, and only then may it leave the rest to a later wakeup.
LEMMA PipeEventControl == ASSUME Control, NEW r \in Runners, PipeEvent(r) PROVE Control'
<1> USE DEF Control
<1>1. CASE Read(r)
  <2>1. TypeOK'
        BY <1>1 DEF TypeOK, Read
  <2>2. RunInv'
        BY <1>1 DEF Read, RunInv
  <2>3. WakeInv'
    <3>1. CASE loop = "onPipeEvent"
      <4>1. pipe' > 0 => at' = "read"
            BY <1>1 DEF Read, TypeOK
      <4>2. loop' = "onPipeEvent" /\ at' \in {"read", "swap"}
            BY <1>1, <3>1 DEF Read
      <4> QED BY <4>1, <4>2 DEF WakeInv, Reading, Draining
    <3>2. CASE loop # "onPipeEvent"
          BY <1>1, <3>2 DEF Read, WakeInv, RunInv
    <3> QED BY <3>1, <3>2
  <2> QED BY <2>1, <2>2, <2>3
<1>2. CASE Swap(r)
  <2>0. <<>> \in Seq(Queueable)
        BY EmptySeq
  <2>1. TypeOK'
        BY <1>2, <2>0 DEF TypeOK, Swap, Queueable
  <2>2. RunInv'
        BY <1>2 DEF Swap, RunInv, TypeOK
  <2>3. WakeInv'
        BY <1>2 DEF Swap, WakeInv, Reading, Draining, TypeOK
  <2> QED BY <2>1, <2>2, <2>3
<1>3. CASE NextOperation(r)
  <2>0. /\ batch # <<>> /\ Tail(batch) \in Seq(Queueable) /\ exitFlag' \in BOOLEAN
        /\ batch' \in {batch, Tail(batch)} /\ at' \in {"next", "running"}
        /\ at' = "running" => batch' = batch /\ Head(batch) # Exit
    <3>1. batch \in Seq(Queueable) /\ opList \in Seq(Queueable) /\ batch # <<>>
          BY <1>3 DEF TypeOK, Queueable, NextOperation
    <3> QED BY <1>3, <3>1, TailFacts DEF NextOperation, TypeOK
  <2>1. TypeOK'
        BY <1>3, <2>0 DEF TypeOK, NextOperation, Queueable
  <2>2. RunInv'
        BY <1>3, <2>0 DEF NextOperation, RunInv, TypeOK
  <2>3. WakeInv'
        BY <1>3, <2>0 DEF NextOperation, WakeInv, Reading, Draining
  <2> QED BY <2>1, <2>2, <2>3
<1>4. CASE EndOperation(r)
  <2>0. Tail(batch) \in Seq(Queueable) /\ Head(batch) \in Operations
    <3>1. batch \in Seq(Queueable) /\ opList \in Seq(Queueable) /\ batch # <<>> /\ Head(batch) # Exit
          BY <1>4 DEF TypeOK, Queueable, EndOperation, CanStep, RunInv
    <3> QED BY <3>1, TailFacts DEF Queueable
  <2>1. TypeOK'
        BY <1>4, <2>0 DEF TypeOK, EndOperation, CanStep, Queueable
  <2>2. RunInv'
        BY <1>4 DEF EndOperation, CanStep, RunInv, TypeOK
  <2>3. WakeInv'
        BY <1>4 DEF EndOperation, CanStep, WakeInv, Reading, Draining
  <2> QED BY <2>1, <2>2, <2>3
<1> QED BY <1>1, <1>2, <1>3, <1>4 DEF PipeEvent

\* The loop thread and the owner, outside onPipeEvent().
LEMMA ThreadControl ==
    ASSUME Control,
           LoopStarts \/ LoopTop \/ Wake \/ LoopReturns \/ Joined \/ OwnerReturns \/ DropEdge
             \/ RunLoop \/ Started
    PROVE  Control'
<1> USE DEF Control
<1>1. TypeOK'
  <2>1. CASE LoopStarts \/ LoopTop \/ LoopReturns \/ DropEdge \/ RunLoop \/ Started
        BY <2>1 DEF LoopStarts, LoopTop, LoopReturns, LeavePipeEvent, DropEdge, RunLoop, Started, TypeOK
  <2>2. CASE Wake
        BY <2>2 DEF Wake, TypeOK, RunInv
  <2>3. CASE Joined \/ OwnerReturns
        BY <2>3 DEF Joined, OwnerReturns, LeavePipeEvent, TypeOK
  <2> QED BY <2>1, <2>2, <2>3
<1>2. RunInv'
      BY DEF LoopStarts, LoopTop, Wake, LoopReturns, LeavePipeEvent, Joined, OwnerReturns, DropEdge,
         RunLoop, Started, TypeOK, RunInv
<1>3. WakeInv'
      BY DEF LoopStarts, LoopTop, Wake, LoopReturns, LeavePipeEvent, Joined, OwnerReturns, DropEdge,
         RunLoop, Started, TypeOK, RunInv, WakeInv, Reading, Draining
<1> QED BY <1>1, <1>2, <1>3

\* Every step keeps Control.
LEMMA ControlStep == Control /\ [Next]_vars => Control'
<1> SUFFICES ASSUME Control, [Next]_vars PROVE Control'
    OBVIOUS
<1>1. CASE UNCHANGED vars
      BY <1>1 DEF Control, TypeOK, RunInv, WakeInv, Reading, Draining
<1> QED
    BY <1>1, CallControl, WriteControl, PipeEventControl, ThreadControl
    DEF Next, LoopStep, OwnerStep, Terminated

-----------------------------------------------------------------------------
(* What is queued, and in which order *)

\* Operations of asyncFirst() lead list q, the latest first.
FrontsLead(q, F) ==
    \A i, j \in DOMAIN q : i < j /\ q[j] \in F /\ q[i] # Exit => q[i] \in F /\ q[i] > q[j]

Ordered == Ascends(All, fronts \cup {Exit}) /\ FrontsLead(opList, fronts)

Lists == ListInv /\ Ordered /\ PlacedInv /\ LateInv

\* Where the last part of the invariant speaks.
OwnerServed == owner = "destroyed" \/ (owner = "onPipeEvent" /\ at \in {"next", "running"})

\* An operation of asyncFirst() goes in front of the smaller ones, one of
\* async() behind them, and the exit operation in front of all.
LEMMA InsertedLeads ==
    ASSUME NEW u \in Seq(Queueable), NEW v \in Seq(Queueable), NEW k \in 0..Len(u),
           NEW o \in Queueable, Inserted(u, v, k, o),
           NEW F, NEW G, F \subseteq G, G \subseteq F \cup {o}, o \notin Range(u),
           FrontsLead(u, F),
           \/ k = Len(u) /\ o \notin G
           \/ k = 0 /\ o \in G /\ \A x \in Range(u) : x < o
           \/ k = 0 /\ o = Exit /\ o \notin G
    PROVE  FrontsLead(v, G)
<1>1. /\ \A i \in DOMAIN u :
           Shift(i, k) \in DOMAIN v /\ Shift(i, k) # k + 1 /\ v[Shift(i, k)] = u[i]
      /\ \A i, j \in DOMAIN u : i < j <=> Shift(i, k) < Shift(j, k)
      /\ \A j \in DOMAIN v : j = k + 1 \/ \E i \in DOMAIN u : j = Shift(i, k)
      /\ k + 1 \in DOMAIN v /\ v[k + 1] = o
      BY ShiftFacts
<1>2. /\ Len(u) \in Nat /\ DOMAIN u = 1..Len(u) /\ DOMAIN v = 1..(Len(u) + 1)
      /\ \A i \in DOMAIN u : u[i] \in Queueable
      BY LenProperties, ElementOfSeq DEF Inserted
<1> SUFFICES ASSUME NEW i \in DOMAIN v, NEW j \in DOMAIN v, i < j, v[j] \in G, v[i] # Exit
             PROVE  v[i] \in G /\ v[i] > v[j]
    BY DEF FrontsLead
<1>0. i \in Nat /\ j \in Nat /\ k \in Nat /\ Len(u) \in Nat /\ 1 <= i /\ j <= Len(u) + 1
  <2>1. Len(u) \in Nat /\ i \in 1..(Len(u) + 1) /\ j \in 1..(Len(u) + 1)
        BY <1>2
  <2> QED BY <2>1
<1>3. ASSUME NEW a \in DOMAIN u PROVE u[a] \in Range(u) /\ u[a] # o /\ (u[a] \in G => u[a] \in F)
      BY <1>3 DEF Range
<1>4. CASE i # k + 1 /\ j # k + 1
  <2>1. PICK a \in DOMAIN u, b \in DOMAIN u : i = Shift(a, k) /\ j = Shift(b, k)
        BY <1>1, <1>4
  <2>2. a < b /\ v[i] = u[a] /\ v[j] = u[b]
        BY <1>1, <2>1
  <2> QED BY <1>3, <2>2 DEF FrontsLead
<1>5. CASE j = k + 1
  <2>1. v[j] = o /\ k # 0
        BY <1>0, <1>1, <1>5
  <2> QED BY <1>2, <2>1
<1>6. CASE i = k + 1 /\ j # k + 1
  <2>1. PICK b \in DOMAIN u : j = Shift(b, k) /\ v[j] = u[b]
        BY <1>1, <1>6
  <2>2. v[i] = o /\ o # Exit
        BY <1>1, <1>6
  <2>3. k # Len(u)
        BY <1>0, <1>6
  <2>4. o \in G /\ u[b] < o
        BY <1>3, <2>2, <2>3
  <2>5. u[b] \in Queueable
        BY <1>2
  <2>6. o > u[b]
        BY <2>4, <2>5 DEF Queueable
  <2> QED BY <2>1, <2>2, <2>4, <2>6
<1> QED BY <1>4, <1>5, <1>6

\* The elements of two lists.
LEMMA ConcatRange ==
    ASSUME NEW b \in Seq(Queueable), NEW q \in Seq(Queueable)
    PROVE  Range(b \o q) = Range(b) \cup Range(q)
<1> DEFINE v == b \o q
<1>1. /\ v \in Seq(Queueable) /\ Len(b) \in Nat /\ Len(q) \in Nat /\ Len(v) = Len(b) + Len(q)
      /\ \A i \in 1..Len(b) : v[i] = b[i]
      /\ \A i \in 1..Len(q) : v[Len(b) + i] = q[i]
      BY ConcatFacts
<1> HIDE DEF v
<1>2. DOMAIN v = 1..(Len(b) + Len(q)) /\ DOMAIN b = 1..Len(b) /\ DOMAIN q = 1..Len(q)
      BY <1>1, LenProperties
<1>3. Range(b) \subseteq Range(v)
  <2>1. \A i \in DOMAIN b : i \in DOMAIN v
        BY <1>1, <1>2
  <2> QED BY <1>1, <1>2, <2>1 DEF Range
<1>4. Range(q) \subseteq Range(v)
  <2>1. \A i \in DOMAIN q : Len(b) + i \in DOMAIN v
        BY <1>1, <1>2
  <2> QED BY <1>1, <1>2, <2>1 DEF Range
<1>5. ASSUME NEW i \in DOMAIN v PROVE v[i] \in Range(b) \cup Range(q)
  <2>1. CASE i <= Len(b)
    <3>1. i \in DOMAIN b
          BY <1>1, <1>2, <2>1
    <3> QED BY <1>1, <1>2, <3>1 DEF Range
  <2>2. CASE i > Len(b)
    <3> DEFINE m == i - Len(b)
    <3>1. m \in DOMAIN q /\ i = Len(b) + m
          BY <1>1, <1>2, <2>2
    <3> HIDE DEF m
    <3> QED BY <1>1, <1>2, <3>1 DEF Range
  <2> QED BY <1>1, <1>2, <2>1, <2>2
<1> QED BY <1>3, <1>4, <1>5 DEF Range, v

\* An operation is queued: both lists together are in order again.
LEMMA PushLists ==
    ASSUME TypeOK, NEW t, NEW o \in Queueable, NEW first \in BOOLEAN, Push(t, o, first),
           batch' = batch, o \notin Range(All), IsInjective(All), Ordered,
           fronts \subseteq fronts', fronts' \subseteq fronts \cup {o}, Exit \notin fronts',
           o = Exit => first,
           o # Exit => (first <=> o \in fronts') /\ \A x \in Range(All) : x < o
    PROVE  /\ Range(All') = Range(All) \cup {o} /\ IsInjective(All')
           /\ Range(opList') = Range(opList) \cup {o} /\ Ordered'
<1>1. batch \in Seq(Queueable) /\ opList \in Seq(Queueable) /\ Range(opList) \subseteq Range(All)
  <2>1. batch \in Seq(Queueable) /\ opList \in Seq(Queueable)
        BY DEF TypeOK, Queueable
  <2> QED BY <2>1, ConcatRange DEF All
<1> DEFINE k == IF first THEN 0 ELSE Len(opList)
           m == IF first THEN Len(batch) ELSE Len(All)
<1>2. opList' = Placed(o, first) /\ All' = batch \o Placed(o, first)
      BY DEF Push, All
<1>3. /\ opList' \in Seq(Queueable) /\ k \in 0..Len(opList) /\ Inserted(opList, opList', k, o)
      /\ All \in Seq(Queueable) /\ All' \in Seq(Queueable) /\ m \in 0..Len(All)
      /\ Inserted(All, All', m, o)
      BY <1>2, PlacedFacts
<1>4. (first => k = 0) /\ (~first => k = Len(opList) /\ m = Len(All))
      OBVIOUS
<1> HIDE DEF k, m
<1>5. Range(All') = Range(All) \cup {o} /\ IsInjective(All')
      BY <1>3, InsertedFacts
<1>6. Range(opList') = Range(opList) \cup {o}
      BY <1>1, <1>3, InsertedFacts
<1>7. FrontsLead(opList', fronts')
  <2>1. o \notin Range(opList) /\ (o # Exit => \A x \in Range(opList) : x < o)
        BY <1>1
  <2>2. \/ k = Len(opList) /\ o \notin fronts'
        \/ k = 0 /\ o \in fronts' /\ \A x \in Range(opList) : x < o
        \/ k = 0 /\ o = Exit /\ o \notin fronts'
        BY <1>4, <2>1
  <2> QED BY <1>1, <1>3, <2>1, <2>2, InsertedLeads DEF Ordered
<1>8. Ascends(All', fronts' \cup {Exit})
  <2> DEFINE X == fronts' \cup {Exit}
  <2>1. Ascends(All, X)
        BY DEF Ordered, Ascends
  <2>2. o \in X \/ (m = Len(All) /\ \A x \in Range(All) : x < o)
        BY <1>4
  <2> HIDE DEF X
  <2>3. Ascends(All', X)
        BY <1>3, <2>1, <2>2, InsertedAscends
  <2> QED BY <2>3 DEF X
<1> QED BY <1>5, <1>6, <1>7, <1>8 DEF Ordered

\* The new operation is the greatest so far, and is in no list yet.
LEMMA EnqueueLists ==
    ASSUME Control, Lists, NEW t, NEW first \in BOOLEAN, Enqueue(t, first),
           UNCHANGED <<threadVars, runVars>>, owner # "destroyed"
    PROVE  Lists'
<1> USE DEF Lists
<1> DEFINE o == nOps + 1
<1>1. /\ o \in Operations /\ o \in Queueable /\ o # Exit /\ nOps \in Nat
      /\ Submitted' = Submitted \cup {o} /\ o \notin Submitted
      BY DEF Control, TypeOK, Enqueue, Queueable, Submitted
<1>2. o \notin Range(All) /\ \A x \in Range(All) : x < o
      BY DEF ListInv, Control, TypeOK, Submitted
<1>3. /\ fronts \subseteq fronts' /\ fronts' \subseteq fronts \cup {o} /\ (first <=> o \in fronts')
      /\ Exit \notin fronts'
      BY <1>1 DEF ListInv, Enqueue, Submitted
<1>4. Push(t, o, first) /\ alive' = alive \cup {o} /\ finished' = finished
      BY DEF Enqueue
<1>5. owner = "onPipeEvent" => o \in late'
      BY DEF Enqueue
<1>6. late \subseteq late'
      BY DEF Enqueue
<1> HIDE DEF o
<1>7. /\ Range(All') = Range(All) \cup {o} /\ IsInjective(All')
      /\ Range(opList') = Range(opList) \cup {o} /\ Ordered'
      BY <1>1, <1>2, <1>3, <1>4, PushLists DEF ListInv, Control
<1>8. ListInv'
      BY <1>1, <1>3, <1>4, <1>7 DEF ListInv
<1>9. PlacedInv'
      BY <1>1, <1>4, <1>7 DEF PlacedInv
<1>10. LateInv'
      BY <1>5, <1>6, <1>7 DEF LateInv
<1> QED BY <1>7, <1>8, <1>9, <1>10

\* The exit operation is queued once, in front of all others.
LEMMA ShutdownLists == ASSUME Control, Lists, Shutdown PROVE Lists'
<1> USE DEF Lists
<1>1. /\ Push("owner", Exit, TRUE) /\ Exit \in Queueable /\ TRUE \in BOOLEAN
      /\ batch' = batch /\ nOps' = nOps /\ fronts' = fronts /\ alive' = alive
      /\ finished' = finished /\ owner = "using" /\ owner' = "joining"
      BY DEF Shutdown, Queueable
<1>2. Exit \notin Range(All) /\ Exit \notin fronts' /\ fronts' \subseteq fronts \cup {Exit}
      BY <1>1 DEF ListInv, Submitted
<1>3. Range(All') = Range(All) \cup {Exit} /\ IsInjective(All') /\ Ordered'
      BY <1>1, <1>2, PushLists DEF ListInv, Control
<1>4. Submitted' = Submitted
      BY <1>1 DEF Submitted
<1>5. ListInv'
      BY <1>1, <1>3, <1>4 DEF ListInv
<1>6. PlacedInv'
      BY <1>1, <1>3, <1>4 DEF PlacedInv
<1>7. LateInv'
      BY <1>1 DEF LateInv
<1> QED BY <1>3, <1>5, <1>6, <1>7

\* The first operation of the batch leaves both lists together; it is over,
\* was cancelled, or is the exit operation.
LEMMA TakenLists ==
    ASSUME Control, Lists, batch # <<>>, batch' = Tail(batch), opList' = opList,
           UNCHANGED <<nOps, fronts, alive, late, owner>>,
           \/ finished' = finished \cup {Head(batch)} /\ Head(batch) # Exit
           \/ finished' = finished /\ (Head(batch) = Exit \/ Head(batch) \notin alive),
           OwnerServed' => OwnerServed
    PROVE  Lists'
<1> USE DEF Lists
<1> DEFINE o == Head(batch)
<1>1. batch \in Seq(Queueable) /\ opList \in Seq(Queueable)
      BY DEF Control, TypeOK, Queueable
<1>2. /\ All \in Seq(Queueable) /\ All' \in Seq(Queueable) /\ o \in Queueable
      /\ Inserted(All', All, 0, o) /\ 0 \in 0..Len(All')
  <2>1. /\ All \in Seq(Queueable) /\ Tail(batch) \o opList \in Seq(Queueable) /\ o \in Queueable
        /\ Inserted(Tail(batch) \o opList, All, 0, o)
        BY <1>1, TailFacts, ConcatFacts DEF All
  <2>2. All' = Tail(batch) \o opList
        BY DEF All
  <2>3. 0 \in 0..Len(All')
        BY <2>1, <2>2, LenProperties
  <2> QED BY <2>1, <2>2, <2>3
<1>3. Range(All) = Range(All') \cup {o} /\ IsInjective(All') /\ o \notin Range(All')
      BY <1>2, InsertedFacts DEF ListInv
<1>4. Ascends(All', fronts \cup {Exit})
      BY <1>2, InsertedAscends DEF Ordered
<1> HIDE DEF o
<1>5. Submitted' = Submitted /\ (o # Exit => o \in Submitted) /\ Exit \notin Submitted
      BY <1>3 DEF Submitted, ListInv
<1>6. \/ finished' = finished \cup {o} /\ o # Exit
      \/ finished' = finished /\ (o = Exit \/ o \notin alive)
      BY DEF o
<1>7. ListInv'
      BY <1>3, <1>5, <1>6 DEF ListInv
<1>8. PlacedInv'
      BY <1>3, <1>5, <1>6 DEF PlacedInv
<1>9. LateInv'
      BY DEF LateInv, OwnerServed
<1>10. Ordered'
      BY <1>4 DEF Ordered
<1> QED BY <1>7, <1>8, <1>9, <1>10

\* The swap takes the whole list into the empty batch.
LEMMA SwapLists == ASSUME Control, Lists, NEW r \in Runners, Swap(r) PROVE Lists'
<1> USE DEF Lists
<1>1. opList \in Seq(Queueable) /\ batch = <<>> /\ batch' = opList /\ opList' = <<>>
      BY DEF Control, TypeOK, RunInv, Swap, Queueable
<1>2. All = opList /\ All' = opList
      BY <1>1, ConcatEmptySeq DEF All
<1>3. Range(opList') = {} /\ FrontsLead(opList', fronts)
      BY <1>1 DEF Range, FrontsLead
<1>4. UNCHANGED opVars
      BY DEF Swap
<1>5. ListInv'
      BY <1>2, <1>4 DEF ListInv, Swap, Submitted
<1>6. PlacedInv'
      BY <1>2, <1>4 DEF PlacedInv, Submitted
<1>7. Ordered'
      BY <1>2, <1>3, <1>4 DEF Ordered
<1>8. LateInv'
      BY <1>3 DEF LateInv
<1> QED BY <1>5, <1>6, <1>7, <1>8

\* Steps that leave the lists alone.
LEMMA SameLists ==
    ASSUME Lists, UNCHANGED <<opList, batch, nOps, fronts, late, finished>>, alive' \subseteq alive,
           owner \notin {"constructed", "starting", "using"}
             => owner' \notin {"constructed", "starting", "using"},
           OwnerServed' => OwnerServed
    PROVE  Lists'
<1>1. All' = All /\ Submitted' = Submitted
      BY DEF All, Submitted
<1>2. ListInv'
      BY <1>1 DEF Lists, ListInv
<1>3. Ordered' /\ PlacedInv'
      BY <1>1 DEF Lists, Ordered, PlacedInv
<1>4. LateInv'
      BY DEF Lists, LateInv, OwnerServed
<1> QED BY <1>2, <1>3, <1>4 DEF Lists

\* An operation run in place is in no list.
LEMMA InPlaceLists == ASSUME Control, Lists, NEW r \in Runners, OpRunsInPlace(r) PROVE Lists'
<1> USE DEF Lists
<1> DEFINE o == nOps + 1
<1>1. /\ o \in Operations /\ Submitted' = Submitted \cup {o} /\ o \notin Submitted /\ o # Exit
      /\ finished' = finished \cup {o}
      BY DEF Control, TypeOK, OpRunsInPlace, Submitted
<1>2. /\ All' = All /\ opList' = opList /\ alive' = alive /\ fronts' = fronts /\ late' = late
      /\ owner' = owner /\ at' = at
      BY DEF OpRunsInPlace, All
<1> HIDE DEF o
<1>3. ListInv'
      BY <1>1, <1>2 DEF ListInv
<1>4. Ordered' /\ LateInv'
      BY <1>2 DEF Ordered, LateInv
<1>5. PlacedInv'
      BY <1>1, <1>2 DEF PlacedInv
<1> QED BY <1>3, <1>4, <1>5

\* Submissions and cancellations.
LEMMA CallLists ==
    ASSUME Control, Lists,
           \/ \E c \in Clients :
                \/ \E first \in BOOLEAN : Async(c, first) \/ Sync(c, first)
                \/ SyncReturn(c)
           \/ \E o \in Operations : Cancel(o)
           \/ \E r \in Runners : Submit(r)
    PROVE  Lists'
<1>1. ASSUME NEW c \in Clients, NEW first \in BOOLEAN, Async(c, first) \/ Sync(c, first) PROVE Lists'
      BY <1>1, EnqueueLists DEF Async, Sync, ClientCanCall
<1>2. ASSUME NEW c \in Clients, SyncReturn(c) PROVE Lists'
      BY <1>2, SameLists DEF SyncReturn, OwnerServed
<1>3. ASSUME NEW o \in Operations, Cancel(o) PROVE Lists'
      BY <1>3, SameLists DEF Cancel, OwnerServed
<1>4. ASSUME NEW r \in Runners, NEW first \in BOOLEAN, OpEnqueues(r, first) PROVE Lists'
  <2>1. owner # "destroyed"
        BY <1>4 DEF OpEnqueues, CanStep, Control, RunInv
  <2> QED BY <1>4, <2>1, EnqueueLists DEF OpEnqueues
<1> QED BY <1>1, <1>2, <1>3, <1>4, InPlaceLists DEF Submit

\* The steps of onPipeEvent().
LEMMA PipeEventLists == ASSUME Control, Lists, NEW r \in Runners, PipeEvent(r) PROVE Lists'
<1>1. CASE Read(r)
      BY <1>1, SameLists DEF Read, OwnerServed, Control, RunInv
<1>2. CASE NextOperation(r)
  <2>1. OwnerServed' => OwnerServed
        BY <1>2 DEF NextOperation, OwnerServed
  <2>2. CASE Head(batch) # Exit /\ Locks(Head(batch))
        BY <1>2, <2>1, <2>2, SameLists DEF NextOperation
  <2>3. CASE Head(batch) = Exit \/ ~Locks(Head(batch))
        BY <1>2, <2>1, <2>3, TakenLists DEF NextOperation
  <2> QED BY <2>2, <2>3
<1>3. CASE EndOperation(r)
  <2>1. OwnerServed' => OwnerServed
        BY <1>3 DEF EndOperation, CanStep, OwnerServed
  <2>2. batch # <<>> /\ Head(batch) # Exit
        BY <1>3 DEF EndOperation, CanStep, Control, RunInv
  <2> QED BY <1>3, <2>1, <2>2, TakenLists DEF EndOperation
<1> QED BY <1>1, <1>2, <1>3, SwapLists DEF PipeEvent

\* Every step keeps what is known of the lists.
LEMMA ListsStep == Control /\ Lists /\ [Next]_vars => Lists'
<1> SUFFICES ASSUME Control, Lists, [Next]_vars PROVE Lists'
    OBVIOUS
<1>1. CASE UNCHANGED vars
      BY <1>1, SameLists DEF OwnerServed
<1>2. ASSUME NEW t \in Threads, Write(t) PROVE Lists'
  <2>1. UNCHANGED <<opList, batch, nOps, fronts, late, finished, alive, owner, at>>
        BY <1>2 DEF Write
  <2> QED BY <2>1, SameLists DEF OwnerServed
<1>3. CASE LoopStarts \/ LoopTop \/ Wake \/ LoopReturns \/ DropEdge
  <2>1. UNCHANGED <<opList, batch, nOps, fronts, late, finished, alive, owner>> /\ at' \in {at, "read"}
        BY <1>3 DEF LoopStarts, LoopTop, Wake, LoopReturns, DropEdge
  <2> QED BY <2>1, SameLists DEF OwnerServed
<1>4. CASE Joined \/ OwnerReturns \/ RunLoop \/ Started
  <2>1. UNCHANGED <<opList, batch, nOps, fronts, late, finished, alive>>
        BY <1>4 DEF Joined, OwnerReturns, RunLoop, Started
  <2>2. /\ OwnerServed' => OwnerServed
        /\ owner \notin {"constructed", "starting", "using"}
             => owner' \notin {"constructed", "starting", "using"}
        BY <1>4 DEF Joined, OwnerReturns, LeavePipeEvent, RunLoop, Started, OwnerServed
  <2> QED BY <2>1, <2>2, SameLists
<1> QED
    BY <1>1, <1>2, <1>3, <1>4, CallLists, ShutdownLists, PipeEventLists
    DEF Next, LoopStep, OwnerStep, Terminated

-----------------------------------------------------------------------------
(* The promise of every executor *)

\* The first operation of a batch was submitted and is not over.
LEMMA HeadFacts ==
    ASSUME Control, Lists, batch # <<>>, Head(batch) # Exit
    PROVE  Head(batch) \in Submitted \ finished
<1>1. batch \in Seq(Queueable) /\ opList \in Seq(Queueable)
      BY DEF Control, TypeOK, Queueable
<1>2. Head(batch) \in Range(batch)
  <2>1. Len(batch) \in Nat \ {0} /\ Head(batch) = batch[1] /\ DOMAIN batch = 1..Len(batch)
        BY <1>1, EmptySeq, LenProperties, HeadTailProperties
  <2> QED BY <2>1 DEF Range
<1> QED BY <1>1, <1>2, ConcatRange DEF All, Lists, ListInv

\* One operation gets on, in the terms of the protocol.
LEMMA MoveFacts ==
    ASSUME NEW o \in Operations, NEW from, NEW to, StatusOf(o) = from, StatusOf(o)' = to,
           \A p \in Operations \ {o} : StatusOf(p)' = StatusOf(p)
    PROVE  Executor!Move(o, from, to)
BY DEF Executor!Move

\* No operation does.
LEMMA SameStatus ==
    ASSUME \A p \in Operations : StatusOf(p)' = StatusOf(p), waitFor' = waitFor
    PROVE  UNCHANGED Executor!vars
BY DEF Executor!vars

\* A submission.
LEMMA EnqueueMoves ==
    ASSUME Control, Lists, NEW t, NEW first, Enqueue(t, first), UNCHANGED runVars
    PROVE  nOps + 1 \in Operations /\ Executor!Move(nOps + 1, "unused", "pending")
<1>0. PICK o : o = nOps + 1
      OBVIOUS
<1>1. /\ nOps \in Nat /\ o \in Operations /\ ~(o > nOps') /\ o > nOps
      /\ \A p \in Operations \ {o} : p > nOps' <=> p > nOps
      BY <1>0 DEF Control, TypeOK, Enqueue
<1>2. o \notin finished
      BY <1>1 DEF Lists, ListInv, Submitted
<1>3. at = "running" => Head(batch) # o
      BY <1>1, HeadFacts DEF Control, RunInv, Submitted
<1>4. /\ alive' = alive \cup {o} /\ finished' = finished /\ at' = at /\ batch' = batch
      BY <1>0 DEF Enqueue
<1>5. StatusOf(o) = "unused" /\ StatusOf(o)' = "pending"
      BY <1>1, <1>2, <1>3, <1>4 DEF StatusOf
<1>6. \A p \in Operations \ {o} : StatusOf(p)' = StatusOf(p)
      BY <1>1, <1>4 DEF StatusOf
<1>7. Executor!Move(o, "unused", "pending")
      BY <1>1, <1>5, <1>6, MoveFacts
<1> QED BY <1>0, <1>1, <1>7

\* The calls of the clients, and of operations.
LEMMA CallImplements ==
    ASSUME Control, Lists,
           \/ \E c \in Clients :
                \/ \E first \in BOOLEAN : Async(c, first) \/ Sync(c, first)
                \/ SyncReturn(c)
           \/ \E o \in Operations : Cancel(o)
           \/ \E r \in Runners : Submit(r)
    PROVE  [Executor!Next]_(Executor!vars)
<1>1. ASSUME NEW c \in Clients, NEW first \in BOOLEAN, Async(c, first) PROVE Executor!Next
  <2>1. nOps + 1 \in Operations /\ Executor!Submit(nOps + 1)
        BY <1>1, EnqueueMoves DEF Async, Executor!Submit
  <2> QED BY <2>1 DEF Executor!Next
<1>2. ASSUME NEW c \in Clients, NEW first \in BOOLEAN, Sync(c, first) PROVE Executor!Next
  <2>1. nOps + 1 \in Operations /\ Executor!SubmitAndWait(c, nOps + 1)
        BY <1>2, EnqueueMoves DEF Sync, ClientCanCall, Executor!SubmitAndWait
  <2> QED BY <2>1 DEF Executor!Next
<1>3. ASSUME NEW c \in Clients, SyncReturn(c) PROVE Executor!Next
  <2> DEFINE o == waitFor[c]
  <2>1. o \in finished /\ o \in Operations /\ o # 0 /\ ~(o > nOps)
        BY <1>3 DEF SyncReturn, Lists, ListInv, Submitted, Control, TypeOK
  <2>2. ~(at = "running" /\ Head(batch) = o)
        BY <2>1, HeadFacts DEF Control, RunInv
  <2>3. StatusOf(o) = "done"
        BY <2>1, <2>2 DEF StatusOf
  <2>4. \A p \in Operations : StatusOf(p)' = StatusOf(p)
        BY <1>3 DEF SyncReturn, StatusOf
  <2>5. Executor!SyncReturn(c)
        BY <1>3, <2>1, <2>3, <2>4 DEF SyncReturn, Executor!SyncReturn
  <2> QED BY <2>5 DEF Executor!Next
<1>4. ASSUME NEW o \in Operations, Cancel(o) PROVE [Executor!Next]_(Executor!vars)
  <2>1. /\ o \in alive /\ o \notin finished /\ ~(o > nOps) /\ alive' = alive \ {o}
        /\ UNCHANGED <<nOps, at, batch, finished, waitFor>>
        BY <1>4 DEF Cancel, Lists, ListInv, Submitted, Control, TypeOK
  <2>2. \A p \in Operations \ {o} : StatusOf(p)' = StatusOf(p)
        BY <2>1 DEF StatusOf
  <2>3. CASE at = "running" /\ Head(batch) = o
    <3>1. StatusOf(o)' = StatusOf(o)
          BY <2>1, <2>3 DEF StatusOf
    <3> QED BY <2>1, <2>2, <3>1, SameStatus
  <2>4. CASE ~(at = "running" /\ Head(batch) = o)
    <3>1. StatusOf(o) = "pending" /\ StatusOf(o)' = "cancelled"
          BY <2>1, <2>4 DEF StatusOf
    <3>2. Executor!Cancel(o)
          BY <1>4, <2>1, <2>2, <3>1, MoveFacts DEF Cancel, Executor!Cancel
    <3> QED BY <3>2 DEF Executor!Next
  <2> QED BY <2>3, <2>4
<1>5. ASSUME NEW r \in Runners, NEW first \in BOOLEAN, OpEnqueues(r, first) PROVE Executor!Next
  <2>1. nOps + 1 \in Operations /\ Executor!Submit(nOps + 1)
        BY <1>5, EnqueueMoves DEF OpEnqueues, Executor!Submit
  <2> QED BY <2>1 DEF Executor!Next
<1>6. ASSUME NEW r \in Runners, OpRunsInPlace(r) PROVE Executor!Next
  <2>0. PICK o : o = nOps + 1
        OBVIOUS
  <2>1. /\ nOps \in Nat /\ o \in Operations /\ ~(o > nOps') /\ o > nOps
        /\ \A p \in Operations \ {o} : p > nOps' <=> p > nOps
        BY <1>6, <2>0 DEF Control, TypeOK, OpRunsInPlace
  <2>2. /\ finished' = finished \cup {o} /\ alive' = alive /\ at' = at /\ batch' = batch
        /\ waitFor' = waitFor
        BY <1>6, <2>0 DEF OpRunsInPlace
  <2>3. at = "running" => Head(batch) # o
        BY <2>1, HeadFacts DEF Control, RunInv, Submitted
  <2>4. StatusOf(o) = "unused" /\ StatusOf(o)' = "done"
        BY <2>1, <2>2, <2>3 DEF StatusOf
  <2>5. \A p \in Operations \ {o} : StatusOf(p)' = StatusOf(p)
        BY <2>1, <2>2 DEF StatusOf
  <2>6. Executor!RunInPlace(o)
        BY <2>1, <2>2, <2>4, <2>5, MoveFacts DEF Executor!RunInPlace
  <2> QED BY <2>1, <2>6 DEF Executor!Next
<1> QED BY <1>1, <1>2, <1>3, <1>4, <1>5, <1>6 DEF Submit

\* onPipeEvent(): an operation begins or ends, or none does.
LEMMA PipeEventImplements ==
    ASSUME Control, Lists, NEW r \in Runners, PipeEvent(r)
    PROVE  [Executor!Next]_(Executor!vars)
<1>1. CASE Read(r) \/ Swap(r)
  <2>1. /\ at \in {"read", "swap"} /\ at' \in {"read", "swap", "next"}
        /\ UNCHANGED <<nOps, alive, finished, waitFor>>
        BY <1>1 DEF Read, Swap
  <2>2. \A p \in Operations : StatusOf(p)' = StatusOf(p)
        BY <2>1 DEF StatusOf
  <2> QED BY <2>1, <2>2, SameStatus
<1>2. CASE NextOperation(r)
  <2>0. PICK o : o = Head(batch)
        OBVIOUS
  <2>1. /\ at = "next" /\ batch # <<>> /\ UNCHANGED <<nOps, alive, finished, waitFor>>
        /\ \/ at' = "next"
           \/ at' = "running" /\ batch' = batch /\ o # Exit /\ o \in alive
        BY <1>2, <2>0 DEF NextOperation
  <2>2. CASE at' = "next"
    <3>1. \A p \in Operations : StatusOf(p)' = StatusOf(p)
          BY <2>1, <2>2 DEF StatusOf
    <3> QED BY <2>1, <3>1, SameStatus
  <2>3. CASE at' = "running"
    <3>1. o # Exit /\ o \in alive /\ batch' = batch
          BY <2>1, <2>3
    <3>2. o \notin finished /\ o \in Operations /\ ~(o > nOps)
          BY <2>0, <2>1, <3>1, HeadFacts DEF Submitted, Control, TypeOK
    <3>3. StatusOf(o) = "pending" /\ StatusOf(o)' = "running"
          BY <2>0, <2>1, <2>3, <3>1, <3>2 DEF StatusOf
    <3>4. \A p \in Operations \ {o} : StatusOf(p)' = StatusOf(p)
          BY <2>0, <2>1, <2>3, <3>1 DEF StatusOf
    <3>5. Executor!Begin(o)
          BY <2>1, <3>2, <3>3, <3>4, MoveFacts DEF Executor!Begin
    <3> QED BY <3>2, <3>5 DEF Executor!Next
  <2> QED BY <2>1, <2>2, <2>3
<1>3. CASE EndOperation(r)
  <2>0. PICK o : o = Head(batch)
        OBVIOUS
  <2>1. /\ at = "running" /\ at' = "next" /\ finished' = finished \cup {o}
        /\ UNCHANGED <<nOps, alive, waitFor>>
        BY <1>3, <2>0 DEF EndOperation, CanStep
  <2>2. o \in Operations /\ ~(o > nOps)
        BY <2>0, <2>1, HeadFacts DEF Control, RunInv, Submitted, TypeOK
  <2>3. StatusOf(o) = "running" /\ StatusOf(o)' = "done"
        BY <2>0, <2>1, <2>2 DEF StatusOf
  <2>4. \A p \in Operations \ {o} : StatusOf(p)' = StatusOf(p)
        BY <2>0, <2>1 DEF StatusOf
  <2>5. Executor!End(o)
        BY <2>1, <2>2, <2>3, <2>4, MoveFacts DEF Executor!End
  <2> QED BY <2>2, <2>5 DEF Executor!Next
<1> QED BY <1>1, <1>2, <1>3 DEF PipeEvent

\* Every step of a poller is one of the protocol, or none.
LEMMA ExecutorStep == Control /\ Lists /\ [Next]_vars => [Executor!Next]_(Executor!vars)
<1> SUFFICES ASSUME Control, Lists, [Next]_vars PROVE [Executor!Next]_(Executor!vars)
    OBVIOUS
<1>1. ASSUME UNCHANGED <<nOps, alive, finished, waitFor>>,
             \/ UNCHANGED <<at, batch>>
             \/ at # "running" /\ at' # "running"
      PROVE  UNCHANGED Executor!vars
  <2>1. \A p \in Operations : StatusOf(p)' = StatusOf(p)
        BY <1>1 DEF StatusOf
  <2> QED BY <1>1, <2>1, SameStatus
<1>2. CASE UNCHANGED vars
      BY <1>1, <1>2
<1>3. ASSUME NEW t \in Threads, Write(t) PROVE UNCHANGED Executor!vars
  <2>1. UNCHANGED <<nOps, alive, finished, waitFor, at, batch>>
        BY <1>3 DEF Write
  <2> QED BY <1>1, <2>1
<1>4. CASE Wake \/ Joined
  <2>1. at # "running" /\ at' = "read"
        BY <1>4 DEF Wake, Joined, Control, RunInv
  <2>2. UNCHANGED <<nOps, alive, finished, waitFor>>
        BY <1>4 DEF Wake, Joined
  <2> QED BY <1>1, <2>1, <2>2
<1>5. CASE LoopStarts \/ LoopTop \/ LoopReturns \/ OwnerReturns \/ DropEdge \/ RunLoop \/ Started
           \/ Shutdown
  <2>1. UNCHANGED <<nOps, alive, finished, waitFor, at, batch>>
        BY <1>5 DEF LoopStarts, LoopTop, LoopReturns, OwnerReturns, DropEdge, RunLoop, Started,
           Shutdown
  <2> QED BY <1>1, <2>1
<1> QED
    BY <1>2, <1>3, <1>4, <1>5, CallImplements, PipeEventImplements
    DEF Next, LoopStep, OwnerStep, Terminated

-----------------------------------------------------------------------------
(* The theorems *)

\* The invariants above hold in every reachable state.
LEMMA Invariance == Spec => [](Control /\ Lists)
<1>1. ASSUME Init PROVE Control /\ Lists
  <2>1. <<>> \in Seq(Queueable) /\ <<>> \in Seq({Exit} \cup Operations)
        BY EmptySeq
  <2>2. All = <<>> /\ Range(All) = {} /\ Range(opList) = {} /\ Submitted = {}
    <3>1. All = <<>>
          BY <1>1, <2>1, ConcatEmptySeq DEF Init, All
    <3> QED BY <1>1, <3>1 DEF Init, Range, Submitted
  <2>3. TypeOK
    <3>1. opList \in Seq(Queueable) /\ batch \in Seq(Queueable)
          BY <1>1, <2>1 DEF Init
    <3>2. waitFor \in [Clients -> 0..MaxOps] /\ pipe \in 0..PipeCapacity /\ nOps \in 0..MaxOps
          BY <1>1 DEF Init
    <3> QED BY <1>1, <3>1, <3>2 DEF Init, TypeOK, Queueable
  <2>4. RunInv /\ WakeInv
        BY <1>1 DEF Init, RunInv, WakeInv
  <2>5. ListInv
        BY <1>1, <2>2 DEF Init, ListInv, IsInjective
  <2>6. Ordered
        BY <1>1, <2>2 DEF Init, Ordered, Ascends, FrontsLead
  <2>7. PlacedInv /\ LateInv
        BY <1>1, <2>2 DEF Init, PlacedInv, LateInv
  <2> QED BY <2>3, <2>4, <2>5, <2>6, <2>7 DEF Control, Lists
<1>2. Control /\ Lists /\ [Next]_vars => (Control /\ Lists)'
      BY ControlStep, ListsStep
<1> QED BY <1>1, <1>2, PTL DEF Spec

\* The variables keep their types, and the loop thread and the owner are
\* never both inside onPipeEvent(), which has one set of variables for them.
THEOREM TypeCorrect == Spec => []TypeOK
<1>1. Control => TypeOK
      BY DEF Control
<1> QED BY <1>1, Invariance, PTL

\* The loop thread never sleeps on queued operations, for any size of the
\* pipe and of a read, and whatever a full pipe drops.
THEOREM WakeupNotLost == Spec => []NoLostWakeup
<1>1. Control => NoLostWakeup
      BY DEF Control, WakeInv, Reading, Draining, NoLostWakeup
<1> QED BY <1>1, Invariance, PTL

\* Operations begin in the order of submission, over the list and the batch.
THEOREM OrderOfSubmission == Spec => []SubmissionOrder
<1>1. Ordered => SubmissionOrder
      BY DEF Ordered, Ascends, FrontsLead, SubmissionOrder, All
<1> QED BY <1>1, Invariance, PTL DEF Lists

\* The destructor loses only what its own operations queue again.
THEOREM OnlyLateLost == Spec => []OnlyLateOperationsLost
<1>1. ASSUME Control, Lists PROVE OnlyLateOperationsLost
  <2> SUFFICES ASSUME owner = "destroyed", NEW o \in Submitted
               PROVE  o \in finished \/ o \notin alive \/ o \in late
      BY DEF OnlyLateOperationsLost, Submitted
  <2>1. batch = <<>> /\ opList \in Seq(Queueable)
        BY <1>1 DEF Control, RunInv, TypeOK, Queueable
  <2>2. All = opList
        BY <2>1, ConcatEmptySeq DEF All
  <2> QED BY <1>1, <2>2 DEF Lists, PlacedInv, LateInv
<1> QED BY <1>1, Invariance, PTL

\* A poller does for its callers what every executor promises, no more and
\* in no other order, over the change of the thread that runs the operations.
THEOREM Refinement == Spec => ImplementsExecutor
<1>1. ASSUME Init PROVE Executor!Init
  <2>1. \A o \in Operations : StatusOf(o) = "unused"
        BY <1>1 DEF Init, StatusOf
  <2> QED BY <1>1, <2>1 DEF Init, Executor!Init
<1> QED
    BY <1>1, ExecutorStep, Invariance, PTL DEF Spec, ImplementsExecutor, Executor!Spec

-----------------------------------------------------------------------------
(***************************************************************************)
(* ExecutorProvider.tla and ThreadLoad.tla                                 *)
(***************************************************************************)
USE LimitsAssumption, NumAssumption, HomeAssumption

-----------------------------------------------------------------------------
(* Counting *)

\* The least-number principle, with a set for the predicate: inductions below
\* look for the least counterexample.
LEMMA LeastNumber ==
    ASSUME NEW T \in SUBSET Nat, T # {}
    PROVE  \E x \in T : \A y \in T : x <= y
<1> DEFINE R == {ss \in Nat \X Nat : ss[1] < ss[2]}
<1>1. IsWellFoundedOn(R, Nat)
      BY NatLessThanWellFounded DEF OpToRel
<1> HIDE DEF R
<1>2. PICK x \in T : \A y \in T : ~(<<y, x>> \in R)
      BY <1>1, WFMin
<1>3. \A y \in T : ~(y < x)
      BY <1>2 DEF R
<1> QED BY <1>3

\* What is true of 0, and of n + 1 if of n, is true up to any bound.
LEMMA Counting ==
    ASSUME NEW N \in Nat, NEW P \in SUBSET Nat, 0 \in P,
           \A n \in 0..N : n \in P /\ n < N => n + 1 \in P
    PROVE  0..N \subseteq P
<1> DEFINE T == (0..N) \ P
<1> SUFFICES ASSUME T # {} PROVE FALSE
    OBVIOUS
<1>1. PICK x \in T : \A y \in T : x <= y
  <2>1. T \in SUBSET Nat /\ T # {}
        OBVIOUS
  <2> HIDE DEF T
  <2> QED BY <2>1, LeastNumber
<1>2. x # 0 /\ x - 1 \in 0..N /\ x - 1 < N
      BY <1>1
<1>3. x - 1 \in P
      BY <1>1, <1>2
<1> QED BY <1>1, <1>2, <1>3

(***************************************************************************)
(* The inductive invariant of a load.  Behind the records stand moments:   *)
(* the first record began at b[0], the k-th ended at b[k], and the last    *)
(* ended when the current interval began.  An executor slept through the   *)
(* ticks of a record of sleep and through none of a record of running.     *)
(***************************************************************************)
Fits(x, y, asleep, S) ==
    IF asleep THEN \A t \in x + 1..y : t \in S ELSE \A t \in x + 1..y : t \notin S

Awake(x, y, S) == Cardinality((x + 1..y) \ S)

Covers(b, records, S) ==
    \A k \in 1..Len(records) :
        /\ b[k - 1] <= b[k] /\ records[k].time = b[k] - b[k - 1]
        /\ Fits(b[k - 1], b[k], records[k].isSleep, S)

Loads == [sleeping : BOOLEAN, lastSleep : Nat, lastWake : Nat, timeList : Seq(TimeRecord)]

Since(l, asleep) == IF asleep THEN l.lastSleep ELSE l.lastWake

Measured(l, asleep, S, clock) ==
    /\ l \in Loads
    /\ S \subseteq 1..clock
    /\ Since(l, asleep) <= clock
    /\ Fits(Since(l, asleep), clock, asleep, S)
    /\ \E b \in [0..Len(l.timeList) -> 0..clock] :
          Covers(b, l.timeList, S) /\ b[Len(l.timeList)] = Since(l, asleep)

\* The sum of a list, given the sums of its beginnings.
LEMMA TotalFacts ==
    ASSUME NEW times \in Seq(Nat), NEW s \in [0..Len(times) -> Nat], s[0] = 0,
           \A n \in 1..Len(times) : s[n] = s[n - 1] + times[n]
    PROVE  Total(times) = s[Len(times)]
<1> DEFINE N == Len(times)
           Body(g, n) == IF n = 0 THEN 0 ELSE g[n - 1] + times[n]
<1>1. N \in Nat /\ 0 \in 0..N /\ N \in 0..N
      OBVIOUS
<1>2. s = [n \in 0..N |-> Body(s, n)]
      OBVIOUS
<1> DEFINE f == CHOOSE g : g = [n \in 0..N |-> Body(g, n)]
<1>3. f = [n \in 0..N |-> Body(f, n)]
      BY <1>2
<1>4. Total(times) = f[N]
      BY DEF Total
<1> HIDE DEF f
<1> DEFINE P == {n \in 0..N : f[n] = s[n]}
<1>5. 0 \in P
      BY <1>1, <1>3
<1>6. ASSUME NEW n \in 0..N, n \in P, n < N PROVE n + 1 \in P
  <2>1. n + 1 \in 1..N /\ n + 1 \in 0..N /\ n + 1 # 0 /\ (n + 1) - 1 = n
        BY <1>1, <1>6
  <2>2. f[n + 1] = f[n] + times[n + 1]
        BY <1>3, <2>1
  <2>3. s[n + 1] = s[n] + times[n + 1]
        BY <2>1
  <2> QED BY <1>6, <2>1, <2>2, <2>3
<1>7. P \in SUBSET Nat
      BY <1>1
<1> HIDE DEF P
<1>8. 0..N \subseteq P
      BY <1>1, <1>5, <1>6, <1>7, Counting
<1>9. N \in P
      BY <1>1, <1>8
<1> USE DEF P
<1> QED BY <1>4, <1>9

\* The ticks of an interval that were not slept add up.
LEMMA AwakeTicks ==
    ASSUME NEW x \in Nat, NEW y \in Nat, NEW z \in Nat, x <= y, y <= z,
           NEW asleep \in BOOLEAN, NEW S \in SUBSET Nat, Fits(y, z, asleep, S)
    PROVE  /\ Awake(x, z, S) \in Nat
           /\ Awake(x, y, S) \in Nat
           /\ Awake(x, z, S)
                = Awake(x, y, S) + IF asleep THEN 0 ELSE z - y
           /\ Awake(x, z, S) <= z - x
<1> DEFINE U == (x + 1..y) \ S
           V == (x + 1..z) \ S
           W == y + 1..z
<1>1. IsFiniteSet(x + 1..y) /\ IsFiniteSet(x + 1..z) /\ IsFiniteSet(W)
      /\ Cardinality(W) = z - y /\ Cardinality(x + 1..z) = z - x
  <2>1. \A u, v \in Int : /\ IsFiniteSet(u..v)
                           /\ Cardinality(u..v) = IF u > v THEN 0 ELSE v - u + 1
        BY FS_Interval
  <2>2. x + 1 \in Int /\ y + 1 \in Int /\ y \in Int /\ z \in Int
        OBVIOUS
  <2>3. IsFiniteSet(x + 1..y) /\ IsFiniteSet(x + 1..z) /\ IsFiniteSet(y + 1..z)
        BY <2>1, <2>2
  <2>4. /\ Cardinality(y + 1..z) = IF y + 1 > z THEN 0 ELSE z - (y + 1) + 1
        /\ Cardinality(x + 1..z) = IF x + 1 > z THEN 0 ELSE z - (x + 1) + 1
        BY <2>1, <2>2
  <2>5. /\ (IF y + 1 > z THEN 0 ELSE z - (y + 1) + 1) = z - y
        /\ (IF x + 1 > z THEN 0 ELSE z - (x + 1) + 1) = z - x
        OBVIOUS
  <2> QED BY <2>3, <2>4, <2>5
<1>2. U \in SUBSET (x + 1..y) /\ V \in SUBSET (x + 1..z)
      OBVIOUS
<1>3. IsFiniteSet(U) /\ IsFiniteSet(V) /\ Cardinality(V) <= Cardinality(x + 1..z)
      BY <1>1, <1>2, FS_Subset
<1>4. Cardinality(U) \in Nat /\ Cardinality(V) \in Nat
      BY <1>3, FS_CardinalityType
<1>5. CASE asleep
  <2>1. V = U
        BY <1>5 DEF Fits
  <2> HIDE DEF U, V, W
  <2>2. /\ Cardinality(V) = Cardinality(U) + IF asleep THEN 0 ELSE z - y
        /\ Cardinality(V) <= z - x
        BY <1>1, <1>3, <1>4, <1>5, <2>1
  <2> QED BY <1>4, <2>2 DEF U, V, Awake
<1>6. CASE ~asleep
  <2>1. V = U \cup W
        BY <1>6 DEF Fits
  <2>2. U \cap W = {}
        OBVIOUS
  <2>3. Cardinality(U \cap W) = 0
        BY <2>2, FS_EmptySet
  <2>4. Cardinality(V) = Cardinality(U) + Cardinality(W) - Cardinality(U \cap W)
        BY <1>1, <1>3, <2>1, FS_Union
  <2> HIDE DEF U, V, W
  <2>5. Cardinality(V) = Cardinality(U) + (z - y)
        BY <1>1, <1>4, <2>3, <2>4
  <2>6. /\ Cardinality(V) = Cardinality(U) + IF asleep THEN 0 ELSE z - y
        /\ Cardinality(V) <= z - x
        BY <1>1, <1>3, <1>4, <1>6, <2>5
  <2> QED BY <1>4, <2>6 DEF U, V, Awake
<1> QED BY <1>5, <1>6

\* What load() adds up is the time since the first record began, and the
\* ticks since then that were not slept.
LEMMA RecordSums ==
    ASSUME NEW clock \in Nat, NEW records \in Seq(TimeRecord), NEW S \in SUBSET Nat,
           NEW b \in [0..Len(records) -> 0..clock], Covers(b, records, S)
    PROVE  /\ Total(Times(records)) = b[Len(records)] - b[0]
           /\ Total(RunTimes(records)) = Awake(b[0], b[Len(records)], S)
           /\ b[0] <= b[Len(records)]
<1> DEFINE N == Len(records)
<1>1. N \in Nat /\ 0 \in 0..N /\ N \in 0..N
      OBVIOUS
<1>2. \A k \in 0..N : b[k] \in Nat
      OBVIOUS
<1>3. ASSUME NEW k \in 1..N
      PROVE  /\ k \in 0..N /\ k - 1 \in 0..N
             /\ records[k].time \in Nat /\ records[k].isSleep \in BOOLEAN
             /\ b[k - 1] <= b[k] /\ records[k].time = b[k] - b[k - 1]
             /\ Fits(b[k - 1], b[k], records[k].isSleep, S)
  <2>1. records[k] \in TimeRecord
        BY ElementOfSeq
  <2> QED BY <2>1 DEF Covers, TimeRecord
<1>4. \A k \in 0..N : b[0] <= b[k]
  <2> DEFINE P == {k \in 0..N : b[0] <= b[k]}
  <2>1. 0 \in P
        BY <1>1, <1>2
  <2>2. ASSUME NEW k \in 0..N, k \in P, k < N PROVE k + 1 \in P
    <3>1. k + 1 \in 1..N /\ (k + 1) - 1 = k
          BY <1>1, <2>2
    <3>2. b[k] <= b[k + 1] /\ k + 1 \in 0..N
          BY <1>3, <3>1
    <3> QED BY <1>1, <1>2, <2>2, <3>2
  <2>3. P \in SUBSET Nat
        BY <1>1
  <2> HIDE DEF P
  <2>4. 0..N \subseteq P
        BY <1>1, <2>1, <2>2, <2>3, Counting
  <2> USE DEF P
  <2> QED BY <2>4
<1>5. Total(Times(records)) = b[N] - b[0]
  <2> DEFINE s == [k \in 0..N |-> b[k] - b[0]]
             times == Times(records)
  <2>1. times \in Seq(Nat) /\ Len(times) = N /\ \A k \in 1..N : times[k] = records[k].time
        BY <1>1, <1>3 DEF Times
  <2>2. s \in [0..N -> Nat] /\ s[0] = 0
        BY <1>1, <1>2, <1>4
  <2>3. ASSUME NEW k \in 1..N PROVE s[k] = s[k - 1] + times[k]
    <3>1. s[k] = b[k] - b[0] /\ s[k - 1] = b[k - 1] - b[0]
          BY <1>3
    <3>2. b[0] \in Nat /\ b[k] \in Nat /\ b[k - 1] \in Nat /\ times[k] = b[k] - b[k - 1]
          BY <1>1, <1>2, <1>3, <2>1
    <3> HIDE DEF s, times
    <3> QED BY <3>1, <3>2
  <2>4. s[N] = b[N] - b[0]
        BY <1>1
  <2> HIDE DEF s, times, N
  <2>5. Total(times) = s[Len(times)]
        BY <2>1, <2>2, <2>3, TotalFacts
  <2> QED BY <2>1, <2>4, <2>5 DEF times
<1>6. Total(RunTimes(records)) = Awake(b[0], b[N], S)
  <2> DEFINE s == [k \in 0..N |-> Awake(b[0], b[k], S)]
             times == RunTimes(records)
  <2>1. times \in Seq(Nat) /\ Len(times) = N
        /\ \A k \in 1..N : times[k] = IF records[k].isSleep THEN 0 ELSE records[k].time
        BY <1>1, <1>3 DEF RunTimes
  <2>2. ASSUME NEW k \in 1..N
        PROVE  /\ Awake(b[0], b[k], S) \in Nat
               /\ Awake(b[0], b[k], S)
                    = Awake(b[0], b[k - 1], S)
                        + IF records[k].isSleep THEN 0 ELSE b[k] - b[k - 1]
    <3>1. b[0] \in Nat /\ b[k] \in Nat /\ b[k - 1] \in Nat /\ b[0] <= b[k - 1]
          BY <1>1, <1>2, <1>3, <1>4
    <3>2. records[k].isSleep \in BOOLEAN /\ Fits(b[k - 1], b[k], records[k].isSleep, S)
          /\ b[k - 1] <= b[k]
          BY <1>3
    <3>3. /\ Awake(b[0], b[k], S) \in Nat
          /\ Awake(b[0], b[k - 1], S) \in Nat
          /\ Awake(b[0], b[k], S)
               = Awake(b[0], b[k - 1], S)
                   + IF records[k].isSleep THEN 0 ELSE b[k] - b[k - 1]
          /\ Awake(b[0], b[k], S) <= b[k] - b[0]
      <4>1. PICK x \in Nat, y \in Nat, z \in Nat, asleep \in BOOLEAN :
               x = b[0] /\ y = b[k - 1] /\ z = b[k] /\ asleep = records[k].isSleep
            BY <3>1, <3>2
      <4>2. x <= y /\ y <= z /\ Fits(y, z, asleep, S)
            BY <3>1, <3>2, <4>1
      <4>3. /\ Awake(x, z, S) \in Nat
            /\ Awake(x, y, S) \in Nat
            /\ Awake(x, z, S)
                 = Awake(x, y, S) + IF asleep THEN 0 ELSE z - y
            /\ Awake(x, z, S) <= z - x
            BY <4>2, AwakeTicks
      <4> QED BY <4>1, <4>3
    <3> QED BY <3>3
  <2>3. s[0] = 0
    <3>1. b[0] \in Nat
          BY <1>1, <1>2
    <3>2. (b[0] + 1..b[0]) \ S = {}
          BY <3>1
    <3>3. Awake(b[0], b[0], S) = 0
          BY <3>2, FS_EmptySet DEF Awake
    <3> QED BY <1>1, <3>3
  <2>4. ASSUME NEW k \in 1..N PROVE s[k] = s[k - 1] + times[k]
    <3>1. /\ s[k] = Awake(b[0], b[k], S)
          /\ s[k - 1] = Awake(b[0], b[k - 1], S)
          BY <1>3
    <3>2. times[k] = IF records[k].isSleep THEN 0 ELSE b[k] - b[k - 1]
          BY <1>3, <2>1
    <3>3. Awake(b[0], b[k], S)
            = Awake(b[0], b[k - 1], S)
                + IF records[k].isSleep THEN 0 ELSE b[k] - b[k - 1]
          BY <2>2
    <3> HIDE DEF s, times
    <3> QED BY <3>1, <3>2, <3>3
  <2>5. s \in [0..N -> Nat]
    <3>1. ASSUME NEW k \in 0..N PROVE Awake(b[0], b[k], S) \in Nat
      <4>1. CASE k = 0
            BY <2>3, <4>1, <1>1
      <4>2. CASE k # 0
        <5>1. k \in 1..N
              BY <1>1, <4>2
        <5> QED BY <2>2, <5>1
      <4> QED BY <4>1, <4>2
    <3> QED BY <3>1
  <2>6. s[N] = Awake(b[0], b[N], S)
        BY <1>1
  <2> HIDE DEF s, times, N
  <2>7. Total(times) = s[Len(times)]
        BY <2>1, <2>3, <2>4, <2>5, TotalFacts
  <2> QED BY <2>1, <2>6, <2>7 DEF times
<1> QED BY <1>1, <1>4, <1>5, <1>6

-----------------------------------------------------------------------------
(* The methods of ThreadLoad *)

\* An interval that ends becomes the last record, whatever is dropped.
LEMMA Remembered ==
    ASSUME NEW clock \in Nat, NEW records \in Seq(TimeRecord), NEW S, NEW asleep \in BOOLEAN,
           NEW b \in [0..Len(records) -> 0..clock], Covers(b, records, S),
           Fits(b[Len(records)], clock, asleep, S)
    PROVE  LET after == Remember(records, clock - b[Len(records)], asleep)
           IN  /\ after \in Seq(TimeRecord)
               /\ \E d \in [0..Len(after) -> 0..clock] :
                      Covers(d, after, S) /\ d[Len(after)] = clock
<1> DEFINE N == Len(records)
           r == [time |-> clock - b[N], isSleep |-> asleep]
           longer == Append(records, r)
           c == [k \in 0..N + 1 |-> IF k = N + 1 THEN clock ELSE b[k]]
<1>1. N \in Nat /\ b[N] \in 0..clock
      OBVIOUS
<1>2. r \in TimeRecord
      BY <1>1 DEF TimeRecord
<1>3. longer \in Seq(TimeRecord) /\ Len(longer) = N + 1
      BY <1>2, AppendProperties
<1>4. longer[N + 1] = r /\ \A k \in 1..N : longer[k] = records[k]
      BY <1>2, AppendProperties
<1>5. c \in [0..N + 1 -> 0..clock] /\ c[N + 1] = clock /\ \A k \in 0..N : c[k] = b[k]
      BY <1>1
<1>6. r.time = clock - b[N] /\ r.isSleep = asleep
      OBVIOUS
<1> HIDE DEF r, longer, c
<1>7. Covers(c, longer, S)
  <2> SUFFICES ASSUME NEW k \in 1..N + 1
               PROVE  /\ c[k - 1] <= c[k] /\ longer[k].time = c[k] - c[k - 1]
                      /\ Fits(c[k - 1], c[k], longer[k].isSleep, S)
      BY <1>3 DEF Covers
  <2>1. CASE k = N + 1
    <3>1. k - 1 = N /\ N \in 0..N
          BY <1>1, <2>1
    <3>2. c[k] = clock /\ c[k - 1] = b[N] /\ longer[k] = r
          BY <1>4, <1>5, <2>1, <3>1
    <3> QED BY <1>1, <1>6, <3>2
  <2>2. CASE k # N + 1
    <3>1. k \in 1..N /\ k \in 0..N /\ k - 1 \in 0..N
          BY <1>1, <2>2
    <3>2. c[k] = b[k] /\ c[k - 1] = b[k - 1] /\ longer[k] = records[k]
          BY <1>4, <1>5, <3>1
    <3>3. /\ b[k - 1] <= b[k] /\ records[k].time = b[k] - b[k - 1]
          /\ Fits(b[k - 1], b[k], records[k].isSleep, S)
          BY <3>1 DEF Covers
    <3> QED BY <3>2, <3>3
  <2> QED BY <2>1, <2>2
<1>8. CASE Len(longer) > MaxSize
  <2> DEFINE after == Tail(longer)
             d == [k \in 0..N |-> c[k + 1]]
  <2>1. longer # <<>>
        BY <1>1, <1>3
  <2>2. after \in Seq(TimeRecord) /\ Len(after) = N /\ \A k \in 1..N : after[k] = longer[k + 1]
        BY <1>1, <1>3, <2>1
  <2>3. d \in [0..N -> 0..clock] /\ d[N] = clock /\ \A k \in 0..N : d[k] = c[k + 1]
        BY <1>1, <1>5
  <2> HIDE DEF after, d
  <2>4. Covers(d, after, S)
    <3> SUFFICES ASSUME NEW k \in 1..N
                 PROVE  /\ d[k - 1] <= d[k] /\ after[k].time = d[k] - d[k - 1]
                        /\ Fits(d[k - 1], d[k], after[k].isSleep, S)
        BY <2>2 DEF Covers
    <3>1. k + 1 \in 1..Len(longer) /\ (k + 1) - 1 = k /\ k \in 0..N /\ k - 1 \in 0..N /\ (k - 1) + 1 = k
          BY <1>1, <1>3
    <3>2. d[k] = c[k + 1] /\ d[k - 1] = c[k] /\ after[k] = longer[k + 1]
          BY <2>2, <2>3, <3>1
    <3>3. /\ c[k] <= c[k + 1] /\ longer[k + 1].time = c[k + 1] - c[k]
          /\ Fits(c[k], c[k + 1], longer[k + 1].isSleep, S)
          BY <1>7, <3>1 DEF Covers
    <3> QED BY <3>2, <3>3
  <2>5. Remember(records, clock - b[N], asleep) = after
        BY <1>8 DEF Remember, after, longer, r
  <2> QED BY <2>2, <2>3, <2>4, <2>5
<1>9. CASE ~(Len(longer) > MaxSize)
  <2>1. Remember(records, clock - b[N], asleep) = longer
        BY <1>9 DEF Remember, longer, r
  <2> QED BY <1>3, <1>5, <1>7, <2>1
<1> QED BY <1>8, <1>9

\* Going to sleep begins an interval of sleep.
LEMMA StartSleepMeasured ==
    ASSUME NEW clock \in Nat, NEW l, NEW S, Measured(l, FALSE, S, clock)
    PROVE  Measured(StartSleep(l, clock), TRUE, S, clock) /\ StartSleep(l, clock).sleeping = TRUE
<1> DEFINE records == l.timeList
           N == Len(records)
           after == Remember(records, clock - l.lastWake, FALSE)
           m == StartSleep(l, clock)
<1>1. l \in Loads /\ records \in Seq(TimeRecord)
      BY DEF Measured, Loads
<1>2. PICK b \in [0..N -> 0..clock] : Covers(b, records, S) /\ b[N] = l.lastWake
      BY DEF Measured, Since
<1>3. Fits(b[N], clock, FALSE, S) /\ S \subseteq 1..clock
      BY <1>2 DEF Measured, Since
<1>4. /\ after \in Seq(TimeRecord)
      /\ \E d \in [0..Len(after) -> 0..clock] : Covers(d, after, S) /\ d[Len(after)] = clock
      BY <1>1, <1>2, <1>3, Remembered
<1> HIDE DEF after
<1>5. /\ m.sleeping = TRUE /\ m.lastSleep = clock /\ m.lastWake = l.lastWake /\ m.timeList = after
      /\ m \in Loads
      BY <1>1, <1>4 DEF StartSleep, Loads, after
<1> HIDE DEF m
<1>6. Fits(clock, clock, TRUE, S) /\ clock <= clock
      BY DEF Fits
<1>7. /\ Since(m, TRUE) = clock /\ Since(m, TRUE) <= clock
      /\ Fits(Since(m, TRUE), clock, TRUE, S)
      BY <1>5, <1>6 DEF Since
<1>8. \E d \in [0..Len(m.timeList) -> 0..clock] :
         Covers(d, m.timeList, S) /\ d[Len(m.timeList)] = Since(m, TRUE)
      BY <1>4, <1>5, <1>7
<1>9. Measured(m, TRUE, S, clock)
      BY <1>3, <1>5, <1>7, <1>8 DEF Measured
<1> QED BY <1>5, <1>9 DEF m

\* Waking up begins an interval of running.
LEMMA WakeUpMeasured ==
    ASSUME NEW clock \in Nat, NEW l, NEW S, Measured(l, TRUE, S, clock)
    PROVE  Measured(WakeUp(l, clock), FALSE, S, clock) /\ WakeUp(l, clock).sleeping = FALSE
<1> DEFINE records == l.timeList
           N == Len(records)
           after == Remember(records, clock - l.lastSleep, TRUE)
           m == WakeUp(l, clock)
<1>1. l \in Loads /\ records \in Seq(TimeRecord)
      BY DEF Measured, Loads
<1>2. PICK b \in [0..N -> 0..clock] : Covers(b, records, S) /\ b[N] = l.lastSleep
      BY DEF Measured, Since
<1>3. Fits(b[N], clock, TRUE, S) /\ S \subseteq 1..clock
      BY <1>2 DEF Measured, Since
<1>4. /\ after \in Seq(TimeRecord)
      /\ \E d \in [0..Len(after) -> 0..clock] : Covers(d, after, S) /\ d[Len(after)] = clock
      BY <1>1, <1>2, <1>3, Remembered
<1> HIDE DEF after
<1>5. /\ m.sleeping = FALSE /\ m.lastWake = clock /\ m.lastSleep = l.lastSleep /\ m.timeList = after
      /\ m \in Loads
      BY <1>1, <1>4 DEF WakeUp, Slept, Loads, after
<1> HIDE DEF m
<1>6. Fits(clock, clock, FALSE, S) /\ clock <= clock
      BY DEF Fits
<1>7. /\ Since(m, FALSE) = clock /\ Since(m, FALSE) <= clock
      /\ Fits(Since(m, FALSE), clock, FALSE, S)
      BY <1>5, <1>6 DEF Since
<1>8. \E d \in [0..Len(m.timeList) -> 0..clock] :
         Covers(d, m.timeList, S) /\ d[Len(m.timeList)] = Since(m, FALSE)
      BY <1>4, <1>5, <1>7
<1>9. Measured(m, FALSE, S, clock)
      BY <1>3, <1>5, <1>7, <1>8 DEF Measured
<1> QED BY <1>5, <1>9 DEF m

\* The oldest records may go.
LEMMA TrimMeasured ==
    ASSUME NEW clock \in Nat, NEW l, NEW S, NEW asleep \in BOOLEAN, Measured(l, asleep, S, clock)
    PROVE  /\ Measured(Trim(l, clock), asleep, S, clock)
           /\ Trim(l, clock).sleeping = l.sleeping
           /\ Trim(l, clock).lastSleep = l.lastSleep /\ Trim(l, clock).lastWake = l.lastWake
           /\ l.timeList = <<>> => Trim(l, clock).timeList = <<>>
<1> DEFINE records == l.timeList
           N == Len(records)
           Rest(k) == SubSeq(records, k + 1, N)
           Short(k) == /\ Total(Times(Rest(k))) + Current(l, clock) <= MaxUsec
                       /\ Len(Rest(k)) <= MaxSize
           K == {k \in 0..N : k = N \/ Short(k)}
<1>1. l \in Loads /\ records \in Seq(TimeRecord) /\ N \in Nat
      BY DEF Measured, Loads
<1>2. K \in SUBSET Nat /\ K # {} /\ K \subseteq 0..N
      BY <1>1
<1>3. Trim(l, clock) = [l EXCEPT !.timeList = Rest(Min(K))]
      BY DEF Trim
<1> HIDE DEF K
<1>4. Min(K) \in 0..N
  <2>1. \E x \in K : \A y \in K : x <= y
        BY <1>2, LeastNumber
  <2> QED BY <1>2, <2>1 DEF Min
<1>5. PICK k \in 0..N : k = Min(K)
      BY <1>4
<1> DEFINE after == Rest(k)
           m == Trim(l, clock)
<1>6. /\ after \in Seq(TimeRecord) /\ Len(after) = N - k
      /\ \A i \in 1..N - k : after[i] = records[k + i]
  <2>1. k + 1 \in Int /\ N \in Int /\ \A i \in k + 1..N : records[i] \in TimeRecord
    <3>1. \A i \in 1..N : records[i] \in TimeRecord
          BY <1>1, ElementOfSeq
    <3> QED BY <1>1, <3>1
  <2>2. /\ after \in Seq(TimeRecord)
        /\ Len(after) = IF k + 1 <= N THEN N - (k + 1) + 1 ELSE 0
        /\ \A i \in 1..N - (k + 1) + 1 : after[i] = records[k + 1 + i - 1]
        BY <2>1, SubSeqProperties
  <2>3. \A i \in 1..N - k : i \in 1..N - (k + 1) + 1 /\ k + 1 + i - 1 = k + i
        BY <1>1
  <2> HIDE DEF after, N
  <2> QED BY <1>1, <2>2, <2>3
<1>7. m = [l EXCEPT !.timeList = after]
      BY <1>3, <1>5
<1> HIDE DEF after
<1>8. /\ m.sleeping = l.sleeping /\ m.lastSleep = l.lastSleep /\ m.lastWake = l.lastWake
      /\ m.timeList = after /\ m \in Loads
      BY <1>1, <1>6, <1>7 DEF Loads
<1>9. PICK b \in [0..N -> 0..clock] : Covers(b, records, S) /\ b[N] = Since(l, asleep)
      BY DEF Measured
<1> DEFINE d == [i \in 0..N - k |-> b[k + i]]
<1>10. d \in [0..N - k -> 0..clock] /\ d[N - k] = b[N] /\ \A i \in 0..N - k : d[i] = b[k + i]
      BY <1>1, <1>9
<1> HIDE DEF d
<1>11. Covers(d, after, S)
  <2> SUFFICES ASSUME NEW i \in 1..N - k
               PROVE  /\ d[i - 1] <= d[i] /\ after[i].time = d[i] - d[i - 1]
                      /\ Fits(d[i - 1], d[i], after[i].isSleep, S)
      BY <1>6 DEF Covers
  <2>1. k + i \in 1..N /\ i \in 0..N - k /\ i - 1 \in 0..N - k /\ k + (i - 1) = (k + i) - 1
        BY <1>1
  <2>2. d[i] = b[k + i] /\ d[i - 1] = b[(k + i) - 1] /\ after[i] = records[k + i]
        BY <1>6, <1>10, <2>1
  <2>3. /\ b[(k + i) - 1] <= b[k + i] /\ records[k + i].time = b[k + i] - b[(k + i) - 1]
        /\ Fits(b[(k + i) - 1], b[k + i], records[k + i].isSleep, S)
        BY <1>9, <2>1 DEF Covers
  <2> QED BY <2>2, <2>3
<1>12. Since(m, asleep) = Since(l, asleep)
      BY <1>8 DEF Since
<1>13. d[Len(after)] = Since(m, asleep) /\ d \in [0..Len(after) -> 0..clock]
      BY <1>6, <1>9, <1>10, <1>12
<1>14. ASSUME records = <<>> PROVE after = <<>>
  <2>1. N = 0 /\ k = 0
        BY <1>1, <1>14
  <2> QED BY <1>6, <2>1
<1> HIDE DEF m
<1>15. Measured(m, asleep, S, clock)
      BY <1>8, <1>11, <1>12, <1>13 DEF Measured
<1> QED BY <1>8, <1>14, <1>15 DEF m

\* The clock ticks while an executor sleeps or runs.
LEMMA TickMeasured ==
    ASSUME NEW clock \in Nat, NEW l, NEW S, NEW asleep \in BOOLEAN, Measured(l, asleep, S, clock)
    PROVE  Measured(l, asleep, S \cup (IF asleep THEN {clock + 1} ELSE {}), clock + 1)
<1> DEFINE T == S \cup (IF asleep THEN {clock + 1} ELSE {})
           N == Len(l.timeList)
<1>1. l \in Loads /\ l.timeList \in Seq(TimeRecord) /\ N \in Nat /\ Since(l, asleep) \in Nat
      BY DEF Measured, Loads, Since
<1>2. S \subseteq 1..clock /\ Since(l, asleep) <= clock /\ Fits(Since(l, asleep), clock, asleep, S)
      BY DEF Measured
<1>3. PICK b \in [0..N -> 0..clock] : Covers(b, l.timeList, S) /\ b[N] = Since(l, asleep)
      BY DEF Measured
<1>4. T \subseteq 1..clock + 1 /\ Since(l, asleep) <= clock + 1
      BY <1>1, <1>2
<1>5. Fits(Since(l, asleep), clock + 1, asleep, T)
      BY <1>1, <1>2 DEF Fits
<1>6. \A t \in 1..clock : t \in T <=> t \in S
      OBVIOUS
<1> HIDE DEF T
<1>7. Covers(b, l.timeList, T)
  <2> SUFFICES ASSUME NEW k \in 1..N
               PROVE  /\ b[k - 1] <= b[k] /\ l.timeList[k].time = b[k] - b[k - 1]
                      /\ Fits(b[k - 1], b[k], l.timeList[k].isSleep, T)
      BY DEF Covers
  <2>1. /\ b[k - 1] <= b[k] /\ l.timeList[k].time = b[k] - b[k - 1]
        /\ Fits(b[k - 1], b[k], l.timeList[k].isSleep, S)
        BY <1>3 DEF Covers
  <2>2. b[k - 1] \in 0..clock /\ b[k] \in 0..clock
    <3>1. k \in 0..N /\ k - 1 \in 0..N
          BY <1>1
    <3> QED BY <3>1
  <2>3. \A t \in b[k - 1] + 1..b[k] : t \in 1..clock
        BY <2>2
  <2>4. Fits(b[k - 1], b[k], l.timeList[k].isSleep, T)
        BY <1>6, <2>1, <2>3 DEF Fits
  <2> QED BY <2>1, <2>4
<1>8. b \in [0..N -> 0..clock + 1]
      OBVIOUS
<1>9. Measured(l, asleep, T, clock + 1)
      BY <1>1, <1>3, <1>4, <1>5, <1>7, <1>8 DEF Measured
<1> QED BY <1>9 DEF T

\* A share of a whole, in percent.
LEMMA Percent ==
    ASSUME NEW whole \in Nat \ {0}, NEW part \in 0..whole
    PROVE  (part * 100) \div whole \in 0..100
<1> DEFINE q == (part * 100) \div whole
<1>1. q \in Int /\ whole * q <= part * 100 /\ part * 100 < whole * (q + 1)
      OBVIOUS
<1>2. part * 100 <= whole * 100 /\ 0 <= part * 100
      OBVIOUS
<1> HIDE DEF q
<1>3. ~(q > 100)
      BY <1>1, <1>2
<1>4. ~(q < 0)
      BY <1>1, <1>2
<1>5. q \in 0..100
      BY <1>1, <1>3, <1>4
<1> QED BY <1>5 DEF q

\* The records and the current interval cover the time from the first record
\* to now, and the run time is the number of ticks not slept in it.
LEMMA WindowFacts ==
    ASSUME NEW clock \in Nat, NEW l, NEW S, NEW asleep \in BOOLEAN, Measured(l, asleep, S, clock),
           l.sleeping = asleep
    PROVE  /\ TotalTime(l, clock) \in 0..clock
           /\ TotalRunTime(l, clock) = Awake(clock - TotalTime(l, clock), clock, S)
           /\ TotalRunTime(l, clock) \in 0..TotalTime(l, clock)
           /\ Load(l, clock) \in 0..100
<1> DEFINE records == l.timeList
           N == Len(records)
<1>1. l \in Loads /\ records \in Seq(TimeRecord) /\ N \in Nat /\ S \in SUBSET Nat
      BY DEF Measured, Loads
<1>2. PICK b \in [0..N -> 0..clock] : Covers(b, records, S) /\ b[N] = Since(l, asleep)
      BY DEF Measured
<1>3. /\ Total(Times(records)) = b[N] - b[0]
      /\ Total(RunTimes(records)) = Awake(b[0], b[N], S)
      /\ b[0] <= b[N]
      BY <1>1, <1>2, RecordSums
<1>4. PICK x \in Nat, y \in Nat : x = b[0] /\ y = b[N] /\ x <= y /\ y <= clock
  <2>1. 0 \in 0..N /\ N \in 0..N
        BY <1>1
  <2> QED BY <1>2, <1>3, <2>1
<1>5. Fits(y, clock, asleep, S) /\ y = Since(l, asleep)
      BY <1>2, <1>4 DEF Measured
<1>6. /\ Awake(x, clock, S) \in Nat
      /\ Awake(x, y, S) \in Nat
      /\ Awake(x, clock, S) = Awake(x, y, S) + IF asleep THEN 0 ELSE clock - y
      /\ Awake(x, clock, S) <= clock - x
      BY <1>1, <1>4, <1>5, AwakeTicks
<1>7. Current(l, clock) = clock - y
      BY <1>5 DEF Current, Since
<1>8. TotalTime(l, clock) = clock - x
  <2>1. TotalTime(l, clock) = (y - x) + (clock - y)
        BY <1>3, <1>4, <1>7 DEF TotalTime
  <2> QED BY <1>4, <2>1
<1>9. TotalRunTime(l, clock) = Awake(x, clock, S)
  <2>1. TotalRunTime(l, clock) = Awake(x, y, S) + IF asleep THEN 0 ELSE clock - y
        BY <1>3, <1>4, <1>7 DEF TotalRunTime
  <2> QED BY <1>6, <2>1
<1>10. clock - (clock - x) = x /\ clock - x \in 0..clock
      BY <1>4
<1>11. TotalTime(l, clock) \in 0..clock /\ TotalRunTime(l, clock) \in 0..TotalTime(l, clock)
      BY <1>6, <1>8, <1>9, <1>10
<1>12. TotalRunTime(l, clock) = Awake(clock - TotalTime(l, clock), clock, S)
      BY <1>8, <1>9, <1>10
<1>13. Load(l, clock) \in 0..100
  <2>1. CASE TotalTime(l, clock) = 0
        BY <2>1 DEF Load
  <2>2. CASE TotalTime(l, clock) # 0
    <3>1. TotalTime(l, clock) \in Nat \ {0}
          BY <1>11, <2>2
    <3>2. (TotalRunTime(l, clock) * 100) \div TotalTime(l, clock) \in 0..100
          BY <1>11, <3>1, Percent
    <3> QED BY <2>2, <3>2 DEF Load
  <2> QED BY <2>1, <2>2
<1> QED BY <1>11, <1>12, <1>13

-----------------------------------------------------------------------------
(* The executors.  Before its first sleep the loop thread of an executor   *)
(* is running though its load says it sleeps.                              *)

Fresh(l) == l.sleeping = TRUE /\ l.lastSleep = 0 /\ l.lastWake = 0 /\ l.timeList = <<>>

Readings == [Executors -> SUBSET (0..100)]

Scans == [at : 0..NumExecutors, i : 0..NumExecutors, best : Executors, minLoad : Int,
          in : {"none", "getExecutor", "getExecutorLoad"}]

ProviderTypes ==
    /\ now \in Nat
    /\ loads \in [Executors -> Loads]
    /\ turns \in [Executors -> Nat]
    /\ slept \in [Executors -> SUBSET Nat]
    /\ _pos \in 0..NumExecutors
    /\ scan \in [Callers -> Scans]
    /\ readings \in [Callers -> Readings]

\* What holds of the load of an executor that went to sleep or got up n times.
Kept(l, n, S, clock) ==
    /\ n > 0 /\ l.sleeping => Measured(l, TRUE, S, clock)
    /\ ~(n > 0 /\ l.sleeping) => Measured(l, FALSE, S, clock)
    /\ n = 0 => Fresh(l)

LoadInv == \A e \in Executors : Kept(loads[e], turns[e], slept[e], now)

\* The executors getExecutor() has asked: the s.i before s.at, around the end of
\* the list.
Passed(s) ==
    {e \in Executors : (s.at - s.i <= e /\ e < s.at) \/ e >= s.at - s.i + NumExecutors}

\* What getExecutor() knows of the loads it was told: the executor it would
\* return said the least of them.
Compared(s, r) ==
    /\ s.minLoad \in r[s.best]
    /\ \A e \in Executors : \A v \in r[e] : s.minLoad <= v
    /\ s.minLoad = 0 \/ \A e \in Passed(s) : r[e] # {}

ScanInv ==
    \A c \in Callers :
        /\ scan[c].in = "getExecutor" => Compared(scan[c], readings[c])
        /\ scan[c].in # "getExecutor" => scan[c].i \in Executors /\ readings[c] = NoReadings

ProviderInv == ProviderTypes /\ LoadInv /\ ScanInv

\* Every load is a percentage.
LEMMA LoadRange ==
    ASSUME NEW clock \in Nat, NEW l, NEW S, NEW asleep \in BOOLEAN, Measured(l, asleep, S, clock),
           l.sleeping = asleep \/ Fresh(l)
    PROVE  Load(l, clock) \in 0..100
<1>1. CASE l.sleeping = asleep
      BY <1>1, WindowFacts
<1>2. CASE Fresh(l)
  <2> DEFINE b == [k \in 0..0 |-> 0]
  <2>1. l.timeList = <<>> /\ <<>> \in Seq(TimeRecord) /\ Len(<<>>) = 0
        BY <1>2 DEF Fresh
  <2>2. b \in [0..0 -> 0..clock] /\ b[0] = 0
        OBVIOUS
  <2> HIDE DEF b
  <2>3. Covers(b, <<>>, {})
        BY <2>1 DEF Covers
  <2>4. /\ Total(Times(<<>>)) = b[0] - b[0]
        /\ Total(RunTimes(<<>>)) = Awake(b[0], b[0], {})
        /\ b[0] <= b[0]
    <3>1. b \in [0..Len(<<>>) -> 0..clock] /\ {} \in SUBSET Nat
          BY <2>1, <2>2
    <3>2. /\ Total(Times(<<>>)) = b[Len(<<>>)] - b[0]
          /\ Total(RunTimes(<<>>)) = Awake(b[0], b[Len(<<>>)], {})
          /\ b[0] <= b[Len(<<>>)]
          BY <2>1, <2>3, <3>1, RecordSums
    <3> QED BY <2>1, <3>2
  <2>5. Awake(0, 0, {}) = 0
    <3>1. (0 + 1..0) \ {} = {}
          OBVIOUS
    <3> QED BY <3>1, FS_EmptySet DEF Awake
  <2>6. Total(Times(l.timeList)) = 0 /\ Total(RunTimes(l.timeList)) = 0
        BY <2>1, <2>2, <2>4, <2>5
  <2>7. l.sleeping = TRUE /\ l.lastSleep = 0
        BY <1>2 DEF Fresh
  <2>8. Current(l, clock) = clock
        BY <2>7 DEF Current
  <2>9. TotalTime(l, clock) = clock /\ TotalRunTime(l, clock) = 0
        BY <2>6, <2>7, <2>8 DEF TotalTime, TotalRunTime
  <2>10. CASE clock = 0
        BY <2>9, <2>10 DEF Load
  <2>11. CASE clock # 0
    <3>1. clock \in Nat \ {0} /\ 0 \in 0..clock
          BY <2>11
    <3>2. (0 * 100) \div clock \in 0..100
          BY <3>1, Percent
    <3> QED BY <2>9, <2>11, <3>2 DEF Load
  <2> QED BY <2>10, <2>11
<1> QED BY <1>1, <1>2

\* The load of an executor that has been asleep before measures its last ticks.
LEMMA KeptWindow ==
    ASSUME NEW clock \in Nat, NEW n \in Nat, NEW l, NEW S, Kept(l, n, S, clock), n > 0
    PROVE  /\ TotalTime(l, clock) \in 0..clock
           /\ TotalRunTime(l, clock) = Awake(clock - TotalTime(l, clock), clock, S)
<1>1. l \in Loads
      BY DEF Kept, Measured
<1>2. CASE l.sleeping
  <2>1. Measured(l, TRUE, S, clock) /\ l.sleeping = TRUE
        BY <1>1, <1>2 DEF Kept, Loads
  <2> QED BY <2>1, WindowFacts
<1>3. CASE ~l.sleeping
  <2>1. Measured(l, FALSE, S, clock) /\ l.sleeping = FALSE
        BY <1>1, <1>3 DEF Kept, Loads
  <2> QED BY <2>1, WindowFacts
<1> QED BY <1>2, <1>3

\* load() leaves what the load measures.
LEMMA KeptTrim ==
    ASSUME NEW clock \in Nat, NEW n \in Nat, NEW l, NEW S, Kept(l, n, S, clock)
    PROVE  /\ Kept(Trim(l, clock), n, S, clock)
           /\ Trim(l, clock) \in Loads
           /\ Load(Trim(l, clock), clock) \in 0..100
<1> DEFINE m == Trim(l, clock)
<1>1. l \in Loads
      BY DEF Kept, Measured
<1>2. CASE n > 0 /\ l.sleeping
  <2>1. Measured(l, TRUE, S, clock) /\ l.sleeping = TRUE
        BY <1>1, <1>2 DEF Kept, Loads
  <2>2. Measured(m, TRUE, S, clock) /\ m.sleeping = l.sleeping
        BY <2>1, TrimMeasured
  <2>3. Load(m, clock) \in 0..100
        BY <2>1, <2>2, LoadRange
  <2> HIDE DEF m
  <2>4. Kept(m, n, S, clock)
    <3>1. n > 0 /\ n # 0 /\ m.sleeping
          BY <1>2, <2>2
    <3> QED BY <2>2, <3>1 DEF Kept
  <2>5. m \in Loads
        BY <2>2 DEF Measured
  <2> QED BY <2>3, <2>4, <2>5 DEF m
<1>3. CASE ~(n > 0 /\ l.sleeping)
  <2>1. Measured(l, FALSE, S, clock) /\ (n = 0 => Fresh(l)) /\ (n > 0 => l.sleeping = FALSE)
        BY <1>1, <1>3 DEF Kept, Loads
  <2>2. /\ Measured(m, FALSE, S, clock) /\ m.sleeping = l.sleeping
        /\ m.lastSleep = l.lastSleep /\ m.lastWake = l.lastWake
        /\ l.timeList = <<>> => m.timeList = <<>>
        BY <2>1, TrimMeasured
  <2> HIDE DEF m
  <2>3. n = 0 => Fresh(m)
        BY <2>1, <2>2 DEF Fresh
  <2>4. m.sleeping = FALSE \/ Fresh(m)
        BY <2>1, <2>2, <2>3
  <2>5. Load(m, clock) \in 0..100
        BY <2>2, <2>4, LoadRange
  <2>6. Kept(m, n, S, clock)
        BY <1>3, <2>2, <2>3 DEF Kept
  <2>7. m \in Loads
        BY <2>2 DEF Measured
  <2> QED BY <2>5, <2>6, <2>7 DEF m
<1> QED BY <1>2, <1>3

\* So does the clock.
LEMMA KeptTick ==
    ASSUME NEW clock \in Nat, NEW n \in Nat, NEW l, NEW S, Kept(l, n, S, clock)
    PROVE  Kept(l, n, S \cup (IF n > 0 /\ l.sleeping THEN {clock + 1} ELSE {}), clock + 1)
<1>1. CASE n > 0 /\ l.sleeping
  <2>1. Measured(l, TRUE, S, clock)
        BY <1>1 DEF Kept
  <2>2. Measured(l, TRUE, S \cup (IF TRUE THEN {clock + 1} ELSE {}), clock + 1)
        BY <2>1, TickMeasured
  <2>3. (IF n > 0 /\ l.sleeping THEN {clock + 1} ELSE {}) = (IF TRUE THEN {clock + 1} ELSE {})
        BY <1>1
  <2> QED BY <1>1, <2>2, <2>3 DEF Kept
<1>2. CASE ~(n > 0 /\ l.sleeping)
  <2>1. Measured(l, FALSE, S, clock) /\ (n = 0 => Fresh(l))
        BY <1>2 DEF Kept
  <2>2. Measured(l, FALSE, S \cup (IF FALSE THEN {clock + 1} ELSE {}), clock + 1)
        BY <2>1, TickMeasured
  <2>3. (IF n > 0 /\ l.sleeping THEN {clock + 1} ELSE {}) = (IF FALSE THEN {clock + 1} ELSE {})
        BY <1>2
  <2> QED BY <1>2, <2>1, <2>2, <2>3 DEF Kept
<1> QED BY <1>1, <1>2

\* An executor that is awake goes to sleep.
LEMMA KeptSleep ==
    ASSUME NEW clock \in Nat, NEW n \in Nat, NEW l, NEW S, Kept(l, n, S, clock),
           ~(n > 0 /\ l.sleeping)
    PROVE  Kept(StartSleep(l, clock), n + 1, S, clock) /\ StartSleep(l, clock) \in Loads
<1> DEFINE m == StartSleep(l, clock)
<1>1. Measured(l, FALSE, S, clock)
      BY DEF Kept
<1>2. Measured(m, TRUE, S, clock) /\ m.sleeping = TRUE
      BY <1>1, StartSleepMeasured
<1> HIDE DEF m
<1>3. m \in Loads
      BY <1>2 DEF Measured
<1>4. n + 1 > 0 /\ n + 1 # 0 /\ m.sleeping
      BY <1>2
<1>5. Kept(m, n + 1, S, clock)
      BY <1>2, <1>4 DEF Kept
<1> QED BY <1>3, <1>5 DEF m

\* One that sleeps gets up.
LEMMA KeptUp ==
    ASSUME NEW clock \in Nat, NEW n \in Nat, NEW l, NEW S, Kept(l, n, S, clock),
           n > 0 /\ l.sleeping
    PROVE  Kept(WakeUp(l, clock), n + 1, S, clock) /\ WakeUp(l, clock) \in Loads
<1> DEFINE m == WakeUp(l, clock)
<1>1. Measured(l, TRUE, S, clock)
      BY DEF Kept
<1>2. Measured(m, FALSE, S, clock) /\ m.sleeping = FALSE
      BY <1>1, WakeUpMeasured
<1> HIDE DEF m
<1>3. m \in Loads
      BY <1>2 DEF Measured
<1>4. n + 1 > 0 /\ n + 1 # 0 /\ ~m.sleeping
      BY <1>2
<1>5. Kept(m, n + 1, S, clock)
      BY <1>2, <1>4 DEF Kept
<1> QED BY <1>3, <1>5 DEF m

-----------------------------------------------------------------------------
(* The steps *)

LEMMA InitProvider == ProviderInit => ProviderInv
<1> SUFFICES ASSUME ProviderInit PROVE ProviderInv
    OBVIOUS
<1>1. Executors # {} /\ 0 \in Executors
  <2>1. 0 \in 0..NumExecutors - 1
        OBVIOUS
  <2> QED BY <2>1 DEF Executors
<1>2. Created(0) \in Loads /\ Fresh(Created(0)) /\ Created(0).lastWake = 0 /\ Created(0).timeList = <<>>
  <2>1. <<>> \in Seq(TimeRecord)
        OBVIOUS
  <2> QED BY <2>1 DEF Created, Loads, Fresh
<1>3. Measured(Created(0), FALSE, {}, 0)
  <2> DEFINE b == [k \in 0..0 |-> 0]
  <2>1. b \in [0..Len(<<>>) -> 0..0] /\ b[Len(<<>>)] = 0 /\ Covers(b, <<>>, {})
        BY DEF Covers
  <2>2. Fits(0, 0, FALSE, {})
        BY DEF Fits
  <2> HIDE DEF b
  <2>3. Since(Created(0), FALSE) = 0
        BY <1>2 DEF Since
  <2>4. \E d \in [0..Len(Created(0).timeList) -> 0..0] :
           Covers(d, Created(0).timeList, {}) /\ d[Len(Created(0).timeList)] = 0
    <3>1. PICK m : m = Created(0)
          OBVIOUS
    <3>2. m.timeList = <<>>
          BY <1>2, <3>1
    <3>3. b \in [0..Len(m.timeList) -> 0..0] /\ Covers(b, m.timeList, {})
          /\ b[Len(m.timeList)] = 0
          BY <2>1, <3>2
    <3> QED BY <3>1, <3>3
  <2>5. 0 <= 0 /\ {} \subseteq 1..0
        OBVIOUS
  <2> QED BY <1>2, <2>2, <2>3, <2>4, <2>5 DEF Measured
<1>4. Kept(Created(0), 0, {}, 0)
  <2>1. ~(0 > 0)
        OBVIOUS
  <2> QED BY <1>2, <1>3, <2>1 DEF Kept
<1>5. LoadInv
      BY <1>4 DEF LoadInv, ProviderInit
<1>6. Idle \in Scans /\ Idle.in = "none" /\ Idle.i = 0
      BY <1>1 DEF Idle, Scans
<1>7. NoReadings \in Readings
      BY DEF NoReadings, Readings
<1>8. ProviderTypes
  <2>1. now \in Nat /\ loads \in [Executors -> Loads] /\ turns \in [Executors -> Nat]
        BY <1>2 DEF ProviderInit
  <2>2. slept \in [Executors -> SUBSET Nat] /\ _pos \in 0..NumExecutors
        BY DEF ProviderInit
  <2>3. scan \in [Callers -> Scans] /\ readings \in [Callers -> Readings]
        BY <1>6, <1>7 DEF ProviderInit
  <2> QED BY <2>1, <2>2, <2>3 DEF ProviderTypes
<1>9. ScanInv
      BY <1>1, <1>6, <1>7 DEF ScanInv, ProviderInit
<1> QED BY <1>5, <1>8, <1>9 DEF ProviderInv

LEMMA TickKeeps == ASSUME ProviderInv, Tick PROVE ProviderInv'
<1>1. now' = now + 1 /\ now \in Nat /\ UNCHANGED <<loads, turns, _pos, scan, readings>>
      BY DEF Tick, ProviderInv, ProviderTypes
<1>2. ASSUME NEW e \in Executors
      PROVE  slept'[e] = slept[e] \cup (IF turns[e] > 0 /\ loads[e].sleeping THEN {now + 1} ELSE {})
      BY DEF Tick, Asleep
<1>3. LoadInv'
  <2> SUFFICES ASSUME NEW e \in Executors PROVE Kept(loads[e], turns[e], slept'[e], now + 1)
      BY <1>1 DEF LoadInv
  <2>1. Kept(loads[e], turns[e], slept[e], now) /\ turns[e] \in Nat
        BY DEF ProviderInv, ProviderTypes, LoadInv
  <2> QED BY <1>1, <1>2, <2>1, KeptTick
<1>4. slept' \in [Executors -> SUBSET Nat]
  <2>1. \A e \in Executors : slept[e] \in SUBSET Nat
        BY DEF ProviderInv, ProviderTypes
  <2> QED BY <1>1, <2>1 DEF Tick
<1>5. ProviderTypes'
      BY <1>1, <1>4 DEF ProviderInv, ProviderTypes
<1>6. ScanInv'
      BY <1>1 DEF ProviderInv, ScanInv
<1> QED BY <1>3, <1>5, <1>6 DEF ProviderInv

LEMMA SleepKeeps == ASSUME ProviderInv, NEW e \in Executors, GoToSleep(e) PROVE ProviderInv'
<1> DEFINE m == StartSleep(loads[e], now)
<1>1. /\ UNCHANGED <<now, slept, _pos, scan, readings>>
      /\ loads' = [loads EXCEPT ![e] = m] /\ turns' = [turns EXCEPT ![e] = @ + 1]
      BY DEF GoToSleep
<1>2. Kept(loads[e], turns[e], slept[e], now) /\ turns[e] \in Nat /\ now \in Nat
      BY DEF ProviderInv, ProviderTypes, LoadInv
<1>3. ~(turns[e] > 0 /\ loads[e].sleeping)
      BY DEF GoToSleep, Asleep
<1>4. Kept(m, turns[e] + 1, slept[e], now) /\ m \in Loads
      BY <1>2, <1>3, KeptSleep
<1> HIDE DEF m
<1>5. loads' \in [Executors -> Loads] /\ turns' \in [Executors -> Nat]
      BY <1>1, <1>2, <1>4 DEF ProviderInv, ProviderTypes
<1>6. LoadInv'
  <2>1. \A d \in Executors : loads'[d] = IF d = e THEN m ELSE loads[d]
        BY <1>1 DEF ProviderInv, ProviderTypes
  <2>2. \A d \in Executors : turns'[d] = IF d = e THEN turns[e] + 1 ELSE turns[d]
        BY <1>1 DEF ProviderInv, ProviderTypes
  <2> QED BY <1>1, <1>4, <2>1, <2>2 DEF ProviderInv, LoadInv
<1>7. ProviderTypes' /\ ScanInv'
      BY <1>1, <1>5 DEF ProviderInv, ProviderTypes, ScanInv
<1> QED BY <1>6, <1>7 DEF ProviderInv

LEMMA GetUpKeeps == ASSUME ProviderInv, NEW e \in Executors, GetUp(e) PROVE ProviderInv'
<1> DEFINE m == WakeUp(loads[e], now)
<1>1. /\ UNCHANGED <<now, slept, _pos, scan, readings>>
      /\ loads' = [loads EXCEPT ![e] = m] /\ turns' = [turns EXCEPT ![e] = @ + 1]
      BY DEF GetUp
<1>2. Kept(loads[e], turns[e], slept[e], now) /\ turns[e] \in Nat /\ now \in Nat
      BY DEF ProviderInv, ProviderTypes, LoadInv
<1>3. turns[e] > 0 /\ loads[e].sleeping
      BY DEF GetUp, Asleep
<1>4. Kept(m, turns[e] + 1, slept[e], now) /\ m \in Loads
      BY <1>2, <1>3, KeptUp
<1> HIDE DEF m
<1>5. loads' \in [Executors -> Loads] /\ turns' \in [Executors -> Nat]
      BY <1>1, <1>2, <1>4 DEF ProviderInv, ProviderTypes
<1>6. LoadInv'
  <2>1. \A d \in Executors : loads'[d] = IF d = e THEN m ELSE loads[d]
        BY <1>1 DEF ProviderInv, ProviderTypes
  <2>2. \A d \in Executors : turns'[d] = IF d = e THEN turns[e] + 1 ELSE turns[d]
        BY <1>1 DEF ProviderInv, ProviderTypes
  <2> QED BY <1>1, <1>4, <2>1, <2>2 DEF ProviderInv, LoadInv
<1>7. ProviderTypes' /\ ScanInv'
      BY <1>1, <1>5 DEF ProviderInv, ProviderTypes, ScanInv
<1> QED BY <1>6, <1>7 DEF ProviderInv

\* An executor that is asked leaves what the loads measure.
LEMMA SayLoadKeeps ==
    ASSUME ProviderInv, NEW e \in Executors, SayLoad(e), UNCHANGED <<now, turns, slept>>
    PROVE  /\ loads' \in [Executors -> Loads] /\ LoadInv'
           /\ Load(loads'[e], now) \in 0..100
<1> DEFINE m == Trim(loads[e], now)
<1>1. Kept(loads[e], turns[e], slept[e], now) /\ turns[e] \in Nat /\ now \in Nat
      BY DEF ProviderInv, ProviderTypes, LoadInv
<1>2. Kept(m, turns[e], slept[e], now) /\ m \in Loads /\ Load(m, now) \in 0..100
      BY <1>1, KeptTrim
<1>3. loads' = [loads EXCEPT ![e] = m]
      BY DEF SayLoad
<1> HIDE DEF m
<1>4. loads' \in [Executors -> Loads] /\ \A d \in Executors : loads'[d] = IF d = e THEN m ELSE loads[d]
      BY <1>2, <1>3 DEF ProviderInv, ProviderTypes
<1>5. LoadInv'
      BY <1>2, <1>4 DEF ProviderInv, LoadInv
<1>6. loads'[e] = m
      BY <1>4
<1> QED BY <1>2, <1>4, <1>5, <1>6

\* A load that is read is one more reading of the caller.
LEMMA ReadLoadKeeps ==
    ASSUME ProviderInv, NEW c \in Callers, NEW e \in Executors, ReadLoad(c, e),
           UNCHANGED <<now, turns, slept>>
    PROVE  /\ loads' \in [Executors -> Loads] /\ LoadInv'
           /\ readings' \in [Callers -> Readings]
           /\ \A d \in Callers \ {c} : readings'[d] = readings[d]
           /\ Load(loads'[e], now) \in 0..100
           /\ readings'[c][e] = readings[c][e] \cup {Load(loads'[e], now)}
           /\ \A d \in Executors \ {e} : readings'[c][d] = readings[c][d]
<1>1. SayLoad(e)
      BY DEF ReadLoad
<1>2. loads' \in [Executors -> Loads] /\ LoadInv' /\ Load(loads'[e], now) \in 0..100
      BY <1>1, SayLoadKeeps
<1>3. PICK v \in 0..100 : v = Load(loads'[e], now)
      BY <1>2
<1>4. readings \in [Callers -> [Executors -> SUBSET (0..100)]]
      BY DEF ProviderInv, ProviderTypes, Readings
<1>5. readings' = [readings EXCEPT ![c][e] = readings[c][e] \cup {v}]
      BY <1>3, <1>4 DEF ReadLoad
<1>6. /\ readings' \in [Callers -> [Executors -> SUBSET (0..100)]]
      /\ readings'[c][e] = readings[c][e] \cup {v}
      BY <1>4, <1>5
<1>7. /\ \A d \in Callers \ {c} : readings'[d] = readings[d]
      /\ \A d \in Executors \ {e} : readings'[c][d] = readings[c][d]
      BY <1>4, <1>5
<1> QED BY <1>2, <1>3, <1>6, <1>7 DEF Readings

LEMMA WrapFacts ==
    ASSUME NEW n \in 0..NumExecutors
    PROVE  Wrap(n) \in Executors /\ (n < NumExecutors => Wrap(n) = n)
           /\ (n = NumExecutors => Wrap(n) = 0)
BY DEF Wrap, Executors

\* A getExecutor() begins with the load of one executor.
LEMMA BeginKeeps == ASSUME ProviderInv, NEW c \in Callers, Begin(c) PROVE ProviderInv'
<1> DEFINE pos == Wrap(_pos)
           s == [at |-> pos, i |-> 0, best |-> pos, minLoad |-> Load(loads'[pos], now),
                 in |-> "getExecutor"]
<1>1. pos \in Executors
      BY WrapFacts DEF ProviderInv, ProviderTypes
<1>2. ReadLoad(c, pos) /\ UNCHANGED <<now, turns, slept, _pos>> /\ scan' = [scan EXCEPT ![c] = s]
      /\ scan[c] = Idle
      BY DEF Begin, Sleeps, MayCall
<1> HIDE DEF pos
<1>3. /\ loads' \in [Executors -> Loads] /\ LoadInv'
      /\ readings' \in [Callers -> Readings]
      /\ \A d \in Callers \ {c} : readings'[d] = readings[d]
      /\ Load(loads'[pos], now) \in 0..100
      /\ readings'[c][pos] = readings[c][pos] \cup {Load(loads'[pos], now)}
      /\ \A d \in Executors \ {pos} : readings'[c][d] = readings[c][d]
      BY <1>1, <1>2, ReadLoadKeeps
<1>4. scan[c].in # "getExecutor"
      BY <1>2 DEF Idle
<1>5. \A e \in Executors : readings[c][e] = {}
      BY <1>4 DEF ProviderInv, ScanInv, NoReadings
<1>6. PICK v \in 0..100 : v = Load(loads'[pos], now)
      BY <1>3
<1>7. /\ s \in Scans /\ s.at = pos /\ s.i = 0 /\ s.best = pos /\ s.minLoad = v
      /\ s.in = "getExecutor"
  <2>1. pos \in 0..NumExecutors /\ 0 \in 0..NumExecutors /\ v \in Int
        BY <1>1 DEF Executors
  <2> QED BY <1>1, <1>6, <2>1 DEF Scans
<1> HIDE DEF s
<1>8. Compared(s, readings'[c])
  <2>1. Passed(s) = {}
        BY <1>1, <1>7 DEF Passed, Executors
  <2>2. readings'[c][pos] = {v} /\ \A e \in Executors \ {pos} : readings'[c][e] = {}
        BY <1>1, <1>3, <1>5, <1>6
  <2>3. \A e \in Executors : \A w \in readings'[c][e] : s.minLoad <= w
    <3>1. \A e \in Executors : \A w \in readings'[c][e] : w = v
          BY <2>2
    <3> QED BY <1>7, <3>1
  <2> QED BY <1>7, <2>1, <2>2, <2>3 DEF Compared
<1>9. scan' \in [Callers -> Scans] /\ scan'[c] = s /\ \A d \in Callers \ {c} : scan'[d] = scan[d]
      BY <1>2, <1>7 DEF ProviderInv, ProviderTypes
<1>10. ProviderTypes'
      BY <1>2, <1>3, <1>9 DEF ProviderInv, ProviderTypes
<1>11. ScanInv'
      BY <1>3, <1>7, <1>8, <1>9 DEF ProviderInv, ScanInv
<1> QED BY <1>3, <1>10, <1>11 DEF ProviderInv

\* The executors asked go on around the end of the list.
LEMMA PassedStep ==
    ASSUME NEW s \in Scans, NEW t, s.i < NumExecutors,
           t.i = s.i + 1, t.at = Wrap(s.at) + 1
    PROVE  Passed(t) \subseteq Passed(s) \cup {Wrap(s.at)}
<1>1. PICK x \in 0..NumExecutors, n \in 0..NumExecutors : x = s.at /\ n = s.i /\ n < NumExecutors
      BY DEF Scans
<1>2. NumExecutors \in Nat
      OBVIOUS
<1> SUFFICES ASSUME NEW e \in Passed(t), e # Wrap(x) PROVE e \in Passed(s)
    BY <1>1
<1>3. e \in 0..NumExecutors - 1
      /\ ((t.at - t.i <= e /\ e < t.at) \/ e >= t.at - t.i + NumExecutors)
      BY DEF Passed, Executors
<1>4. CASE x < NumExecutors
  <2>1. Wrap(x) = x /\ t.at = x + 1 /\ t.i = n + 1
        BY <1>1, <1>4, WrapFacts
  <2>2. (x - n <= e /\ e < x) \/ e >= x - n + NumExecutors
        BY <1>2, <1>3, <2>1
  <2> QED BY <1>1, <1>3, <2>2 DEF Passed, Executors
<1>5. CASE x = NumExecutors
  <2>1. Wrap(x) = 0 /\ t.at = 1 /\ t.i = n + 1
        BY <1>1, <1>5, WrapFacts
  <2>2. (x - n <= e /\ e < x) \/ e >= x - n + NumExecutors
        BY <1>2, <1>3, <1>5, <2>1
  <2> QED BY <1>1, <1>3, <2>2 DEF Passed, Executors
<1> QED BY <1>1, <1>4, <1>5

\* Each turn of the loop compares the load of one more executor.
LEMMA ScanKeeps == ASSUME ProviderInv, NEW c \in Callers, Scan(c) PROVE ProviderInv'
<1> DEFINE pos == Wrap(scan[c].at)
           load == Load(loads'[pos], now)
           better == scan[c].minLoad > load
           least == IF better THEN load ELSE scan[c].minLoad
           t == [at |-> IF EndsEarly(least) THEN pos ELSE pos + 1,
                 i |-> IF EndsEarly(least) THEN NumExecutors ELSE scan[c].i + 1,
                 best |-> MinLoadExecutor(pos, scan[c].best, better),
                 minLoad |-> least,
                 in |-> "getExecutor"]
<1>1. PICK s \in Scans : s = scan[c]
      BY DEF ProviderInv, ProviderTypes
<1>2. ReadLoad(c, pos) /\ UNCHANGED <<now, turns, slept, _pos>> /\ scan' = [scan EXCEPT ![c] = t]
      /\ s.in = "getExecutor" /\ s.i # NumExecutors
      BY <1>1 DEF Scan, Sleeps, Scanned
<1>3. pos \in Executors
      BY <1>1, WrapFacts DEF Scans
<1>4. PICK a \in Executors : a = pos
      BY <1>3
<1>5. /\ loads' \in [Executors -> Loads] /\ LoadInv'
      /\ readings' \in [Callers -> Readings]
      /\ \A d \in Callers \ {c} : readings'[d] = readings[d]
      /\ Load(loads'[a], now) \in 0..100
      /\ readings'[c][a] = readings[c][a] \cup {Load(loads'[a], now)}
      /\ \A d \in Executors \ {a} : readings'[c][d] = readings[c][d]
      BY <1>2, <1>4, ReadLoadKeeps
<1>60. PICK v \in 0..100 : v = load
       BY <1>4, <1>5
<1>61. PICK m \in Int : m = s.minLoad
       BY DEF Scans
<1>62. PICK n \in Int : n = least
  <2>1. least \in {v, m}
        BY <1>1, <1>60, <1>61
  <2> QED BY <2>1
<1>6. v = load /\ m = s.minLoad /\ n = least
      BY <1>60, <1>61, <1>62
<1>7. n <= v /\ n <= m /\ (m = 0 => n = 0) /\ (IF m > v THEN n = v ELSE n = m)
  <2>1. n = IF m > v THEN v ELSE m
        BY <1>1, <1>6
  <2> QED BY <2>1
<1>8. /\ t.at = IF n = 0 THEN a ELSE a + 1
      /\ t.i = IF n = 0 THEN NumExecutors ELSE s.i + 1
      /\ t.best = IF m > v THEN a ELSE s.best
      /\ t.minLoad = n /\ t.in = "getExecutor"
      BY <1>1, <1>4, <1>6 DEF EndsEarly, MinLoadExecutor
<1>9. t \in [at : {t.at}, i : {t.i}, best : {t.best}, minLoad : {t.minLoad}, in : {t.in}]
      OBVIOUS
<1>10. readings'[c][a] = readings[c][a] \cup {v}
       BY <1>4, <1>5, <1>6
<1> HIDE DEF pos, load, better, least, t
<1>11. t \in Scans
  <2>1. /\ a \in 0..NumExecutors /\ a + 1 \in 0..NumExecutors
        /\ NumExecutors \in 0..NumExecutors /\ s.i + 1 \in 0..NumExecutors
        BY <1>2 DEF Scans, Executors
  <2>2. s.best \in Executors
        BY DEF Scans
  <2>3. t.at \in 0..NumExecutors /\ t.i \in 0..NumExecutors /\ t.best \in Executors
        /\ t.minLoad \in Int /\ t.in = "getExecutor"
        BY <1>8, <2>1, <2>2
  <2> QED BY <1>9, <2>3 DEF Scans
<1>12. Compared(s, readings[c])
      BY <1>1, <1>2 DEF ProviderInv, ScanInv
<1>13. \A e \in Executors : \A w \in readings'[c][e] : n <= w
  <2> SUFFICES ASSUME NEW e \in Executors, NEW w \in readings'[c][e] PROVE n <= w
      OBVIOUS
  <2>1. w \in readings[c][e] \/ w = v
        BY <1>5, <1>10
  <2>2. CASE w \in readings[c][e]
    <3>1. m <= w
          BY <1>6, <1>12, <2>2 DEF Compared
    <3>2. w \in Int
          BY <2>2 DEF ProviderInv, ProviderTypes, Readings
    <3> QED BY <1>7, <3>1, <3>2
  <2> QED BY <1>7, <2>1, <2>2
<1>14. n \in readings'[c][t.best]
  <2>1. CASE m > v
        BY <1>7, <1>8, <1>10, <2>1
  <2>2. CASE ~(m > v)
    <3>1. n = m /\ t.best = s.best /\ s.best \in Executors
          BY <1>7, <1>8, <2>2 DEF Scans
    <3>2. m \in readings[c][s.best]
          BY <1>6, <1>12 DEF Compared
    <3> QED BY <1>5, <1>10, <3>1, <3>2
  <2> QED BY <2>1, <2>2
<1>15. n # 0 => \A e \in Passed(t) : readings'[c][e] # {}
  <2> SUFFICES ASSUME n # 0, NEW e \in Passed(t) PROVE readings'[c][e] # {}
      OBVIOUS
  <2>1. t.i = s.i + 1 /\ t.at = Wrap(s.at) + 1 /\ a = Wrap(s.at)
        BY <1>1, <1>4, <1>8 DEF pos
  <2>2. s.i < NumExecutors
        BY <1>2 DEF Scans
  <2>3. Passed(t) \subseteq Passed(s) \cup {a}
        BY <2>1, <2>2, PassedStep
  <2>4. s.minLoad = 0 \/ \A d \in Passed(s) : readings[c][d] # {}
        BY <1>12 DEF Compared
  <2>5. s.minLoad # 0 /\ e \in Executors
        BY <1>6, <1>7 DEF Passed
  <2>6. e = a \/ readings[c][e] # {}
        BY <2>3, <2>4, <2>5
  <2> QED BY <1>5, <1>10, <2>5, <2>6
<1>16. Compared(t, readings'[c])
      BY <1>8, <1>13, <1>14, <1>15 DEF Compared
<1>17. scan' \in [Callers -> Scans] /\ scan'[c] = t /\ \A d \in Callers \ {c} : scan'[d] = scan[d]
      BY <1>2, <1>11 DEF ProviderInv, ProviderTypes
<1>19. ProviderTypes'
      BY <1>2, <1>5, <1>17 DEF ProviderInv, ProviderTypes
<1>20. ScanInv'
      BY <1>5, <1>8, <1>16, <1>17 DEF ProviderInv, ScanInv
<1> QED BY <1>5, <1>19, <1>20 DEF ProviderInv

\* It ends, and leaves a position in the list.
LEMMA ReturnKeeps == ASSUME ProviderInv, NEW c \in Callers, Return(c) PROVE ProviderInv'
<1>1. /\ UNCHANGED <<now, turns, slept, loads>> /\ _pos' = scan[c].at
      /\ scan' = [scan EXCEPT ![c] = Idle] /\ readings' = [readings EXCEPT ![c] = NoReadings]
      BY DEF Return, Sleeps
<1>2. Idle \in Scans /\ Idle.in = "none" /\ Idle.i = 0 /\ 0 \in Executors
      BY DEF Idle, Scans, Executors
<1>3. NoReadings \in Readings
      BY DEF NoReadings, Readings
<1>4. scan[c].at \in 0..NumExecutors
      BY DEF ProviderInv, ProviderTypes, Scans
<1>5. /\ scan' \in [Callers -> Scans] /\ scan'[c] = Idle
      /\ \A d \in Callers \ {c} : scan'[d] = scan[d]
      BY <1>1, <1>2 DEF ProviderInv, ProviderTypes
<1>6. /\ readings' \in [Callers -> Readings] /\ readings'[c] = NoReadings
      /\ \A d \in Callers \ {c} : readings'[d] = readings[d]
      BY <1>1, <1>3 DEF ProviderInv, ProviderTypes
<1>7. ProviderTypes' /\ LoadInv'
      BY <1>1, <1>4, <1>5, <1>6 DEF ProviderInv, ProviderTypes, LoadInv
<1>8. ScanInv'
      BY <1>2, <1>3, <1>5, <1>6 DEF ProviderInv, ScanInv
<1> QED BY <1>7, <1>8 DEF ProviderInv

\* getExecutorLoad() asks, and compares nothing.
LEMMA AskLoadKeeps == ASSUME ProviderInv, NEW c \in Callers, AskLoad(c) PROVE ProviderInv'
<1> DEFINE asked == scan[c].i + 1
           s == IF asked = NumExecutors THEN Idle
                ELSE [scan[c] EXCEPT !.i = asked, !.in = "getExecutorLoad"]
<1>1. /\ UNCHANGED <<now, turns, slept, _pos, readings>> /\ SayLoad(scan[c].i)
      /\ scan' = [scan EXCEPT ![c] = s]
      BY DEF AskLoad, Sleeps
<1>2. scan[c].in # "getExecutor"
      BY DEF AskLoad, MayCall, Idle
<1>3. scan[c].i \in Executors /\ readings[c] = NoReadings /\ scan[c] \in Scans
      BY <1>2 DEF ProviderInv, ProviderTypes, ScanInv
<1>4. loads' \in [Executors -> Loads] /\ LoadInv'
      BY <1>1, <1>3, SayLoadKeeps
<1>5. s \in Scans /\ s.in # "getExecutor" /\ s.i \in Executors
  <2>1. Idle \in Scans /\ Idle.in = "none" /\ Idle.i = 0 /\ 0 \in Executors
        BY DEF Idle, Scans, Executors
  <2>2. CASE asked = NumExecutors
        BY <2>1, <2>2
  <2>3. CASE asked # NumExecutors
    <3>1. asked \in Executors /\ asked \in 0..NumExecutors
          BY <1>3, <2>3 DEF Executors
    <3> HIDE DEF asked
    <3>2. s = [scan[c] EXCEPT !.i = asked, !.in = "getExecutorLoad"]
          BY <2>3
    <3> QED BY <1>3, <3>1, <3>2 DEF Scans
  <2> QED BY <2>2, <2>3
<1> HIDE DEF s
<1>6. /\ scan' \in [Callers -> Scans] /\ scan'[c] = s
      /\ \A d \in Callers \ {c} : scan'[d] = scan[d]
      BY <1>1, <1>5 DEF ProviderInv, ProviderTypes
<1>7. ProviderTypes'
      BY <1>1, <1>4, <1>6 DEF ProviderInv, ProviderTypes
<1>8. ScanInv'
      BY <1>1, <1>3, <1>5, <1>6 DEF ProviderInv, ScanInv
<1> QED BY <1>4, <1>7, <1>8 DEF ProviderInv

LEMMA ProviderStep == ProviderInv /\ [ProviderNext]_providerVars => ProviderInv'
<1> SUFFICES ASSUME ProviderInv, [ProviderNext]_providerVars PROVE ProviderInv'
    OBVIOUS
<1>1. CASE Tick
      BY <1>1, TickKeeps
<1>2. CASE \E flag \in BOOLEAN : PreferCurrentThread(flag)
      BY <1>2 DEF PreferCurrentThread, Sleeps, ProviderInv, ProviderTypes, LoadInv, ScanInv
<1>3. CASE \E e \in Executors : GoToSleep(e) \/ GetUp(e)
      BY <1>3, SleepKeeps, GetUpKeeps
<1>4. ASSUME NEW c \in Callers, GetPoller(c) \/ Scan(c) \/ Return(c) \/ AskLoad(c)
      PROVE  ProviderInv'
      BY <1>4, BeginKeeps, ScanKeeps, ReturnKeeps, AskLoadKeeps DEF GetPoller
<1>5. CASE UNCHANGED providerVars
      BY <1>5 DEF providerVars, ProviderInv, ProviderTypes, LoadInv, ScanInv
<1> QED BY <1>1, <1>2, <1>3, <1>4, <1>5 DEF ProviderNext

LEMMA ProviderInvariance == ProviderSpec => []ProviderInv
BY InitProvider, ProviderStep, PTL DEF ProviderSpec

\* What an executor says of its load is measured: its run time is the number of
\* ticks of the last TotalTime that it has not slept, for any number of
\* executors and any limits, whatever startSleep(), wakeUp() and load() have
\* dropped.
THEOREM LoadsMeasured == ProviderSpec => []LoadIsMeasured
<1>1. ProviderInv => LoadIsMeasured
  <2> SUFFICES ASSUME ProviderInv, NEW e \in Executors, turns[e] > 0
               PROVE  LET window == now - TotalTime(loads[e], now) + 1 .. now
                      IN  /\ window \subseteq 1..now
                          /\ TotalRunTime(loads[e], now) = Cardinality(window \ slept[e])
      BY DEF LoadIsMeasured
  <2>1. Kept(loads[e], turns[e], slept[e], now) /\ turns[e] \in Nat /\ now \in Nat
        BY DEF ProviderInv, ProviderTypes, LoadInv
  <2>2. PICK total \in 0..now : total = TotalTime(loads[e], now)
        BY <2>1, KeptWindow
  <2>3. TotalRunTime(loads[e], now) = Awake(now - total, now, slept[e])
        BY <2>1, <2>2, KeptWindow
  <2>4. now - total + 1 .. now \subseteq 1..now
        BY <2>1
  <2> QED BY <2>2, <2>3, <2>4 DEF Awake
<1> QED BY <1>1, ProviderInvariance, PTL

\* The executor that getExecutor() returns has said of its load what no executor,
\* itself included, went below, and it was 0 or all were asked, for any number of
\* executors and callers, though they share _pos and the loads change meanwhile.
THEOREM LeastLoadedReturned == ProviderSpec => []LeastLoaded
<1>1. ProviderInv => LeastLoaded
  <2> SUFFICES ASSUME ProviderInv, NEW c \in Callers, scan[c].in = "getExecutor", Scanned(c)
               PROVE  \E least \in readings[c][scan[c].best] :
                         /\ \A e \in Executors : \A load \in readings[c][e] : least <= load
                         /\ least = 0 \/ \A e \in Executors : readings[c][e] # {}
      BY DEF LeastLoaded
  <2>1. Compared(scan[c], readings[c]) /\ scan[c] \in Scans
        BY DEF ProviderInv, ProviderTypes, ScanInv
  <2>2. Executors \subseteq Passed(scan[c])
    <3>1. scan[c].i = NumExecutors /\ scan[c].at \in 0..NumExecutors
          BY <2>1 DEF Scanned, Scans
    <3>2. PICK x \in 0..NumExecutors : x = scan[c].at
          BY <3>1
    <3>3. ASSUME NEW e \in Executors
          PROVE  (x - NumExecutors <= e /\ e < x) \/ e >= x - NumExecutors + NumExecutors
          BY DEF Executors
    <3> QED BY <3>1, <3>2, <3>3 DEF Passed
  <2>3. scan[c].minLoad \in readings[c][scan[c].best]
        BY <2>1 DEF Compared
  <2> WITNESS scan[c].minLoad \in readings[c][scan[c].best]
  <2> QED BY <2>1, <2>2 DEF Compared
<1> QED BY <1>1, ProviderInvariance, PTL

\* No sum of a load runs backwards and no share exceeds the whole: what a load
\* says is a percentage.
THEOREM LoadsArePercentages ==
    ProviderSpec => [](\A c \in Callers : \A e \in Executors : readings[c][e] \subseteq 0..100)
<1>1. ProviderInv => \A c \in Callers : \A e \in Executors : readings[c][e] \subseteq 0..100
      BY DEF ProviderInv, ProviderTypes, Readings
<1> QED BY <1>1, ProviderInvariance, PTL
=============================================================================

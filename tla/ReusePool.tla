----------------------------- MODULE ReusePool -----------------------------
(***************************************************************************)
(* Util/ReusePool.h: a pool of objects that never blocks.  An atomic flag  *)
(* guards the list; a thread that finds the flag set does not wait but     *)
(* goes without the pool: obtain() allocates, recycle() deletes.  Objects  *)
(* are handed out behind a shared pointer whose deleter gives the object   *)
(* back if the pool still exists (a weak pointer says so) and the holder   *)
(* has not called quit().  While a deleter is at work it keeps the pool    *)
(* alive, so the last of them may be the one that destroys it.             *)
(*                                                                         *)
(* An object is an address: what is deleted may be allocated again.  The   *)
(* copies of one shared pointer count as one holder.                       *)
(***************************************************************************)
EXTENDS Naturals, Sequences, FiniteSets, Functions

CONSTANTS Threads,      \* the threads that use the pool
          Objects,      \* the addresses the allocator has
          Sizes,        \* the arguments of setSize(), the default included
          DefaultSize,  \* the initial _poolSize
          AllocMayFail, \* whether constructing an object may throw
          Nothing       \* no object

ASSUME SizesAssumption ==
    Sizes \subseteq Nat /\ IsFiniteSet(Sizes) /\ DefaultSize \in Sizes
ASSUME ObjectsAssumption == Nothing \notin Objects
ASSUME AllocAssumption == AllocMayFail \in BOOLEAN

VARIABLES
    flag,      \* _flag
    objs,      \* _objs
    poolSize,  \* _poolSize
    handle,    \* whether the ReusePool object, which owns the pool, exists
    live,      \* the objects that are allocated
    held,      \* the objects each thread holds
    quit,      \* the objects whose holder has given up recycling
    pc, obj,   \* where each thread is in obtain() or in the deleter, with what
    abandoned  \* an allocation threw with the flag set

vars == <<flag, objs, poolSize, handle, live, held, quit, pc, obj, abandoned>>

\* The deleters that have locked _weakSelf and keep the pool alive.
Locking == {t \in Threads : pc[t] \in {"recycle", "put", "unlock"}}

TypeOK ==
    /\ flag \in BOOLEAN /\ handle \in BOOLEAN /\ abandoned \in BOOLEAN
    /\ objs \in Seq(Objects) /\ \E n \in Sizes : Len(objs) <= n
    /\ poolSize \in Sizes
    /\ live \subseteq Objects /\ quit \subseteq Objects
    /\ held \in [Threads -> SUBSET Objects]
    /\ pc \in [Threads -> {"idle", "take", "alloc", "release", "recycle", "put", "unlock"}]
    /\ obj \in [Threads -> Objects \cup {Nothing}]

Init ==
    /\ flag = FALSE /\ objs = <<>> /\ poolSize = DefaultSize /\ handle = TRUE
    /\ live = {} /\ quit = {} /\ abandoned = FALSE
    /\ held = [t \in Threads |-> {}]
    /\ pc = [t \in Threads |-> "idle"]
    /\ obj = [t \in Threads |-> Nothing]

Goto(t, label) == pc' = [pc EXCEPT ![t] = label]

ClearForgotten == UNCHANGED flag

\* _flag.clear()
ClearFlag == flag' = FALSE

\* The thread has an object of its own now, with a fresh quit flag.
Hold(t, o) == held' = [held EXCEPT ![t] = @ \cup {o}]

-----------------------------------------------------------------------------
(* obtain() *)

\* _flag.test_and_set()
ObtainTest(t) ==
    /\ pc[t] = "idle"
    /\ handle
    /\ flag' = TRUE
    /\ Goto(t, IF flag THEN "alloc" ELSE "take")
    /\ UNCHANGED <<objs, poolSize, handle, live, held, quit, obj, abandoned>>

LeaveFront == UNCHANGED objs

TakeFront == objs' = Tail(objs)

\* With the flag ours: the first pooled object.
Take(t) ==
    /\ pc[t] = "take"
    /\ objs # <<>>
    /\ Hold(t, Head(objs))
    /\ TakeFront
    /\ ClearFlag
    /\ Goto(t, "idle")
    /\ UNCHANGED <<poolSize, handle, live, quit, obj, abandoned>>

\* The list is empty, or the flag is somebody else's: a new object.
Allocate(t) ==
    /\ pc[t] = "alloc" \/ (pc[t] = "take" /\ objs = <<>>)
    /\ \E o \in Objects \ live : live' = live \cup {o} /\ Hold(t, o)
    /\ IF pc[t] = "take" THEN ClearFlag ELSE UNCHANGED flag
    /\ Goto(t, "idle")
    /\ UNCHANGED <<objs, poolSize, handle, quit, obj, abandoned>>

\* The constructor throws: obtain() is left without _flag.clear().
AllocateFails(t) ==
    /\ AllocMayFail
    /\ pc[t] = "alloc" \/ (pc[t] = "take" /\ objs = <<>>)
    /\ abandoned' = (abandoned \/ pc[t] = "take")
    /\ Goto(t, "idle")
    /\ UNCHANGED <<flag, objs, poolSize, handle, live, held, quit, obj>>

-----------------------------------------------------------------------------
(* The holder, and the deleter that runs when the last copy is released *)

\* quit(flag) may be called on either side of anything but the release.
SetQuit(t, o, giveUp) ==
    /\ pc[t] = "idle"
    /\ o \in held[t]
    /\ quit' = IF giveUp THEN quit \cup {o} ELSE quit \ {o}
    /\ UNCHANGED <<flag, objs, poolSize, handle, live, held, pc, obj, abandoned>>

Release(t, o) ==
    /\ pc[t] = "idle"
    /\ o \in held[t]
    /\ held' = [held EXCEPT ![t] = @ \ {o}]
    /\ obj' = [obj EXCEPT ![t] = o]
    /\ Goto(t, "release")
    /\ UNCHANGED <<flag, objs, poolSize, handle, live, quit, abandoned>>

\* The pool exists while its handle does or a deleter has locked it.
PoolExists == handle \/ Locking # {}

Delete(t) ==
    /\ live' = live \ {obj[t]}
    /\ quit' = quit \ {obj[t]}
    /\ obj' = [obj EXCEPT ![t] = Nothing]

\* weakPool.lock(): without a pool the object is deleted at once.
NoPool(t) ==
    /\ pc[t] = "release"
    /\ ~PoolExists
    /\ Delete(t)
    /\ Goto(t, "idle")
    /\ UNCHANGED <<flag, objs, poolSize, handle, held, abandoned>>

\* With the pool locked, an object whose holder has quit is deleted too.
LockPool(t) ==
    /\ pc[t] = "release"
    /\ PoolExists
    /\ IF obj[t] \in quit THEN Delete(t) /\ Goto(t, "unlock")
                          ELSE Goto(t, "recycle") /\ UNCHANGED <<live, quit, obj>>
    /\ UNCHANGED <<flag, objs, poolSize, handle, held, abandoned>>

\* recycle(): _flag.test_and_set(); when it was set, the object is deleted.
Recycle(t) ==
    /\ pc[t] = "recycle"
    /\ flag' = TRUE
    /\ IF flag THEN Delete(t) /\ Goto(t, "unlock")
               ELSE Goto(t, "put") /\ UNCHANGED <<live, quit, obj>>
    /\ UNCHANGED <<objs, poolSize, handle, held, abandoned>>

RoomForOneMore == Len(objs) <= poolSize

Room == Len(objs) < poolSize

\* With the flag ours: keep the object if there is room.
Put(t) ==
    /\ pc[t] = "put"
    /\ IF Room
       THEN /\ objs' = Append(objs, obj[t])
            /\ obj' = [obj EXCEPT ![t] = Nothing]
            /\ UNCHANGED <<live, quit>>
       ELSE Delete(t) /\ UNCHANGED objs
    /\ ClearFlag
    /\ Goto(t, "unlock")
    /\ UNCHANGED <<poolSize, handle, held, abandoned>>

KeepPool == UNCHANGED <<live, quit, objs>>

\* ~ReusePool_l(): whatever is pooled is deleted with the pool.
DestroyPool ==
    /\ live' = live \ Range(objs)
    /\ quit' = quit \ Range(objs)
    /\ objs' = <<>>

\* The deleter ends and drops strongPool, perhaps the last pointer to it.
Unlock(t) ==
    /\ pc[t] = "unlock"
    /\ Goto(t, "idle")
    /\ IF handle \/ Locking # {t} THEN KeepPool ELSE DestroyPool
    /\ UNCHANGED <<flag, poolSize, handle, held, obj, abandoned>>

-----------------------------------------------------------------------------
(* The owner of the ReusePool object *)

\* setSize(), by any thread at any time: nothing guards _poolSize.
SetSize(n) ==
    /\ handle
    /\ poolSize' = n
    /\ UNCHANGED <<flag, objs, handle, live, held, quit, pc, obj, abandoned>>

\* ~ReusePool(), when no thread is inside obtain() or will call it.
DestroyHandle ==
    /\ handle
    /\ \A t \in Threads : pc[t] \notin {"take", "alloc"}
    /\ handle' = FALSE
    /\ IF Locking = {} THEN DestroyPool ELSE KeepPool
    /\ UNCHANGED <<flag, poolSize, held, pc, obj, abandoned>>

\* Everything is over.
Terminated ==
    /\ ~handle
    /\ \A t \in Threads : pc[t] = "idle" /\ held[t] = {}
    /\ UNCHANGED vars

-----------------------------------------------------------------------------

\* The steps of a thread inside obtain() or the deleter.
Step(t) ==
    \/ Take(t) \/ Allocate(t) \/ AllocateFails(t)
    \/ NoPool(t) \/ LockPool(t) \/ Recycle(t) \/ Put(t) \/ Unlock(t)

Next ==
    \/ \E t \in Threads :
         \/ ObtainTest(t)
         \/ Step(t)
         \/ \E o \in Objects : Release(t, o) \/ \E giveUp \in BOOLEAN : SetQuit(t, o, giveUp)
    \/ \E n \in Sizes : SetSize(n)
    \/ DestroyHandle
    \/ Terminated

Spec == Init /\ [][Next]_vars

\* A thread inside a call keeps running.
FairSpec == Spec /\ \A t \in Threads : WF_vars(Step(t))

-----------------------------------------------------------------------------
(* Properties *)

\* The object in the hands of thread t's deleter, and those t holds.
InHand(t) == held[t] \cup ({obj[t]} \ {Nothing})

\* An object that was obtained is nobody else's: no other thread has it, and
\* it is not in the list for another obtain() to find; nor is any object in
\* the list twice.
ExclusiveOwnership ==
    /\ \A s, t \in Threads : s # t => InHand(s) \cap InHand(t) = {}
    /\ \A t \in Threads : InHand(t) \cap Range(objs) = {} /\ obj[t] \notin held[t]
    /\ IsInjective(objs)

\* No object leaks and none is used after its deletion, although deleters
\* race with each other, with obtain() and with the end of the pool.
EveryObjectAccounted ==
    live = (UNION {InHand(t) : t \in Threads}) \cup (IF PoolExists THEN Range(objs) ELSE {})

\* The flag does not stay set, and so does not disable the pool for good,
\* unless an allocation threw in the middle of obtain().
FlagReleased == flag ~> (~flag \/ abandoned)
=============================================================================

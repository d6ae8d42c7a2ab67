---------------------------- MODULE SharedBuffer ----------------------------
(***************************************************************************)
(* getSharedBuffer() of Poller/EventPoller.cpp beside the events of        *)
(* EventMap.tla: the callbacks of a poller read into one buffer, which the *)
(* poller knows by a weak pointer, and which lives as long as somebody     *)
(* keeps what getSharedBuffer() returned.  Nothing in src/ calls it: the   *)
(* holders do what the methods of BufferRaw let them do.  They use the     *)
(* buffer in callbacks, and drop it on any thread.                         *)
(***************************************************************************)
EXTENDS EventMap, BufferRaw

CONSTANTS Holders,      \* users of the buffer
          DefaultSize,  \* 1 + SOCKET_DEFAULT_BUF_SIZE
          Sizes,        \* the sizes of the data
          CutData       \* whether holders set a capacity below the size of the data

ASSUME SizesAssumption == DefaultSize \in Nat /\ Sizes \subseteq Nat
ASSUME CutAssumption == CutData \in BOOLEAN

VARIABLES
    buffers,      \* the buffers and who holds them
    _sharedBuffer \* the buffer the weak pointer is for

bufferVars == <<buffers, _sharedBuffer>>

\* One buffer for each holder would be the worst.
Names == 1..Cardinality(Holders)
Gone == [holders |-> {}, size |-> 0, capacity |-> 0]

SharedInit ==
    /\ Init
    /\ buffers = [b \in Names |-> Gone] /\ _sharedBuffer = 1

Alive(b) == buffers[b].holders # {}
Holds(h, b) == h \in buffers[b].holders
HoldsNone(h) == \A b \in Names : ~Holds(h, b)

-----------------------------------------------------------------------------
(* getSharedBuffer() *)

NeverAlive(b) == FALSE

\* What lock() of the weak pointer finds.
Lock(b) == Alive(b)

Keep(h) ==
    /\ Lock(_sharedBuffer)
    /\ buffers' = [buffers EXCEPT ![_sharedBuffer].holders = @ \cup {h}]
    /\ UNCHANGED _sharedBuffer

Create(h) ==
    /\ ~Lock(_sharedBuffer)
    /\ \E b \in Names :
         /\ ~Alive(b) /\ \A c \in 1..b - 1 : Alive(c)
         /\ buffers' = [buffers EXCEPT ![b] = [SetCapacity(Gone, DefaultSize) EXCEPT !.holders = {h}]]
         /\ _sharedBuffer' = b

GetSharedBuffer(h) ==
    /\ running /\ HoldsNone(h)
    /\ Keep(h) \/ Create(h)
    /\ UNCHANGED vars

\* With the last pointer the buffer goes.
Drop(h, b) ==
    /\ Holds(h, b)
    /\ LET others == buffers[b].holders \ {h} IN
       buffers' = [buffers EXCEPT ![b] =
                     IF others = {} THEN Gone ELSE [buffers[b] EXCEPT !.holders = others]]
    /\ UNCHANGED <<vars, _sharedBuffer>>

-----------------------------------------------------------------------------
(* The methods of the buffer, in a callback *)

Becomes(h, b, buffer) ==
    /\ running /\ Holds(h, b)
    /\ buffers' = [buffers EXCEPT ![b] = buffer]
    /\ UNCHANGED <<vars, _sharedBuffer>>

CallSetCapacity(h, b, capacity) ==
    /\ CutData \/ capacity >= buffers[b].size
    /\ Becomes(h, b, SetCapacity(buffers[b], capacity))

CallSetSize(h, b, size) ==
    /\ SizeFits(buffers[b], size)
    /\ Becomes(h, b, SetSize(buffers[b], size))

\* The exception ends the callback; runLoop() catches it.
SetSizeThrows(h, b, size) ==
    /\ Holds(h, b) /\ ~SizeFits(buffers[b], size)
    /\ EndCallback
    /\ UNCHANGED bufferVars

CallAssign(h, b, size) == Becomes(h, b, Assign(buffers[b], size))

SharedNext ==
    \/ Next /\ UNCHANGED bufferVars
    \/ \E h \in Holders : GetSharedBuffer(h)
    \/ \E h \in Holders, b \in Names :
         \/ Drop(h, b)
         \/ \E size \in Sizes :
              \/ CallSetCapacity(h, b, size) \/ CallAssign(h, b, size)
              \/ CallSetSize(h, b, size) \/ SetSizeThrows(h, b, size)

SharedSpec == SharedInit /\ [][SharedNext]_<<vars, bufferVars>>

-----------------------------------------------------------------------------
(* Properties *)

\* Whoever holds a buffer of getSharedBuffer() holds the one and only, though
\* holders come and go in any order on any thread, and its data lie in its
\* memory, whatever the others have made of it: data() and size() of a holder
\* can be used together, unless somebody cuts off data by setCapacity().
OneSoundBuffer ==
    \A b \in Names : Alive(b) =>
        /\ b = _sharedBuffer
        /\ buffers[b].size <= buffers[b].capacity
=============================================================================

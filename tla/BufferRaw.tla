------------------------------ MODULE BufferRaw ------------------------------
(***************************************************************************)
(* BufferRaw (Network/Buffer.h): memory of a capacity, with data of a size.*)
(* A buffer is a record with these two fields; the methods are operators   *)
(* from the old record to the new one.  What the bytes are plays no part.  *)
(***************************************************************************)
EXTENDS Naturals

CONSTANT Small   \* below this capacity (2 * 1024) memory is always used again

ASSUME SmallAssumption == Small \in Nat

\* setCapacity() keeps the memory it has if it is large enough and not
\* more than twice what is asked for, or small anyway.
UsesAgain(b, capacity) ==
    /\ capacity <= b.capacity
    /\ b.capacity < Small \/ 2 * capacity > b.capacity

\* The size is left alone, whatever the new capacity is.
SetCapacity(b, capacity) ==
    IF UsesAgain(b, capacity) THEN b ELSE [b EXCEPT !.capacity = capacity]

\* setSize() throws otherwise.
SizeFits(b, size) == size <= b.capacity

SetSize(b, size) == [b EXCEPT !.size = size]

\* One byte more is for the terminator.
Assign(b, size) == SetSize(SetCapacity(b, size + 1), size)
=============================================================================

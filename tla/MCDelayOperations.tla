------------------------- MODULE MCDelayOperations -------------------------
(* DelayOperations.tla with two operations and a few milliseconds. *)
EXTENDS DelayOperations

CONSTANTS a, b

MCTasks == {a, b}
\* Back, short, and too long.
MCSteps == {-1, 1, 2, 3}
=============================================================================

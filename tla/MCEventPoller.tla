--------------------------- MODULE MCEventPoller ---------------------------
(* EventPoller.tla with two clients and a pipe that two bytes fill. *)
EXTENDS EventPoller

CONSTANTS c1, c2

MCClients == {c1, c2}
=============================================================================

--------------------------- MODULE MCCommandQueue ---------------------------
(* Three callers issue two commands each on a ring with two usable slots:  *)
(* one of them always has to wait for a slot, and the ring wraps twice.    *)
EXTENDS CommandQueue

CONSTANTS c1, c2, c3

MCCallers == {c1, c2, c3}
MCPayloads == MCCallers \X (1..MaxCalls)
=============================================================================

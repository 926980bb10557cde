----------------------------- MODULE MCBceQueue -----------------------------
(* Two queues of three slots share a completion queue of two entries, so   *)
(* that the rings wrap, both queues can be on the interrupt's list at once *)
(* and the device can refill the completion queue while it is being        *)
(* drained.                                                                *)
EXTENDS BceQueue

CONSTANTS q1, q2, p1
=============================================================================

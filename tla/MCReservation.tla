--------------------------- MODULE MCReservation ---------------------------
(* Two ordinary callers and one in the completion handler, competing for a *)
(* ring with a single usable slot: every reservation after the first has   *)
(* to wait, time out or be handed the slot by a notification.              *)
EXTENDS Reservation

CONSTANTS c1, c2, h1

MCCallers == {c1, c2, h1}
MCIrqCallers == {h1}
=============================================================================

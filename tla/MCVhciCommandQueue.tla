------------------------- MODULE MCVhciCommandQueue -------------------------
(* Two callers with a command each, of two codes, and a device that may be *)
(* late or not.  Three slots are fewer than the two commands and their two *)
(* cancellations, so that a message may find no slot.                      *)
EXTENDS VhciCommandQueue

CONSTANTS c1, c2, x1, x2
=============================================================================

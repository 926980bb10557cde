----------------------------- MODULE MCMailbox -----------------------------
(* Three probes of a device that may lose or refuse any message, and       *)
(* answer those of the second and third one late.                          *)
EXTENDS Mailbox
=============================================================================

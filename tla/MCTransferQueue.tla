-------------------------- MODULE MCTransferQueue --------------------------
(* Two URBs on an endpoint of each kind, calm and disturbed.  The states of *)
(* a control endpoint are many, so it has one trouble and the others two.  *)
EXTENDS TransferQueue
CONSTANTS u1, u2
MCUrbs == {u1, u2}
MCMaxTroubles == [in |-> 2, out |-> 0, control |-> 1]
=============================================================================

------------------------------ MODULE MCVhciHub ------------------------------
EXTENDS VhciHub, TLC

(* Endpoint 0, an IN and an OUT endpoint with the same number, the IN one  *)
(* in two settings.                                                        *)
MCEndps == {Ep0, [num |-> 1, in |-> FALSE, setting |-> 1]}
           \cup [num : {1}, in : {TRUE}, setting : {1, 2}]

MCSymmetry == Permutations(Ports)
=============================================================================

------------------------------ MODULE SlotPool ------------------------------
(***************************************************************************)
(* What the reservation interface of a submission queue promises: a fixed  *)
(* number of slots, each free, reserved by a caller or in the device's     *)
(* hands.  A caller acquires a slot before it writes to the ring, then     *)
(* either submits it or gives it back, and the slot of a submission comes  *)
(* back when its completion has been handled.                              *)
(*                                                                         *)
(* Reservation.tla (the atomic counters of bce_reserve_submission) and     *)
(* BceQueue.tla (the ring indices) both implement this specification.      *)
(***************************************************************************)
EXTENDS Naturals

CONSTANT Capacity   \* el_count - 1: one slot of the ring is never used

VARIABLES free, reserved, used

poolVars == <<free, reserved, used>>

PoolInit == free = Capacity /\ reserved = 0 /\ used = 0

Acquire == /\ free > 0
           /\ free' = free - 1
           /\ reserved' = reserved + 1
           /\ UNCHANGED used

Submit == /\ reserved > 0
          /\ reserved' = reserved - 1
          /\ used' = used + 1
          /\ UNCHANGED free

GiveBack == /\ reserved > 0
            /\ reserved' = reserved - 1
            /\ free' = free + 1
            /\ UNCHANGED used

Release == /\ used > 0
           /\ used' = used - 1
           /\ free' = free + 1
           /\ UNCHANGED reserved

PoolNext == Acquire \/ Submit \/ GiveBack \/ Release

PoolSpec == PoolInit /\ [][PoolNext]_poolVars
=============================================================================

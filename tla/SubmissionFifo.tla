--------------------------- MODULE SubmissionFifo ---------------------------
(***************************************************************************)
(* What one submission queue promises the code above it: submissions come  *)
(* back to the completion callback one at a time, each exactly once, in    *)
(* the order they were made, each with the result the device gave for that *)
(* very submission, and never more than Capacity of them are outstanding.  *)
(***************************************************************************)
EXTENDS Naturals, Sequences

CONSTANTS Payloads, NoData, Capacity

VARIABLES fifo,     \* submitted, not yet handed to the callback
          handed    \* what the callback is working on, or NoData

fifoVars == <<fifo, handed>>

FifoInit == fifo = <<>> /\ handed = NoData

Outstanding == Len(fifo) + (IF handed = NoData THEN 0 ELSE 1)

Put(x) == /\ Outstanding < Capacity
          /\ fifo' = Append(fifo, x)
          /\ UNCHANGED handed

Hand == /\ fifo # <<>> /\ handed = NoData
        /\ handed' = Head(fifo)
        /\ fifo' = Tail(fifo)

Finish == /\ handed # NoData
          /\ handed' = NoData
          /\ UNCHANGED fifo

FifoNext == (\E x \in Payloads : Put(x)) \/ Hand \/ Finish

FifoSpec == FifoInit /\ [][FifoNext]_fifoVars
=============================================================================

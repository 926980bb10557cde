---------------------------- MODULE MCEventQueue ----------------------------
(* Rings of four slots with two buffers posted and six events, so that the *)
(* ring wraps and both buffers can be filled while the worker is in the    *)
(* middle of a run; firmware that cancels and firmware that does not       *)
(* (EventQueue.cfg), and a short run of one that does (EventQueuePair.cfg).*)
EXTENDS EventQueue
=============================================================================

-------------------------- MODULE MCAudioProtocol --------------------------
(* Two callers with three calls between them share two buffers and two     *)
(* tags, so that rings, buffers and tags all wrap; the device may ask for  *)
(* a message in between.                                                   *)
EXTENDS AudioProtocol
CONSTANTS c1, c2
MCCallers == {c1, c2}
=============================================================================

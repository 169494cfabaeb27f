--------------------------- MODULE MCWireDecoder ---------------------------
(***************************************************************************)
(* Instances of WireDecoder for TLC.                                       *)
(***************************************************************************)
EXTENDS WireDecoder
============================================================================

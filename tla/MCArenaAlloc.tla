--------------------------- MODULE MCArenaAlloc ---------------------------
(***************************************************************************)
(* Instances of ArenaAlloc for TLC.                                        *)
(***************************************************************************)
EXTENDS ArenaAlloc
===========================================================================

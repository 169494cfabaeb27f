---------------------------- MODULE MCPhpObjects ----------------------------
(***************************************************************************)
(* Instances of PhpObjects for TLC.  Addresses are only compared for       *)
(* equality, so all of them are interchangeable.                           *)
(***************************************************************************)
EXTENDS PhpObjects, TLC

AddressSymmetry == Permutations(Obj) \cup Permutations(Cell) \cup Permutations(Arena)
============================================================================

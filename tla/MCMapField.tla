----------------------------- MODULE MCMapField -----------------------------
(***************************************************************************)
(* Instances of MapField for TLC.  The integer keys 1, 5 and 17 share a    *)
(* main position in tables of two and of four entries, and their chain     *)
(* displaces 2; the string keys do the same through their hashes.          *)
(***************************************************************************)
EXTENDS MapField

MCStrHash == [k \in StrKeys |-> IF k = 4 THEN 3 ELSE IF k = 3 THEN 6 ELSE 2]
=============================================================================

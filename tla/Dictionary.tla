----------------------------- MODULE Dictionary -----------------------------
(***************************************************************************)
(* What upb/message/map.h and the ArrayAccess methods of MapField promise: *)
(* a partial function from keys to values.                                 *)
(***************************************************************************)
CONSTANTS Key, Missing

VARIABLE dict

DictInit == dict = [k \in Key |-> Missing]

Assign(k, v) == dict' = [dict EXCEPT ![k] = v]

Drop(k) == dict' = [dict EXCEPT ![k] = Missing]

DropAll == dict' = [k \in Key |-> Missing]
=============================================================================

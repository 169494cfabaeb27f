------------------------- MODULE MCRequestLifecycle -------------------------
(***************************************************************************)
(* Instances of RequestLifecycle for TLC.  File 4 is descriptor.proto, and *)
(* file 3 depends on it; files 1 and 3 define the same extension, files 2  *)
(* and 5 the same symbol.  The hashes make the chains of the symbol table  *)
(* collide when it grows from two entries to four and to eight.            *)
(***************************************************************************)
EXTENDS RequestLifecycle

MCSyms == [f \in File |-> CASE f = 1 -> <<1>>
                            [] f = 2 -> <<2, 3>>
                            [] f = 3 -> <<4>>
                            [] f = 4 -> <<6>>
                            [] f = 5 -> <<5, 2>>]
MCExts == [f \in File |-> CASE f = 1 -> <<1>> [] f = 3 -> <<2, 1>> [] OTHER -> <<>>]
MCDeps == [f \in File |-> CASE f = 3 -> {4} [] f = 5 -> {1} [] OTHER -> {}]
MCSymHash == <<1, 5, 2, 9, 6, 3>>
============================================================================

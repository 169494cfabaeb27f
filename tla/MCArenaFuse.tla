---------------------------- MODULE MCArenaFuse ----------------------------
(***************************************************************************)
(* Instances of ArenaFuse for TLC.  Addresses are not interchangeable (the *)
(* algorithm compares them), threads are.                                  *)
(***************************************************************************)
EXTENDS ArenaFuse, TLC

\* Every pair of three arenas once, in both address orders.
RingOfThree == {<<1, 2>>, <<3, 2>>, <<1, 3>>}
\* Two arenas in both argument orders, the trivial call, and a third arena that
\* the run gives caller-provided memory.
AllOfTwoAndOne == ({1, 2} \X {1, 2}) \cup {<<3, 2>>}

ThreadSymmetry == Permutations(Thread)
============================================================================

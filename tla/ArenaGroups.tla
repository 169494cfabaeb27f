----------------------------- MODULE ArenaGroups -----------------------------
(***************************************************************************)
(* What upb/mem/arena.h promises about the lifetimes of arenas, without    *)
(* threads, pointers or counters: fused arenas form groups, references are *)
(* held on arenas, and "no arenas that have been transitively fused        *)
(* together will be freed until all of them have reached a zero refcount". *)
(* Every operation is one atomic step.                                     *)
(***************************************************************************)
EXTENDS Naturals

CONSTANT Arena

VARIABLES
    groups,   \* the partition of the arenas into fused groups
    refs,     \* references held on each arena
    freed     \* arenas whose memory was given back

vars == <<groups, refs, freed>>

Referenced(G) == \E a \in G : refs[a] > 0

\* Join two groups that are both kept alive by somebody.
Fuse(G, H) ==
    /\ G # H /\ Referenced(G) /\ Referenced(H)
    /\ groups' = (groups \ {G, H}) \cup {G \cup H}
    /\ UNCHANGED <<refs, freed>>

IncRef(a) ==
    /\ refs[a] > 0
    /\ refs' = [refs EXCEPT ![a] = @ + 1]
    /\ UNCHANGED <<groups, freed>>

Release(a) ==
    /\ refs[a] > 0
    /\ refs' = [refs EXCEPT ![a] = @ - 1]
    /\ UNCHANGED <<groups, freed>>

\* Give back a member of a group that nobody references.
Reclaim(G, a) ==
    /\ a \in G \ freed /\ ~Referenced(G)
    /\ freed' = freed \cup {a}
    /\ UNCHANGED <<groups, refs>>

Init ==
    /\ groups = {{a} : a \in Arena}
    /\ refs \in [Arena -> Nat \ {0}]
    /\ freed = {}

Next ==
    \/ \E G, H \in groups : Fuse(G, H)
    \/ \E a \in Arena : IncRef(a) \/ Release(a)
    \/ \E G \in groups : \E a \in G : Reclaim(G, a)

Spec == Init /\ [][Next]_vars

(***************************************************************************)
(* Properties of the promise itself.                                       *)
(***************************************************************************)
TypeOK ==
    /\ groups \subseteq SUBSET Arena
    /\ UNION groups = Arena
    /\ \A G, H \in groups : G # H => G \cap H = {}
    /\ refs \in [Arena -> Nat]
    /\ freed \subseteq Arena

\* A freed arena's whole group is unreferenced.
FreedUnreferenced == \A G \in groups : G \cap freed # {} => ~Referenced(G)
============================================================================

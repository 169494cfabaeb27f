------------------------------ MODULE UpbTable ------------------------------
(***************************************************************************)
(* The hash table of upb/hash/common.c: a power-of-two array of entries    *)
(* with internal chaining (Brent's variation).  An entry that is in its    *)
(* main position heads the chain of its hash; an entry elsewhere is a node *)
(* of another entry's chain.  Every operator is a function of a table      *)
(* value: entries are indexed by their offset from t->entries, a `next'    *)
(* pointer is an index or Null, and a hash function is a parameter, as it  *)
(* is in the code.  An operator named Faulty... is the operator after it   *)
(* with a mistake; nothing else uses it.                                   *)
(***************************************************************************)
EXTENDS Integers, FiniteSets, FiniteSetsExt

\* upb_key_empty(): key 0, which is why key 0 of an inttable never is hashed.
Empty == 0
\* The NULL of a `next' pointer.
Null == -1
\* UPB_STRTABLE_BEGIN and UPB_INTTABLE_BEGIN.
Begin == -1
\* SIZE_MAX - 1 and INTPTR_MAX - 1, where an iterator stops: past every index.
End == 1000000

Blank == [key |-> Empty, val |-> 0, next |-> Null]

upb_table_size(t) == t.mask + 1

IsEmpty(t, e) == t.entries[e].key = Empty

\* The index upb_getentry() gives for a key.
MainPos(t, k, hash) == hash[k] % upb_table_size(t)

\* A table is full at a load factor of 7/8; a table below 8 entries fills up.
isfull(t) == t.count = upb_table_size(t) - upb_table_size(t) \div 8

\* The size, 1 << size_lg2, is a power of two.
init(size) ==
    [entries |-> [e \in 0..(size - 1) |-> Blank],
     mask    |-> size - 1,
     count   |-> 0]

\* The first empty entry after e, or the first of the table.
emptyent(t, e) ==
    LET free  == {x \in 0..t.mask : IsEmpty(t, x)}
        after == {x \in free : x > e}
    IN  IF after # {} THEN Min(after) ELSE Min(free)

\* The entries met by following `next' from e, as a set; a chain of a sound
\* table has no cycle, so table-size steps reach its end.
Chain(t, e) ==
    LET met[n \in 0..upb_table_size(t)] ==
            IF n = 0 THEN {e}
            ELSE LET m == met[n - 1]
                 IN  (m \cup {t.entries[x].next : x \in m}) \ {Null}
    IN  met[upb_table_size(t)]

\* Null, or the entry of the chain at the main position that holds k.
findentry(t, k, hash) ==
    LET e    == MainPos(t, k, hash)
        hits == {x \in Chain(t, e) : t.entries[x].key = k}
    IN  IF t.count = 0 \/ IsEmpty(t, e) \/ hits = {} THEN Null
        ELSE CHOOSE x \in hits : TRUE

\* The nodes before x in the chain that starts at the entry e.
Before(t, e, x) == {p \in Chain(t, e) : t.entries[p].next = x}

\* Whether insert() meets none of its assertions: the key is new, and the
\* evicted entry is found in the chain it hashes to.
CanInsert(t, k, hash) ==
    LET e == MainPos(t, k, hash)
        head == MainPos(t, t.entries[e].key, hash)
    IN  /\ findentry(t, k, hash) = Null
        /\ IsEmpty(t, e) \/ head = e \/ Before(t, head, e) # {}

\* Forgets that the evicted entry is a node of another chain.
FaultyInsert(t, k, v, hash) ==
    LET e     == MainPos(t, k, hash)
        main  == t.entries[e]
        new_e == emptyent(t, e)
    IN  [t EXCEPT !.count = @ + 1,
           !.entries =
             IF main.key = Empty
             THEN [@ EXCEPT ![e] = [key |-> k, val |-> v, next |-> Null]]
             ELSE [@ EXCEPT ![new_e] = [key |-> k, val |-> v, next |-> main.next],
                            ![e].next = new_e]]

\* The key must not be in the table, and the table must not be full.
insert(t, k, v, hash) ==
    LET e     == MainPos(t, k, hash)
        main  == t.entries[e]
        new_e == emptyent(t, e)
        head  == MainPos(t, main.key, hash)
        prev  == CHOOSE p \in Before(t, head, e) : TRUE
        ours  == [key |-> k, val |-> v, next |-> Null]
    IN  [t EXCEPT !.count = @ + 1,
           !.entries =
             IF main.key = Empty THEN [@ EXCEPT ![e] = ours]
             ELSE IF head = e
             THEN [@ EXCEPT ![new_e] = [ours EXCEPT !.next = main.next],
                            ![e].next = new_e]
             ELSE [[@ EXCEPT ![new_e] = main] EXCEPT ![prev].next = new_e,
                                                     ![e] = ours]]

\* Empties the head of a chain and leaves the rest of the chain behind.
FaultyRm(t, k, hash) ==
    LET e == MainPos(t, k, hash)
        x == findentry(t, k, hash)
        p == CHOOSE y \in Before(t, e, x) : TRUE
    IN  IF x = Null THEN [table |-> t, removed |-> FALSE]
        ELSE [removed |-> TRUE,
              table |-> [t EXCEPT !.count = @ - 1,
                 !.entries = IF x = e THEN [@ EXCEPT ![e] = Blank]
                             ELSE [@ EXCEPT ![x] = Blank,
                                            ![p].next = t.entries[x].next]]]

\* Removing the head of a chain moves its successor into the main position.
\* What the code leaves in the emptied entry's val and next is not kept: only
\* removeiter's search reads it, and no table here is used with both.
rm(t, k, hash) ==
    LET e    == MainPos(t, k, hash)
        hits == {x \in Chain(t, e) : t.entries[x].key = k}
        x    == CHOOSE y \in hits : TRUE
        p    == CHOOSE y \in Before(t, e, x) : TRUE
        move == t.entries[e].next
    IN  IF IsEmpty(t, e) \/ hits = {} THEN [table |-> t, removed |-> FALSE]
        ELSE [removed |-> TRUE,
              table |-> [t EXCEPT !.count = @ - 1,
                 !.entries =
                   IF x # e THEN [@ EXCEPT ![x] = Blank,
                                           ![p].next = t.entries[x].next]
                   ELSE IF move = Null THEN [@ EXCEPT ![e] = Blank]
                   ELSE [@ EXCEPT ![e] = t.entries[move],
                                  ![move] = Blank]]]

FaultyNext(t, i) ==
    LET rest == {e \in 0..t.mask : e > i + 1 /\ ~ IsEmpty(t, e)}
    IN  IF rest = {} THEN End ELSE Min(rest)

\* The first occupied index after i, or End.
next(t, i) ==
    LET rest == {e \in 0..t.mask : e > i /\ ~ IsEmpty(t, e)}
    IN  IF rest = {} THEN End ELSE Min(rest)

\* A new table of the given size with the entries inserted in index order.
resize(t, size, hash) ==
    LET upto[n \in 0..upb_table_size(t)] ==
            IF n = 0 THEN init(size)
            ELSE IF IsEmpty(t, n - 1) THEN upto[n - 1]
            ELSE insert(upto[n - 1], t.entries[n - 1].key, t.entries[n - 1].val,
                        hash)
    IN  upto[upb_table_size(t)]

\* A resize is asked for with _upb_log2_table_size() + 1.
DoubledSize(t) == 2 * upb_table_size(t)

clear(t) == [t EXCEPT !.count = 0, !.entries = [e \in DOMAIN @ |-> Blank]]

\* Removes the entry an iterator is at: its predecessor, the first entry found
\* to point to it, is unlinked from it; a successor of a chain's head is not
\* moved.
removeiter(t, i) ==
    LET prevs == {e \in 0..t.mask : t.entries[e].next = i}
    IN  [t EXCEPT !.count = @ - 1,
           !.entries =
             IF prevs = {} THEN [@ EXCEPT ![i] = Blank]
             ELSE [@ EXCEPT ![Min(prevs)].next = t.entries[i].next,
                            ![i] = Blank]]
=============================================================================

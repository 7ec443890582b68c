------------------------------ MODULE HashTbl -------------------------------
(***************************************************************************)
(* nasmlib/hashtbl.c: the open-addressing table that holds the constant    *)
(* groups and the test knowledge.  A search that fails leaves in "hi"      *)
(* where the key belongs, and hash_add stores there.  A hash is its lower  *)
(* and upper half, which give the first slot and the distance of the next. *)
(***************************************************************************)
EXTENDS Integers, SequencesExt

CONSTANTS
  NumKeys,         \* keys are 1..NumKeys, numbered in the order they are first used
  Hash,            \* the hashes that keys have
  HASH_INIT_SIZE,  \* a power of 2, at least 4
  AddsUnchecked,   \* TRUE: hash_add whatever hash_find said, as parseCGs and parseTKs do
  MaxAdds, MaxFrees    \* bounds of the run

Keys == 1..NumKeys
Data == 1..MaxAdds

\* No odd number but 1 divides n.
PowerOf2(n) == \A d \in 2..n : n % d = 0 => d % 2 = 0

ASSUME HashTblAssumption ==
  /\ NumKeys \in Nat /\ MaxAdds \in Nat /\ MaxFrees \in Nat /\ AddsUnchecked \in BOOLEAN
  /\ Hash \subseteq [lo : Nat, hi : Nat]
  /\ HASH_INIT_SIZE \in Nat /\ HASH_INIT_SIZE >= 4 /\ PowerOf2(HASH_INIT_SIZE)

VARIABLES
  hash,      \* the hash function of this behaviour
  table, load, max_load,
  hi,        \* the hash_insert of the caller: key searched, slot, size of the table it points into
  wanted,    \* the key that hash_find was called with, 0 between two additions
  next,      \* the iterator, 0 outside of hash_for_each
  seen,      \* the keys that the walk has met, in the order it did: their data is freed
  adds, frees, known,   \* additions, frees, keys used
  map,       \* the keys added and their data (a history)
  wild       \* a store through "hi" went to a table that was freed

vars == <<hash, table, load, max_load, hi, wanted, next, seen, adds, frees, known, map, wild>>

Empty == [key |-> 0]
size == Len(table)
NULL == << >>

hash_max_load(s) == s \div 2
hash_expand(s) == 2 * s

\* Fault: the step may be even and then visits half of the slots.
Probe_AnyStep(s, h, i) == 1 + ((h.lo + (i - 1) * (h.hi % s)) % s)

\* The i-th slot a search looks at: the step is odd, and the size a power of 2.
Probe(s, h, i) ==
  LET step == h.hi % s
  IN 1 + ((h.lo + (i - 1) * (IF step % 2 = 0 THEN step + 1 ELSE step)) % s)

Free(n) == n = Empty

\* The slot that a search for k ends at, 0 if it goes round for ever.
SlotOf(t, k) ==
  LET stop(i) == LET n == t[Probe(Len(t), hash[k], i)] IN Free(n) \/ (n.key = k /\ n.hash = hash[k])
  IN IF \E i \in DOMAIN t : stop(i)
     THEN Probe(Len(t), hash[k], CHOOSE i \in DOMAIN t : stop(i) /\ \A j \in 1..(i - 1) : ~stop(j))
     ELSE 0

\* The first free slot for a hash.
FreeSlot(t, h) ==
  LET free(i) == Free(t[Probe(Len(t), h, i)])
  IN Probe(Len(t), h, CHOOSE i \in DOMAIN t : free(i) /\ \A j \in 1..(i - 1) : ~free(j))

Holds(t, k) == t # NULL /\ SlotOf(t, k) # 0 /\ ~Free(t[SlotOf(t, k)])

-----------------------------------------------------------------------------
Init ==
  /\ hash \in [Keys -> Hash]
  /\ table = NULL /\ load = 0 /\ max_load = 0
  /\ hi = [key |-> 0, where |-> 0, size |-> 0]
  /\ wanted = 0 /\ next = 0 /\ seen = << >>
  /\ adds = 0 /\ frees = 0 /\ known = 0 /\ map = << >> /\ wild = FALSE

\* Fault: the record is filled by the first failing search only.
hash_find_FillsOnce ==
  /\ next = 0 /\ wanted = 0 /\ adds < MaxAdds
  /\ \E k \in Keys :
       /\ k <= known + 1
       /\ known' = IF k > known THEN k ELSE known
       /\ wanted' = k
       /\ hi' = IF (hi.key # 0 /\ hi.size # 0) \/ Holds(table, k) THEN hi
                ELSE [key |-> k, where |-> IF table = NULL THEN 0 ELSE SlotOf(table, k), size |-> size]
  /\ UNCHANGED <<hash, table, load, max_load, next, seen, adds, frees, map, wild>>

\* Of the keys that were never used any will do: hash is any function.
\* A search that succeeds leaves hi alone.
hash_find ==
  /\ next = 0 /\ wanted = 0 /\ adds < MaxAdds
  /\ \E k \in Keys :
       /\ k <= known + 1
       /\ known' = IF k > known THEN k ELSE known
       /\ wanted' = k
       /\ hi' = IF Holds(table, k) THEN hi
                ELSE [key |-> k, where |-> IF table = NULL THEN 0 ELSE SlotOf(table, k), size |-> size]
  /\ UNCHANGED <<hash, table, load, max_load, next, seen, adds, frees, map, wild>>

\* The caller finds what it has in the table, and is content.
Keep ==
  /\ wanted # 0 /\ Holds(table, wanted) /\ ~AddsUnchecked
  /\ wanted' = 0
  /\ UNCHANGED <<hash, table, load, max_load, hi, next, seen, adds, frees, known, map, wild>>

Cleared(n) == [j \in 1..n |-> Empty]

\* Fault: the entries keep their slots when the mask grows.
Rebalanced_SameSlot(t) == t \o Cleared(Len(t))

\* The entries of t in a table of twice its size, placed in the order of their slots.
Rebalanced(t) ==
  LET placed[n \in 0..Len(t)] ==
        IF n = 0 THEN Cleared(hash_expand(Len(t)))
        ELSE LET new == placed[n - 1]
             IN IF Free(t[n]) THEN new ELSE [new EXCEPT ![FreeSlot(new, t[n].hash)] = t[n]]
  IN placed[Len(t)]

Grown(t, limit, l) ==
  IF l > limit THEN [table |-> Rebalanced(t), max_load |-> hash_max_load(hash_expand(Len(t)))]
  ELSE [table |-> t, max_load |-> limit]

\* The node has the hash of the search that filled hi and the key of the caller.
hash_add ==
  /\ wanted # 0 /\ (Holds(table, wanted) => AddsUnchecked)
  /\ LET fresh == hi.where = 0
         node  == [key |-> wanted, hash |-> hash[hi.key], data |-> adds + 1]
         base  == IF fresh THEN Cleared(HASH_INIT_SIZE) ELSE table
         at    == IF fresh THEN Probe(HASH_INIT_SIZE, node.hash, 1) ELSE hi.where
         stale == ~fresh /\ hi.size # size          \* hi points into the table before it grew
         grown == Grown(IF stale THEN base ELSE [base EXCEPT ![at] = node],
                        IF fresh THEN hash_max_load(HASH_INIT_SIZE) ELSE max_load,
                        IF fresh THEN 1 ELSE load + 1)
     IN /\ table' = grown.table /\ max_load' = grown.max_load
        /\ load' = IF fresh THEN 1 ELSE load + 1
        /\ wild' = (wild \/ stale)
  /\ map' = [k \in DOMAIN map \cup {wanted} |-> IF k = wanted THEN adds + 1 ELSE map[k]]
  /\ adds' = adds + 1 /\ wanted' = 0
  /\ UNCHANGED <<hash, hi, next, seen, frees, known>>

\* hash_wdtrees_clear and tks_free_all walk the table to free the keys and the data ...
hash_iterator_init ==
  /\ next = 0 /\ wanted = 0 /\ frees < MaxFrees /\ table # NULL
  /\ next' = 1
  /\ UNCHANGED <<hash, table, load, max_load, hi, wanted, seen, adds, frees, known, map, wild>>

Left == {j \in next..size : ~Free(table[j])}

hash_iterate ==
  /\ next # 0 /\ Left # {}
  /\ next' = Min(Left) + 1 /\ seen' = Append(seen, table[Min(Left)].key)
  /\ UNCHANGED <<hash, table, load, max_load, hi, wanted, adds, frees, known, map, wild>>

\* ... and free it.
hash_free ==
  /\ next # 0 /\ Left = {}
  /\ table' = NULL /\ load' = 0 /\ max_load' = 0 /\ next' = 0 /\ seen' = << >>
  /\ frees' = frees + 1 /\ map' = << >>
  /\ UNCHANGED <<hash, hi, wanted, adds, known, wild>>

Next == hash_find \/ Keep \/ hash_add \/ hash_iterator_init \/ hash_iterate \/ hash_free

Spec == Init /\ [][Next]_vars

-----------------------------------------------------------------------------
(* Properties.                                                             *)

\* Types: a table has a power of 2 of slots.
TypeOK ==
  /\ hash \in [Keys -> Hash] /\ wanted \in 0..NumKeys /\ known \in 0..NumKeys
  /\ table # NULL => /\ size >= HASH_INIT_SIZE /\ PowerOf2(size)
                     /\ max_load = hash_max_load(size)
  /\ \A j \in DOMAIN table : Free(table[j]) \/ (table[j].key \in Keys /\ table[j].data \in Data)

\* Every search ends, also for a key that is not in the table and whatever its hash:
\* hash_findb has no other limit than an empty slot on its way, and that way visits
\* all slots only because its step is odd.
SearchesEnd ==
  table # NULL => \A h \in Hash :
                    \E i \in DOMAIN table : Free(table[Probe(size, h, i)])

\* The count that decides when the table grows is the number of its entries.
LoadIsExact == load = Cardinality({j \in DOMAIN table : ~Free(table[j])})

\* Nothing is stored through an insertion record that the growth of the table made
\* invalid: "A call to hash_add() invalidates all other outstanding hash_insert objects".
NoWildStore == ~wild

\* Through all collisions and growths the table finds each key that was added, with
\* the data it was added with, and no other.
FindsWhatWasAdded ==
  \A k \in Keys : IF k \in DOMAIN map THEN Holds(table, k) /\ table[SlotOf(table, k)].data = map[k]
                  ELSE ~Holds(table, k)

\* No key that was added is lost.
KeysAreKept == \A k \in DOMAIN map : Holds(table, k)

\* When the walk ends each key has been met, and freed, exactly once.
FreedOnce == IsInjective(seen) /\ (next # 0 /\ Left = {} => ToSet(seen) = DOMAIN map)

\* The table is fit to be searched: a power of two of slots, an exact count, an
\* empty slot on every way.
TableSound == TypeOK /\ LoadIsExact /\ SearchesEnd

\* The memory of tables that have grown, and of what is freed, is let alone.
MemorySafe == NoWildStore /\ FreedOnce
=============================================================================

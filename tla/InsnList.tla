------------------------------ MODULE InsnList ------------------------------
(***************************************************************************)
(* nasmlib/insnlist.c on the list macros of include/queue.h: a doubly      *)
(* linked list whose back link is the ADDRESS of the cell that points to   *)
(* the entry (the list head's lh_first or the predecessor's le_next), plus *)
(* a separate tail pointer and a count.                                    *)
(*                                                                         *)
(* A definition with a suffix (TLIST_REMOVE_NoUnlink) is the definition    *)
(* below it with a plausible mistake, kept to see the properties fail.     *)
(***************************************************************************)
EXTENDS Integers, FiniteSets, SeqPlace

CONSTANTS Entry,     \* the heap's list entries
          NULL,      \* the null pointer
          HEAD       \* the address of the head cell, &instlist->insn_entries.lh_first

ASSUME PointersDistinct == NULL \notin Entry /\ HEAD \notin Entry /\ NULL # HEAD
ASSUME HeapFinite == IsFiniteSet(Entry)

VARIABLES
  lh_first,   \* first entry or NULL
  le_next,    \* entry -> next entry or NULL
  le_prev,    \* entry -> cell that points to it: HEAD, or the entry owning that le_next
  tail, insn_count,
  live,       \* entries allocated and not freed
  pc,         \* "build": callers insert;  "output", "clear": inside that loop;  "closed"
  cursor,     \* insnlist_output's loop variable
  file        \* entries given to ofmt->output, in order

links == <<lh_first, le_next, le_prev>>
vars  == <<lh_first, le_next, le_prev, tail, insn_count, live, pc, cursor, file>>

Init ==
  /\ lh_first = NULL
  /\ le_next = [e \in Entry |-> NULL]
  /\ le_prev = [e \in Entry |-> NULL]
  /\ tail = NULL /\ insn_count = 0
  /\ live = {}
  /\ pc = "build" /\ cursor = NULL /\ file = << >>

-----------------------------------------------------------------------------
(* The macros of queue.h.                                                  *)

\* *cell = e, where a cell is HEAD or the le_next field of an entry
Store(cell, e, next) ==
  IF cell = HEAD THEN lh_first' = e /\ le_next' = next
                 ELSE lh_first' = lh_first /\ le_next' = [next EXCEPT ![cell] = e]

\* Fault: the old successor keeps its back link.
TLIST_INSERT_AFTER_OldBackLink(listelm, elm) ==
  /\ lh_first' = lh_first
  /\ le_next' = [le_next EXCEPT ![elm] = le_next[listelm], ![listelm] = elm]
  /\ le_prev' = [le_prev EXCEPT ![elm] = listelm]

TLIST_INSERT_AFTER(listelm, elm) ==
  LET succ == le_next[listelm] IN
  /\ lh_first' = lh_first
  /\ le_next' = [le_next EXCEPT ![elm] = succ, ![listelm] = elm]
  /\ le_prev' = [e \in Entry |-> IF e = elm THEN listelm ELSE IF e = succ THEN elm ELSE le_prev[e]]

TLIST_INSERT_BEFORE(listelm, elm) ==
  /\ Store(le_prev[listelm], elm, [le_next EXCEPT ![elm] = listelm])
  /\ le_prev' = [le_prev EXCEPT ![elm] = le_prev[listelm], ![listelm] = elm]

TLIST_INSERT_HEAD(elm) ==
  /\ lh_first' = elm
  /\ le_next' = [le_next EXCEPT ![elm] = lh_first]
  /\ le_prev' = [e \in Entry |-> IF e = elm THEN HEAD ELSE IF e = lh_first THEN elm ELSE le_prev[e]]

\* Fault: the cell that points to the entry is not redirected.
TLIST_REMOVE_NoUnlink(elm) == UNCHANGED links

TLIST_REMOVE(elm) ==
  LET succ == le_next[elm] IN
  /\ Store(le_prev[elm], succ, [le_next EXCEPT ![elm] = NULL])
  /\ le_prev' = [e \in Entry |-> IF e = elm THEN NULL ELSE IF e = succ THEN le_prev[elm] ELSE le_prev[e]]

-----------------------------------------------------------------------------
(* The functions of insnlist.c.  A caller's position is NULL or a live     *)
(* entry; the new entry is whatever the allocator returns.                 *)

Rejects(pos) == pos = NULL /\ tail # NULL

Allocated(e) ==
  /\ e \in Entry \ live
  /\ live' = live \cup {e}
  /\ insn_count' = insn_count + 1

insnlist_insert_before(pos, e) ==
  /\ pc = "build" /\ ~Rejects(pos)
  /\ Allocated(e)
  /\ IF pos = NULL THEN TLIST_INSERT_HEAD(e) /\ tail' = e
                   ELSE TLIST_INSERT_BEFORE(pos, e) /\ tail' = tail
  /\ UNCHANGED <<pc, cursor, file>>

insnlist_insert_after(pos, e) ==
  /\ pc = "build" /\ ~Rejects(pos)
  /\ Allocated(e)
  /\ IF pos = NULL THEN TLIST_INSERT_HEAD(e) /\ tail' = e
                   ELSE /\ TLIST_INSERT_AFTER(pos, e)
                        /\ tail' = IF pos = tail THEN e ELSE tail
  /\ UNCHANGED <<pc, cursor, file>>

insnlist_insert_tail(e) ==
  /\ pc = "build"
  /\ Allocated(e)
  /\ IF tail = NULL THEN TLIST_INSERT_HEAD(e) ELSE TLIST_INSERT_AFTER(tail, e)
  /\ tail' = e
  /\ UNCHANGED <<pc, cursor, file>>

\* Fault: the loop starts behind the first entry.
StartOutput_SkipsFirst ==
  /\ pc = "build"
  /\ pc' = "output" /\ cursor' = IF lh_first = NULL THEN NULL ELSE le_next[lh_first]
  /\ UNCHANGED <<links, tail, insn_count, live, file>>

\* insnlist_output: TLIST_FOREACH, one ofmt->output per entry; the caller
\* (close_output_file) then calls insnlist_clear.
StartOutput ==
  /\ pc = "build"
  /\ pc' = "output" /\ cursor' = lh_first
  /\ UNCHANGED <<links, tail, insn_count, live, file>>

OutputEntry ==
  /\ pc = "output" /\ cursor # NULL
  /\ file' = Append(file, cursor)
  /\ cursor' = le_next[cursor]
  /\ UNCHANGED <<links, tail, insn_count, live, pc>>

EndOutput ==
  /\ pc = "output" /\ cursor = NULL
  /\ pc' = "clear"
  /\ UNCHANGED <<links, tail, insn_count, live, cursor, file>>

\* insnlist_clear: remove and free the first entry until the list is empty
ClearEntry ==
  /\ pc = "clear" /\ lh_first # NULL
  /\ TLIST_REMOVE(lh_first)
  /\ live' = live \ {lh_first}
  /\ UNCHANGED <<tail, insn_count, pc, cursor, file>>

EndClear ==
  /\ pc = "clear" /\ lh_first = NULL
  /\ tail' = NULL /\ insn_count' = 0
  /\ pc' = "closed"
  /\ UNCHANGED <<links, live, cursor, file>>

Insert ==
  \E e \in Entry :
     \/ insnlist_insert_tail(e)
     \/ \E pos \in live \cup {NULL} :
           insnlist_insert_before(pos, e) \/ insnlist_insert_after(pos, e)

Next == Insert \/ StartOutput \/ OutputEntry \/ EndOutput \/ ClearEntry \/ EndClear

\* The two loops run to their end once entered: one thread, no blocking call.
Loops == OutputEntry \/ EndOutput \/ ClearEntry \/ EndClear

Spec == Init /\ [][Next]_vars /\ WF_vars(Loops)

-----------------------------------------------------------------------------
(* What the list means: the entries met by following le_next from lh_first.*)

\* the first n entries, in a heap with the given links
Followed(first, next) ==
  LET chain[n \in 0..Cardinality(Entry)] ==
        IF n = 0 THEN << >>
        ELSE LET c == chain[n - 1]
                 e == IF c = << >> THEN first ELSE next[c[Len(c)]]
             IN IF Len(c) < n - 1 \/ e = NULL THEN c ELSE Append(c, e)
  IN chain[Cardinality(Entry)]

Listed == Followed(lh_first, le_next)

TypeOK ==
  /\ lh_first \in Entry \cup {NULL}
  /\ le_next \in [Entry -> Entry \cup {NULL}]
  /\ le_prev \in [Entry -> Entry \cup {NULL, HEAD}]
  /\ tail \in Entry \cup {NULL}
  /\ insn_count \in 0..Cardinality(Entry)
  /\ live \subseteq Entry
  /\ pc \in {"build", "output", "clear", "closed"}
  /\ cursor \in Entry \cup {NULL}

\* Nothing allocated is lost: the chain from lh_first meets every live entry
\* exactly once, and the separately kept tail and count agree with it while
\* callers can insert (queue.h and insnlist.c update them in different places).
NothingLost ==
  /\ ToSet(Listed) = live
  /\ Len(Listed) = Cardinality(live)
  /\ pc = "build" =>
       /\ insn_count = Len(Listed)
       /\ tail = IF Listed = << >> THEN NULL ELSE Listed[Len(Listed)]

\* Every back link is the address of the cell that really points to the
\* entry: TLIST_INSERT_BEFORE and TLIST_REMOVE write through it.
BackLinksExact ==
  \A e \in live : IF le_prev[e] = HEAD THEN lh_first = e
                  ELSE le_prev[e] \in live /\ le_next[le_prev[e]] = e

\* The linked list implements the sequence of InsnSeq.
Abs == INSTANCE InsnSeq WITH
         seq <- Listed,
         out <- IF pc \in {"build", "output"} THEN << >> ELSE file,
         written <- pc \in {"clear", "closed"}
Implements == Abs!Spec

\* A program handed to the output format is written and its list freed.
ListFreed == (pc = "output") ~> (pc = "closed" /\ live = {})

\* The list is whole in every state: types, forward links, back links.
ListWhole == TypeOK /\ NothingLost /\ BackLinksExact
=============================================================================

------------------------------- MODULE InsnSeq -------------------------------
(***************************************************************************)
(* What the instruction list promises its users: a sequence of entries     *)
(* that grows at a chosen position, is written out once from front to back *)
(* and is then emptied.  InsnList implements it with the pointers of       *)
(* queue.h.                                                                *)
(***************************************************************************)
EXTENDS SeqPlace

CONSTANTS Entry, NULL

VARIABLES seq,       \* the entries, first to last
          out,       \* the entries handed to the output format, in order
          written    \* whether the list has been output

vars == <<seq, out, written>>

Init == seq = << >> /\ out = << >> /\ written = FALSE

\* A caller without a position can only start the list.
Refused(pos) == pos = NULL /\ seq # << >>

InsertBefore(pos, e) ==
  /\ ~written
  /\ ~Refused(pos)
  /\ seq' = PutBefore(seq, pos, e)
  /\ UNCHANGED <<out, written>>

InsertAfter(pos, e) ==
  /\ ~written
  /\ ~Refused(pos)
  /\ seq' = PutAfter(seq, pos, e)
  /\ UNCHANGED <<out, written>>

InsertTail(e) ==
  /\ ~written
  /\ seq' = Append(seq, e)
  /\ UNCHANGED <<out, written>>

Output ==
  /\ ~written
  /\ out' = seq
  /\ written' = TRUE
  /\ UNCHANGED seq

DropFirst ==
  /\ written
  /\ seq # << >>
  /\ seq' = Tail(seq)
  /\ UNCHANGED <<out, written>>

Next ==
  \/ \E e \in Entry \ ToSet(seq) :
        \/ InsertTail(e)
        \/ \E pos \in ToSet(seq) \cup {NULL} :
              InsertBefore(pos, e) \/ InsertAfter(pos, e)
  \/ Output
  \/ DropFirst

Spec == Init /\ [][Next]_vars
=============================================================================

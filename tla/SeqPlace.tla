------------------------------ MODULE SeqPlace ------------------------------
(***************************************************************************)
(* Where a new entry of the generator's instruction list goes, over plain  *)
(* sequences of entries.                                                   *)
(***************************************************************************)
EXTENDS Integers, Sequences, SequencesExt

\* The place of entry e in the list s.
PlaceOf(s, e) == CHOOSE i \in DOMAIN s : s[i] = e

\* Insertion next to an entry pos of s; an empty list has no entry to name
\* and takes e as its only entry.
PutBefore(s, pos, e) ==
  IF s = << >> THEN <<e>> ELSE InsertAt(s, PlaceOf(s, pos), e)

PutAfter(s, pos, e) ==
  IF s = << >> THEN <<e>> ELSE InsertAt(s, PlaceOf(s, pos) + 1, e)
=============================================================================

------------------------------- MODULE MCTmplt -------------------------------
(***************************************************************************)
(* Tmplt on all documents of a few tags.                                   *)
(***************************************************************************)
EXTENDS Tmplt

\* A sequence block is walked as a transfer block is.
MostKinds == {"repeat", "transfer", "traverse", "select"}
=============================================================================

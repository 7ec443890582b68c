----------------------------- MODULE MCCtrlFlow -----------------------------
(***************************************************************************)
(* CtrlFlow on small templates.  ECX has four values, so that a loop whose *)
(* counter is destroyed by its body runs a different number of times.      *)
(***************************************************************************)
EXTENDS CtrlFlow

LoopBlocks == {"loop", "loopcc", "call"}
BothJumps  == {"jmp", "jcc"}
NoOps      == {}
LoopElems  == {"loop", "call"}
=============================================================================

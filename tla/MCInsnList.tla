----------------------------- MODULE MCInsnList -----------------------------
EXTENDS InsnList

\* closed is the end of btrtg's only list; the run stops there.
=============================================================================

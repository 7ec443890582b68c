----------------------------- MODULE MCHashTbl ------------------------------
EXTENDS HashTbl

\* Two first slots of a small table that part when it grows, and steps 1 and 3.
MCHash == [lo : {1, 5}, hi : {0, 3}]
=============================================================================

----------------------------- MODULE MCTraverse -----------------------------
EXTENDS Traverse

N(name, weight) == [name |-> name, weight |-> weight]
O(packedn, nodes) == [packedn |-> packedn, nodes |-> nodes]
T(opcode, operands, opnds) == [opcode |-> opcode, operands |-> operands, opnds |-> opnds]

\* "none" is the group normal, which has half the weight in most lists of fixedpointTK.xml
MCGroups == [one |-> 1, two |-> 2, three |-> 3, five |-> 5, none |-> 0]
Lists == {<<N("two", 100), N("one", 0)>>, <<N("three", 60), N("one", 40)>>, <<N("two", 30), N("none", 0), N("three", 70)>>,
          <<N("two", 50), N("none", 50)>>, <<N("none", 100)>>,
          <<N("three", 100)>>, <<N("five", 100), N("none", 0)>>}
\* opcodes with their operands: fsqrt has none and is in no table
Insns == {<<"FADD", 0>>, <<"FADD", 1>>, <<"FADD", 2>>, <<"FSQRT", 0>>, <<"FABS", 0>>, <<"DIV", 1>>, <<"CWD", 0>>,
          <<"PADDD", 2>>, <<"CMPXCHG", 2>>}
\* one list for all operands, written and implied, or a list for each
MCTKs ==
  {T(i[1], i[2], <<O(p, l)>>) : p \in 1..2, l \in Lists, i \in Insns}
  \cup {T("PSLLD", 2, <<O(p, l), O(q, k)>>) : p \in 1..2, q \in 1..2, l \in Lists, k \in Lists}

\* the sizes of paddd (src/xmlmodel/tks/mmxTK.xml)
PadddGroups == [mmxdword |-> 10, normal |-> 0]
PadddTKs == {T("PADDD", 2, <<O(2, <<N("mmxdword", 100), N("normal", 0)>>)>>)}

\* The knowledge is as the theorems about the traversal and about drawing assume it.
ASSUME MCKnowledge == GroupsOnce /\ WeightsAddUp
=============================================================================

------------------------------ MODULE Traverse ------------------------------
(***************************************************************************)
(* Test knowledge and its use: xmlparser/parseTKs.c builds weighted trees  *)
(* of constants for the operands of an instruction; engine/wdtree.c and    *)
(* engine/tk.c draw constants from them by weight; a traverse block of     *)
(* engine/tmplt.c generates its elements once for every trv_step-th        *)
(* combination of constants.  The recursion over operands, elements of a   *)
(* packed operand and subtrees is a stack of frames.                       *)
(***************************************************************************)
EXTENDS Integers, FiniteSets, SequencesExt

CONSTANTS
  Groups,            \* groups of constants: [name -> number of constants]
  TKs,               \* instructions: opcode, operands written, TK element
  EXPECTED_TRV_NUM,
  total_weight

\* A list of groups with weights.
NodeList == Seq([name : DOMAIN Groups, weight : Nat])

ASSUME TraverseAssumption ==
  /\ EXPECTED_TRV_NUM \in Nat \ {0} /\ total_weight \in Nat \ {0}
  /\ \A g \in DOMAIN Groups : Groups[g] \in Nat
  /\ \A t \in TKs : t.operands \in Nat /\ t.opnds \in Seq([packedn : Nat \ {0}, nodes : NodeList])

VARIABLES
  tk,          \* the instruction
  tk_trees,    \* trees of its operands, as create_trv_state lists them
  pc,          \* "draw" or "start", "walk", "done"
  trv_step, trv_index,
  stack,       \* activations of preorder_traverse_tk_trees, the innermost last
  trv_nodes,   \* constants of each operand so far
  drawn,       \* drawn last without a traversal: <<operand, subtree, constant>>, 0 for none
  generated,   \* combinations generated (a count)
  used         \* <<operand, element, constant>> generated so far

vars == <<tk, tk_trees, pc, trv_step, trv_index, stack, trv_nodes, drawn, generated, used>>

\* The first n elements of a list of numbers, added and multiplied.
SumTo(f, n) == LET sum[k \in 0..n] == IF k = 0 THEN 0 ELSE sum[k - 1] + f[k] IN sum[n]
ProductTo(f, n) == LET num[k \in 0..n] == IF k = 0 THEN 1 ELSE num[k - 1] * f[k] IN num[n]

-----------------------------------------------------------------------------
(* The trees.                                                              *)

\* A group is one node, shared by all trees that name it.
Leaf(g) == [isleaf |-> TRUE, size |-> Groups[g], weights |-> << >>,
            sub |-> [i \in 1..Groups[g] |-> <<g, i>>]]

parseOpndTK(nodes) ==
  [isleaf |-> FALSE, size |-> Len(nodes), weights |-> [i \in DOMAIN nodes |-> nodes[i].weight],
   sub |-> [i \in DOMAIN nodes |-> Leaf(nodes[i].name)]]

\* Either a tree for each Node element with an opnd, or one of the Nodes themselves;
\* packedn is 1 if there is none.
parseInstTK(t) ==
  [i \in DOMAIN t.opnds |-> [packedn |-> t.opnds[i].packedn, wd_node |-> parseOpndTK(t.opnds[i].nodes)]]

\* Operands the instruction has when fewer are written in the template.
adjust_operands_num(opcode) ==
  CASE opcode \in {"FADD", "FADDP", "FIADD", "FCMOVB", "FCMOVBE", "FCMOVE", "FCMOVNB", "FCMOVNBE", "FCMOVNE",
                  "FCMOVNU", "FCMOVU", "FCOM", "FCOMP", "FCOMPP", "FCOMI", "FCOMIP", "FUCOMI", "FUCOMIP",
                  "FDIV", "FDIVP", "FIDIV", "FDIVR", "FDIVRP", "FIDIVR", "FMUL", "FMULP", "FIMUL", "FPREM",
                  "FPREM1", "FPATAN", "FSCALE", "FSUB", "FSUBP", "FISUB", "FSUBR", "FSUBRP", "FISUBR", "FYL2X",
                  "FYL2XP1", "FXCH", "FUCOM", "FUCOMP", "FUCOMPP", "FICOM", "FICOMP"} -> 2
    [] opcode \in {"FABS", "FCHS", "FCOS", "FTST", "FSIN", "FSINCOS", "FPTAN", "FRNDINT", "FXTRACT", "FILD",
                  "F2XM1"} -> 1
    [] OTHER -> -1

\* Operands that are not written at all.
get_implied_operands_num(opcode) ==
  IF opcode \in {"DIV", "IDIV", "CMPXCHG", "CBW", "CWDE", "CWD", "CDQ", "POPF", "JCXZ", "JECXZ"} THEN 1 ELSE -1

\* One tree serves all operands: those written in the template, those the
\* instruction has as well, and the implied ones.
create_trv_state(t) ==
  LET trees == parseInstTK(t)
      more(n) == IF n > 0 THEN n ELSE 0
      opi == t.operands + more(adjust_operands_num(t.opcode) - t.operands)
             + more(get_implied_operands_num(t.opcode))
  IN IF Len(trees) = 1 THEN [i \in 1..opi |-> trees[1]] ELSE trees

\* The knowledge of a list: it names each group once, and its weights add up to the
\* total.  The lists of the *TK.xml files do.
Distinct(nodes) == \A i, j \in DOMAIN nodes : nodes[i].name = nodes[j].name => i = j
GroupsOnce == \A t \in TKs : \A i \in DOMAIN t.opnds : Distinct(t.opnds[i].nodes)
WeightsAddUp ==
  \A t \in TKs : \A i \in DOMAIN t.opnds :
    SumTo(parseOpndTK(t.opnds[i].nodes).weights, Len(t.opnds[i].nodes)) = total_weight

\* The constants of the subtrees before number s.
LeavesBefore(n, s) == SumTo([i \in 1..n.size |-> n.sub[i].size], s - 1)

leaf_num(n) == LeavesBefore(n, n.size + 1)

-----------------------------------------------------------------------------
(* Drawing by weight.                                                      *)

\* Fault: the comparison includes the accumulated weight.
select_subtree_Inclusive(n, chi) ==
  IF n.weights = << >> THEN 1 + (chi % n.size)
  ELSE LET acc(i) == SumTo(n.weights, i)
           hit == {i \in 1..n.size : chi <= acc(i)}
       IN IF hit = {} THEN n.size + 1 ELSE Min(hit)

\* The subtree for a random number, one behind the last if the weights do not reach it.
select_subtree(n, chi) ==
  IF n.weights = << >> THEN 1 + (chi % n.size)
  ELSE LET acc(i) == SumTo(n.weights, i)
           hit == {i \in 1..n.size : chi < acc(i)}
       IN IF hit = {} THEN n.size + 1 ELSE Min(hit)

Chances(n) == 0..((IF n.weights = << >> THEN n.size ELSE total_weight) - 1)

\* The tree that serves operand opi.
TreeOf(opi) == LET trees == parseInstTK(tk) IN IF Len(trees) = 1 THEN trees[1] ELSE trees[opi]

\* What a draw from a node may select: none (0) if it is empty, tested before the draw.
Selections(n) == IF n.size = 0 THEN {0} ELSE {select_subtree(n, chi) : chi \in Chances(n)}

\* request_val_node, and each round of request_packed_val_node: a group and then one of
\* its constants, 0 for the NULL that an empty list or group gives.
request_val_node ==
  /\ pc = "draw"
  /\ \E opi \in 1..Len(create_trv_state(tk)) :
       LET root == TreeOf(opi).wd_node
       IN \E s \in Selections(root) :
            \E c \in IF s \in 1..root.size THEN Selections(root.sub[s]) ELSE {0} : drawn' = <<opi, s, c>>
  /\ UNCHANGED <<tk, tk_trees, pc, trv_step, trv_index, stack, trv_nodes, generated, used>>

-----------------------------------------------------------------------------
(* The traversal.                                                          *)

\* Up to 3 everything is prime.
is_prime(n) == n <= 3 \/ (n % 2 # 0 /\ \A i \in {j \in 3..n : j * j <= n /\ j % 2 # 0} : n % i # 0)

greatest_prime(limit) == Max({i \in 1..limit : is_prime(i)} \cup {0})

Step(n) == IF n \div EXPECTED_TRV_NUM > 0 THEN greatest_prime(n \div EXPECTED_TRV_NUM + 1) ELSE 1

\* Combinations of n elements of one operand, and of all elements of all operands.
OfElements(t, n) == ProductTo([j \in 1..n |-> leaf_num(t.wd_node)], n)
Combinations(trees) == ProductTo([t \in DOMAIN trees |-> OfElements(trees[t], trees[t].packedn)], Len(trees))

Frame(treei, packedi, n) == [treei |-> treei, packedi |-> packedi, node |-> n, i |-> 1]
Top == Last(stack)
\* the innermost loop goes on to its next subtree
Advanced(frames) == [frames EXCEPT ![Len(frames)].i = @ + 1]

Init ==
  /\ tk \in TKs /\ pc \in {"draw", "start"}
  /\ tk_trees = create_trv_state(tk)
  /\ trv_step = 0 /\ trv_index = 0 /\ generated = 0 /\ used = {}
  /\ stack = << >> /\ trv_nodes = << >> /\ drawn = << >>

\* A block without trees generates nothing.
walkTrvBlk ==
  /\ pc = "start"
  /\ IF tk_trees = << >> THEN pc' = "done" /\ UNCHANGED <<trv_step, stack, trv_nodes>>
     ELSE /\ pc' = "walk" /\ trv_step' = Step(Combinations(tk_trees))
          /\ trv_nodes' = << << >> >> /\ stack' = <<Frame(1, 1, tk_trees[1].wd_node)>>
  /\ UNCHANGED <<tk, tk_trees, trv_index, drawn, generated, used>>

InLoop == pc = "walk" /\ stack # << >> /\ Top.i <= Top.node.size
Tree == tk_trees[Top.treei]

IntoSubtree ==
  /\ InLoop /\ ~Top.node.isleaf
  /\ stack' = Append(stack, Frame(Top.treei, Top.packedi, Top.node.sub[Top.i]))
  /\ UNCHANGED <<tk, tk_trees, pc, trv_step, trv_index, trv_nodes, drawn, generated, used>>

AtLeaf == InLoop /\ Top.node.isleaf
WithConst == [trv_nodes EXCEPT ![Top.treei] = Append(@, Top.node.sub[Top.i])]

\* Fault: the first combinations instead of every trv_step-th.
Complete_FirstOnes ==
  /\ AtLeaf /\ Top.treei = Len(tk_trees) /\ Top.packedi = Tree.packedn
  /\ trv_index' = trv_index + 1
  /\ IF trv_index < EXPECTED_TRV_NUM
     THEN /\ generated' = generated + 1
          /\ used' = used \cup UNION {{<<t, p, WithConst[t][p]>> : p \in DOMAIN WithConst[t]} : t \in DOMAIN WithConst}
     ELSE UNCHANGED <<generated, used>>
  /\ stack' = Advanced(stack)
  /\ UNCHANGED <<tk, tk_trees, pc, trv_step, trv_nodes, drawn>>

\* The last element of the last operand: a complete combination.
Complete ==
  /\ AtLeaf /\ Top.treei = Len(tk_trees) /\ Top.packedi = Tree.packedn
  /\ trv_index' = trv_index + 1
  /\ IF trv_index % trv_step = 0
     THEN /\ generated' = generated + 1
          /\ used' = used \cup UNION {{<<t, p, WithConst[t][p]>> : p \in DOMAIN WithConst[t]} : t \in DOMAIN WithConst}
     ELSE UNCHANGED <<generated, used>>
  /\ stack' = Advanced(stack)
  /\ UNCHANGED <<tk, tk_trees, pc, trv_step, trv_nodes, drawn>>

NextOperand ==
  /\ AtLeaf /\ Top.treei # Len(tk_trees) /\ Top.packedi = Tree.packedn
  /\ trv_nodes' = Append(WithConst, << >>)
  /\ stack' = Append(stack, Frame(Top.treei + 1, 1, tk_trees[Top.treei + 1].wd_node))
  /\ UNCHANGED <<tk, tk_trees, pc, trv_step, trv_index, drawn, generated, used>>

NextElement ==
  /\ AtLeaf /\ Top.packedi # Tree.packedn
  /\ trv_nodes' = WithConst
  /\ stack' = Append(stack, Frame(Top.treei, Top.packedi + 1, Tree.wd_node))
  /\ UNCHANGED <<tk, tk_trees, pc, trv_step, trv_index, drawn, generated, used>>

\* Fault: the constant of the loop that goes on stays in the list.
Unwound_KeepsConst(nodes, f) == IF f.node.isleaf THEN SubSeq(nodes, 1, f.treei) ELSE nodes

\* A call returned to a loop over leaves removes the operand it opened, and its constant.
Unwound(nodes, f) ==
  IF f.node.isleaf THEN [SubSeq(nodes, 1, f.treei) EXCEPT ![f.treei] = RemoveAt(@, f.packedi)]
  ELSE nodes

\* The end of a loop: the caller, if there is one, goes on with its own.
Return ==
  /\ pc = "walk" /\ stack # << >> /\ Top.i > Top.node.size
  /\ LET rest == Front(stack)
     IN IF rest = << >> THEN /\ pc' = "done" /\ trv_nodes' = << >> /\ stack' = << >>
        ELSE /\ stack' = Advanced(rest)
             /\ trv_nodes' = Unwound(trv_nodes, Last(rest))
             /\ UNCHANGED pc
  /\ UNCHANGED <<tk, tk_trees, trv_step, trv_index, drawn, generated, used>>

Next == request_val_node \/ walkTrvBlk \/ IntoSubtree \/ Complete \/ NextOperand \/ NextElement \/ Return

Spec == Init /\ [][Next]_vars

-----------------------------------------------------------------------------
(* Properties.                                                             *)

\* Types: positions stay inside the trees and the lists they index.
TypeOK ==
  /\ tk \in TKs /\ pc \in {"draw", "start", "walk", "done"} /\ generated \in Nat
  /\ trv_index <= Combinations(tk_trees)
  /\ \A j \in DOMAIN stack : stack[j].treei \in DOMAIN tk_trees /\ stack[j].i \in 1..(stack[j].node.size + 1)
  /\ pc = "walk" => Len(trv_nodes) = Top.treei

\* Constants are removed again by position and operands by number, on the way back
\* from calls that added their own: when a combination is complete each operand has
\* one constant for each of its elements.
OneConstantPerElement ==
  pc = "walk" => /\ \A t \in 1..(Top.treei - 1) : Len(trv_nodes[t]) = tk_trees[t].packedn
                 /\ Len(trv_nodes[Top.treei]) = Top.packedi - 1

\* The number of a constant in the order of the tree.
Number(tree, c) ==
  LET before == tree.wd_node.sub
      s == CHOOSE j \in DOMAIN before : c \in ToSet(before[j].sub)
  IN LeavesBefore(tree.wd_node, s) + c[2] - 1

\* Combinations of the elements behind element p of operand t.
Behind(trees, t, p) ==
  OfElements(trees[t], trees[t].packedn - p) * Combinations(SubSeq(trees, t + 1, Len(trees)))

\* The number of a combination: each constant counts the combinations behind it.
OfOperand(trees, t, consts) ==
  SumTo([p \in DOMAIN consts |-> Number(trees[t], consts[p]) * Behind(trees, t, p)], Len(consts))
Rank(trees, nodes) == SumTo([t \in DOMAIN nodes |-> OfOperand(trees, t, nodes[t])], Len(nodes))

\* The combinations come in order, each once: the one that is complete has the number
\* trv_index counts, so the generated ones are exactly every trv_step-th of all.
CountsCombinations == AtLeaf /\ Top.treei = Len(tk_trees) /\ Top.packedi = Tree.packedn
                        => Rank(tk_trees, WithConst) = trv_index

\* At the end all combinations were seen.
AllSeen == pc = "done" /\ tk_trees # << >> => trv_index = Combinations(tk_trees)

\* No more than twice the number wanted are generated.
SamplesTheNumber == generated <= 2 * EXPECTED_TRV_NUM

EveryConst == UNION {{<<t, p, c>> : p \in 1..tk_trees[t].packedn, c \in UNION {ToSet(s.sub) : s \in ToSet(tk_trees[t].wd_node.sub)}}
                     : t \in DOMAIN tk_trees}

\* Sampling leaves no constant out, as long as the step is less than each number of
\* constants and divides none of them: that is what a prime is chosen for.  One element
\* alone is not sampled this way: its combinations are its constants.  A list that has
\* empty groups only leaves no combination for the other operands either.
SamplesEveryValue ==
  (pc = "done" /\ Combinations(tk_trees) # 0
               /\ \/ trv_step = 1
                  \/ /\ Len(tk_trees) # 1 \/ tk_trees[1].packedn > 1
                     /\ \A t \in ToSet(tk_trees) : LET n == leaf_num(t.wd_node)
                                                 IN trv_step < n /\ n % trv_step # 0)
    => used = EveryConst

\* "Traverse the various cases of the operand types of an instruction" (the manual): each
\* constant of the knowledge is met in each place.
TraversesEveryValue == pc = "done" => used = EveryConst

Chance(n, i) == Cardinality({chi \in Chances(n) : select_subtree(n, chi) = i})
GivesNull(n, chi) == n.sub[select_subtree(n, chi)].size = 0
WeightOfEmpty(n) == SumTo([i \in 1..n.size |-> IF n.sub[i].size = 0 THEN n.weights[i] ELSE 0], n.size)

\* A group is drawn as often as it has weight, each of its constants as often as any
\* other, and no constant as often as the empty groups have weight.
DrawsByWeight ==
  pc = "draw" => \A t \in ToSet(tk_trees) :
    LET n == t.wd_node
    IN /\ \A i \in 1..(n.size + 1) : Chance(n, i) = IF i <= n.size THEN n.weights[i] ELSE 0
       /\ \A i \in 1..n.size : \A c \in 1..n.sub[i].size : Chance(n.sub[i], c) = 1
       /\ Cardinality({chi \in Chances(n) : GivesNull(n, chi)}) = WeightOfEmpty(n)

\* The group drawn is one that has a weight, and gives one of its constants; NULL
\* comes only from a group that is empty.
DrawsAConstant ==
  drawn # << >> => LET n == TreeOf(drawn[1]).wd_node
                       g == n.sub[drawn[2]]
                   IN /\ drawn[2] \in 1..n.size /\ n.weights[drawn[2]] > 0
                      /\ IF g.size = 0 THEN drawn[3] = 0 ELSE drawn[3] \in 1..g.size

\* The traversal counts through all combinations, on lists that are complete.
InOrder == TypeOK /\ OneConstantPerElement /\ CountsCombinations /\ AllSeen

\* Sampling generates about the number wanted and leaves no constant out.
SamplesFairly == SamplesTheNumber /\ SamplesEveryValue

\* Without a traversal constants are drawn by the weights of the knowledge, and NULL,
\* which stands for a random value and which init_fpu_register_opnd and others do not
\* test for, with the weight of its empty groups: never from a list without such weight.
DrawsFairly == DrawsByWeight /\ DrawsAConstant
=============================================================================

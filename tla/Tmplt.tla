-------------------------------- MODULE Tmplt --------------------------------
(***************************************************************************)
(* Templates: how xmlparser/parseTmplt.c builds the tree of blocks, and    *)
(* how engine/tmplt.c walks it.  The template is any document up to the    *)
(* bounds: each action of the parser is one tag of it.  Values drawn for   *)
(* variables are numbered, so that two draws are never the same.           *)
(*                                                                         *)
(* What a transfer block does to the control flow is in CtrlFlow; here it  *)
(* is a block whose children are walked once.                              *)
(***************************************************************************)
EXTENDS Integers, Sequences, SequencesExt, FiniteSets

CONSTANTS
  Names,          \* names of variables
  Kinds,          \* tags of blocks that templates use
  Times,          \* times attributes of repeat
  Combos,         \* number of rounds of a traverse block
  Liberties,      \* what templates do that those of the repository never do:
                  \* "shadow" a name, "check" or use a name that is not in scope,
                  \* place "trv" elements freely, leave a traverse "bare" of them,
                  \* put an "I" in a select
  NoName,
  MaxBlocks,      \* bound on the blocks of a document,
  MaxUntidy,      \* of one that takes liberties,
  MaxVars         \* and on its variables

ASSUME TmpltAssumption ==
  /\ Kinds \subseteq {"sequence", "repeat", "transfer", "traverse", "select"}
  /\ Times \subseteq Nat /\ Combos \in Nat
  /\ Liberties \subseteq {"shadow", "check", "trv", "bare", "I"}
  /\ NoName \notin Names
  /\ MaxBlocks \in Nat \ {0} /\ MaxUntidy \in Nat /\ MaxVars \in Nat

NULL == 0                    \* no block, no traversal state
Undeclared == -1             \* a name the block has no variable for
Invalid == 0                 \* a variable with no value (valid = false)

VARIABLES
  phase,      \* "parse", "walk", or how that ended: "done", "crash",
              \* or one of the fatal errors "undefined" and "unset"
  blks,       \* the blk_structs (elements too), in the order of their tags
  open,       \* parser: the block whose children are parsed
  trv_state,  \* parser: its static variable; a state is named by its element
  stack,      \* walk: the active walk functions, innermost last
  curr_blk,   \* X86PGState.curr_blk
  drawn,      \* number of values drawn
  round,      \* history: how many rounds of each block have begun
  log         \* history: the elements generated, with the variable they used

vars == <<phase, blks, open, trv_state, stack, curr_blk, drawn, round, log>>
parser == <<open, trv_state>>
walker == <<stack, curr_blk, drawn, round, log>>

Elements == {"I", "C"}
Root == 1

-----------------------------------------------------------------------------
(* The parser.                                                             *)

Init ==
  /\ phase = "parse"
  /\ blks = <<[kind |-> "sequence", times |-> 1, parent |-> NULL, subs |-> << >>,
               vars |-> [n \in Names |-> Undeclared], use |-> NoName, state |-> NULL]>>
  /\ open = Root /\ trv_state = NULL
  /\ stack = << >> /\ curr_blk = NULL /\ drawn = 0
  /\ round = [b \in 1..MaxBlocks |-> 0]
  /\ log = << >>

New == Len(blks) + 1

\* a new block, appended to the children of the open one
WithBlk(kind, times, use, state) ==
  Append([blks EXCEPT ![open].subs = Append(@, New)],
         [kind |-> kind, times |-> times, parent |-> open, subs |-> << >>,
          vars |-> [n \in Names |-> Undeclared], use |-> use, state |-> state])

Parent == [b \in DOMAIN blks |-> blks[b].parent]

\* the innermost of the blocks S that are around blk, or blk itself; NULL if none is
Innermost(parent, blk, S) ==
  LET found[b \in {NULL} \cup DOMAIN parent] ==
        IF b = NULL \/ b \in S THEN b ELSE found[parent[b]]
  IN found[blk]

\* the block whose variable the name means, seen from blk
Declaring(name) == {b \in DOMAIN blks : blks[b].vars[name] # Undeclared}
blk_search_var(blk, name) == Innermost(Parent, blk, Declaring(name))

\* the blocks around blk, and blk itself
Around(blk) == {b \in DOMAIN blks : Innermost(Parent, blk, {b}) = b}

\* the traverse block around blk, and the trv elements a traverse block holds
Traversing(blk) == Innermost(Parent, blk, {b \in DOMAIN blks : blks[b].kind = "traverse"})
TrvElems(t) == {b \in DOMAIN blks : /\ blks[b].kind = "I" /\ blks[b].state # NULL
                                    /\ Traversing(b) = t}

Parsing == phase = "parse"

\* What the templates of the repository keep to: no name is declared again
\* further inside, names are in scope, and each traverse block has one trv
\* element of its own (once it is closed), with none elsewhere.
NoShadow == \A b \in DOMAIN blks, n \in Names : Cardinality(Around(b) \cap Declaring(n)) <= 1
InScope(b) == blks[b].use # NoName => blk_search_var(blks[b].parent, blks[b].use) # NULL
OwnTraversal(b) ==
  /\ blks[b].kind = "traverse" => /\ Traversing(blks[b].parent) = NULL
                                  /\ Cardinality(TrvElems(b)) <= 1
                                  /\ b \notin Around(open) => TrvElems(b) # {}
  /\ blks[b].kind = "I" /\ blks[b].state # NULL => Traversing(b) # NULL
Tidy == NoShadow /\ \A b \in DOMAIN blks : InScope(b) /\ OwnTraversal(b)

Bound == Len(blks) > MaxUntidy => Tidy
Room == Parsing /\ Len(blks) < MaxBlocks

parseV(name) ==
  /\ Parsing
  /\ Cardinality(UNION {Declaring(n) : n \in Names}) < MaxVars
  /\ blks[open].vars[name] = Undeclared
  /\ "shadow" \notin Liberties => \A b \in Declaring(name) : b \notin Around(open) /\ open \notin Around(b)
  /\ blks' = [blks EXCEPT ![open].vars[name] = Invalid]
  /\ UNCHANGED <<phase, parser, walker>>

Usable(name) == name # NoName /\ "check" \notin Liberties => blk_search_var(open, name) # NULL

\* parseI without trv, or parseG
parseI(name) ==
  /\ Room
  /\ Usable(name)
  /\ blks' = WithBlk("I", 1, name, NULL)
  /\ UNCHANGED <<phase, parser, walker>>

\* Fault: the element does not leave its state for the block that traverses.
parseI_trv_NoHandOver(name) ==
  /\ Room
  /\ Usable(name)
  /\ "trv" \notin Liberties => Traversing(open) # NULL /\ TrvElems(Traversing(open)) = {}
  /\ blks' = WithBlk("I", 1, name, New)
  /\ UNCHANGED <<phase, parser, walker>>

parseI_trv(name) ==
  /\ Room
  /\ Usable(name)
  /\ "trv" \notin Liberties => Traversing(open) # NULL /\ TrvElems(Traversing(open)) = {}
  /\ trv_state' = New
  /\ blks' = WithBlk("I", 1, name, New)
  /\ UNCHANGED <<phase, open, walker>>

parseC(name) ==
  /\ Room
  /\ Usable(name)
  /\ blks' = WithBlk("C", 1, name, NULL)
  /\ UNCHANGED <<phase, parser, walker>>

\* A select looks its children up among the instruction groups; an I element,
\* which is no group, is not found and the NULL found is dereferenced.
parseSelBlk(child) ==
  /\ Room
  /\ "select" \in Kinds
  /\ child = "I" => "I" \in Liberties
  /\ phase' = IF child = "G" THEN phase ELSE "crash"
  /\ blks' = WithBlk("select", 1, NoName, NULL)
  /\ UNCHANGED <<parser, walker>>

\* parseSeqBlk, parseRptBlk, parseTttBlk, parseTrvBlk up to their children ...
OpenBlk(kind, times) ==
  /\ Room
  /\ kind = "traverse" /\ "trv" \notin Liberties => Traversing(open) = NULL
  /\ blks' = WithBlk(kind, times, NoName, NULL)
  /\ open' = New
  /\ UNCHANGED <<phase, trv_state, walker>>

\* ... and behind them: a traverse block takes the state the parser is left with
CloseBlk ==
  /\ Parsing
  /\ open # Root
  /\ IF blks[open].kind = "traverse"
     THEN /\ TrvElems(open) = {} => Liberties \cap {"bare", "trv"} # {}
          /\ blks' = [blks EXCEPT ![open].state = trv_state]
          /\ trv_state' = NULL
     ELSE UNCHANGED <<blks, trv_state>>
  /\ open' = blks[open].parent
  /\ UNCHANGED <<phase, walker>>

Parse ==
  \/ \E n \in Names : parseV(n)
  \/ \E n \in Names \cup {NoName} : parseI(n) \/ parseI_trv(n) \/ parseC(n)
  \/ \E child \in {"G", "I"} : parseSelBlk(child)
  \/ \E kind \in Kinds \ {"select", "repeat"} : OpenBlk(kind, 1)
  \/ "repeat" \in Kinds /\ \E times \in Times : OpenBlk("repeat", times)
  \/ CloseBlk

-----------------------------------------------------------------------------
(* The walk.                                                               *)

blk_invalid_var_all(bs, blk) ==
  [bs EXCEPT ![blk].vars = [n \in Names |-> IF @[n] = Undeclared THEN @[n] ELSE Invalid]]

Rounds(b) == IF blks[b].kind = "repeat" THEN blks[b].times
             ELSE IF blks[b].kind = "traverse" THEN Combos ELSE 1

Top == stack[Len(stack)]
Walking == phase = "walk" /\ stack # << >>
HasChild == Walking /\ Top.i <= Len(blks[Top.blk].subs)
Child == blks[Top.blk].subs[Top.i]
Advanced == Append(Front(stack), [blk |-> Top.blk, i |-> Top.i + 1, left |-> Top.left])

\* Fault: the loop runs while k <= times.
Enter_OneMore(b, below) ==
  /\ curr_blk' = b
  /\ blks' = blk_invalid_var_all(blks, b)
  /\ round' = [round EXCEPT ![b] = @ + 1]
  /\ stack' = Append(below, [blk |-> b, i |-> 1,
                            left |-> IF blks[b].kind = "repeat" THEN Rounds(b) ELSE Rounds(b) - 1])

\* Fault: a nested block does not become the current one.
Enter_KeepsCurrBlk(b, below) ==
  /\ curr_blk' = Root
  /\ IF Rounds(b) = 0
     THEN stack' = below /\ UNCHANGED <<blks, round>>
     ELSE /\ blks' = blk_invalid_var_all(blks, b)
          /\ round' = [round EXCEPT ![b] = @ + 1]
          /\ stack' = Append(below, [blk |-> b, i |-> 1, left |-> Rounds(b) - 1])

\* walkSeqBlk, walkTttBlk, walkRptBlk or walkTrvBlk begins
Enter(b, below) ==
  /\ curr_blk' = b
  /\ IF Rounds(b) = 0
     THEN stack' = below /\ UNCHANGED <<blks, round>>
     ELSE /\ blks' = blk_invalid_var_all(blks, b)
          /\ round' = [round EXCEPT ![b] = @ + 1]
          /\ stack' = Append(below, [blk |-> b, i |-> 1, left |-> Rounds(b) - 1])

\* main: parse_tmplts_file has returned, walk_tmplt begins
walk_tmplt ==
  /\ Parsing
  /\ open = Root
  /\ phase' = "walk"
  /\ Enter(Root, << >>)
  /\ UNCHANGED <<parser, drawn, log>>

WalkBlk ==
  /\ HasChild
  /\ blks[Child].kind \notin Elements \cup {"select"}
  /\ IF blks[Child].kind = "traverse" /\ blks[Child].state = NULL
     THEN phase' = "crash" /\ UNCHANGED <<blks, walker>>
     ELSE Enter(Child, Advanced) /\ UNCHANGED <<phase, drawn, log>>
  /\ UNCHANGED parser

\* Fault: the variables keep the values of the first round.
NextRound_KeepsValues ==
  /\ Walking /\ ~HasChild /\ Top.left > 0
  /\ round' = [round EXCEPT ![Top.blk] = @ + 1]
  /\ stack' = Append(Front(stack), [blk |-> Top.blk, i |-> 1, left |-> Top.left - 1])
  /\ UNCHANGED <<phase, blks, parser, curr_blk, drawn, log>>

\* the next round of a repeat or traverse block; curr_blk stays as it is
NextRound ==
  /\ Walking /\ ~HasChild /\ Top.left > 0
  /\ blks' = blk_invalid_var_all(blks, Top.blk)
  /\ round' = [round EXCEPT ![Top.blk] = @ + 1]
  /\ stack' = Append(Front(stack), [blk |-> Top.blk, i |-> 1, left |-> Top.left - 1])
  /\ UNCHANGED <<phase, parser, curr_blk, drawn, log>>

\* Fault: a block is left behind its last child only, and an empty one never.
Return_BehindChild ==
  /\ Walking /\ ~HasChild /\ Top.left = 0 /\ Top.i > 1
  /\ stack' = Front(stack)
  /\ phase' = IF Len(stack) = 1 THEN "done" ELSE phase
  /\ UNCHANGED <<blks, parser, curr_blk, drawn, round, log>>

\* a walk function returns; so does walk_tmplt, when it was the root's
Return ==
  /\ Walking /\ ~HasChild /\ Top.left = 0
  /\ stack' = Front(stack)
  /\ phase' = IF Len(stack) = 1 THEN "done" ELSE phase
  /\ UNCHANGED <<blks, parser, curr_blk, drawn, round, log>>

Entry(elem, blk, val) ==
  [elem |-> elem, blk |-> blk, val |-> val, round |-> IF blk = NULL THEN 0 ELSE round[blk]]
Log(entry) == log' = Append(log, entry)

walkSelBlk ==
  /\ HasChild
  /\ blks[Child].kind = "select"
  /\ curr_blk' = Child
  /\ stack' = Advanced
  /\ Log(Entry(Child, NULL, 0))
  /\ UNCHANGED <<phase, blks, parser, drawn, round>>

\* While a traverse block is in a round, its state has a value node for each
\* operand of the element it came from; any other state has none.
HasNodes(state) == \E f \in DOMAIN stack : blks[stack[f].blk].state = state

Stop(how) == phase' = how /\ UNCHANGED <<blks, parser, walker>>

\* gen_operand_pseudo_code: a variable without a value gets one
walkIElem ==
  /\ HasChild
  /\ blks[Child].kind = "I"
  /\ LET e    == blks[Child]
         blk  == IF e.use = NoName THEN NULL ELSE blk_search_var(curr_blk, e.use)
         new  == blks[blk].vars[e.use] = Invalid
         val  == IF new THEN drawn + 1 ELSE blks[blk].vars[e.use]
         lacking == e.state # NULL /\ ~HasNodes(e.state)
     IN \/ lacking /\ Stop("crash")
        \/ ~lacking /\ e.use # NoName /\ blk = NULL /\ Stop("undefined")   \* "var: %s not defined"
        \/ /\ ~lacking /\ e.use = NoName
           /\ stack' = Advanced
           /\ Log(Entry(Child, NULL, 0))
           /\ UNCHANGED <<phase, blks, parser, curr_blk, drawn, round>>
        \/ /\ ~lacking /\ e.use # NoName /\ blk # NULL
           /\ stack' = Advanced
           /\ blks' = [blks EXCEPT ![blk].vars[e.use] = val]
           /\ drawn' = IF new THEN drawn + 1 ELSE drawn
           /\ Log(Entry(Child, blk, val))
           /\ UNCHANGED <<phase, parser, curr_blk, round>>

\* a check of a register, or of the register a variable stands for; a name
\* that is found nowhere is dereferenced
walkCElem ==
  /\ HasChild
  /\ blks[Child].kind = "C"
  /\ LET name == blks[Child].use
         blk  == IF name = NoName THEN NULL ELSE blk_search_var(curr_blk, name)
         val  == IF blk = NULL THEN 0 ELSE blks[blk].vars[name]
     IN \/ name # NoName /\ blk = NULL /\ Stop("crash")
        \/ blk # NULL /\ val = Invalid /\ Stop("unset")   \* "has not been initialized"
        \/ /\ name = NoName \/ val > 0
           /\ stack' = Advanced
           /\ Log(Entry(Child, blk, val))
           /\ UNCHANGED <<phase, blks, parser, curr_blk, drawn, round>>

Walk == WalkBlk \/ NextRound \/ Return \/ walkSelBlk \/ walkIElem \/ walkCElem

Next == (Parse /\ Bound') \/ walk_tmplt \/ Walk

\* The walk is a plain recursive call: it goes on until it returns.
Spec == Init /\ [][Next]_vars /\ WF_vars(Walk)

-----------------------------------------------------------------------------
(* Properties.                                                             *)

Blks == [kind : Elements \cup {"sequence", "repeat", "transfer", "traverse", "select"},
         times : Nat, parent : Nat, subs : Seq(Nat), vars : [Names -> Int],
         use : Names \cup {NoName}, state : Nat]

\* Types, with every pointer into the tree: parents come before their
\* children, the active functions are nested as the blocks are, and a
\* variable's value is one that has been drawn.
TypeOK ==
  /\ phase \in {"parse", "walk", "done", "undefined", "unset", "crash"}
  /\ blks \in Seq(Blks)
  /\ \A b \in DOMAIN blks : /\ blks[b].parent \in 0..(b - 1)
                            /\ blks[b].state \in 0..Len(blks)
                            /\ \A n \in Names : blks[b].vars[n] \in Undeclared..drawn
                            /\ \A c \in DOMAIN blks[b].subs : blks[b].subs[c] \in DOMAIN blks
  /\ open \in DOMAIN blks /\ trv_state \in 0..Len(blks)
  /\ curr_blk \in 0..Len(blks)
  /\ \A f \in DOMAIN stack :
       /\ blks[stack[f].blk].parent = IF f = 1 THEN NULL ELSE stack[f - 1].blk
       /\ stack[f].left \in 0..(Rounds(stack[f].blk) - 1)
       /\ stack[f].i \in 1..(Len(blks[stack[f].blk].subs) + 1)

\* The tree, unrolled: what a template means, read off the block structure.
Unrolled ==
  LET of[b \in DOMAIN blks] ==
        IF blks[b].kind \in Elements \cup {"select"} THEN <<b>>
        ELSE LET once == FlattenSeq([i \in DOMAIN blks[b].subs |-> of[blks[b].subs[i]]])
             IN FlattenSeq([k \in 1..Rounds(b) |-> once])
  IN of[Root]

\* The walk generates the elements of the tree in document order, those of a
\* repeat or traverse block once per round, and all of them if it returns.
GeneratesUnrolled ==
  LET elems == [k \in DOMAIN log |-> log[k].elem]
  IN /\ phase # "parse" => IsPrefix(elems, Unrolled)
     /\ phase = "done" => elems = Unrolled

\* An element uses the variable of the innermost block around it that has one
\* of that name ("a variable under a basic block"), although curr_blk is the
\* block entered last and is not restored when a nested block ends; and a name
\* is reported as undefined only if no block around the element has it.  A
\* name that is declared again further inside is found there (see the README),
\* and so may be one that no block around the element declares.
LexicalScope ==
  /\ \A k \in DOMAIN log :
       LET e == blks[log[k].elem]
           declared == blk_search_var(e.parent, e.use)
       IN NoShadow /\ e.use # NoName => declared = NULL \/ log[k].blk = declared
  /\ phase = "undefined" => blk_search_var(blks[Child].parent, blks[Child].use) = NULL

\* A variable has one value per round of its block: the operands that name it
\* agree within a round, and no value lives on into the next one.
OneValuePerRound ==
  \A j, k \in DOMAIN log :
    /\ log[j].blk # NULL /\ log[j].blk = log[k].blk
    /\ blks[log[j].elem].use = blks[log[k].elem].use
    => (log[j].val = log[k].val <=> log[j].round = log[k].round)

\* A checked register was given its value by an element of the same round, or
\* of a round around it: walkCElem draws nothing.
ChecksDrawnValues ==
  \A k \in DOMAIN log : blks[log[k].elem].kind = "C" /\ log[k].blk # NULL =>
    \E j \in 1..(k - 1) : /\ blks[log[j].elem].kind = "I"
                          /\ log[j].blk = log[k].blk /\ log[j].val = log[k].val
                          /\ log[j].round = log[k].round

\* A traverse block gets the state of the trv element it holds, through the
\* parser's static variable, and the element finds its value nodes there; a
\* check finds its variable.  The walk crashes on no template that keeps to
\* that (the parser does on an I element in a select).
NoCrash ==
  phase = "crash" /\ stack # << >> =>
    \E b \in DOMAIN blks : ~OwnTraversal(b) \/ (blks[b].kind = "C" /\ ~InScope(b))

\* The walk of every template ends.
WalkEnds == (phase = "walk") ~> (phase \in {"done", "undefined", "unset", "crash"})

\* The walk follows the tree the parser built, and no pointer leaves it.
WalksTheTree == TypeOK /\ GeneratesUnrolled

\* Operands and checks of one round of a variable's block share its one value.
VariableValues == OneValuePerRound /\ ChecksDrawnValues
=============================================================================

------------------------------ MODULE CtrlFlow ------------------------------
(***************************************************************************)
(* The core of the generator: engine/ctrl.c on the state of stat/x86pg.c,  *)
(* driven by walkTttBlk (engine/tmplt.c) and one_insn_gen                  *)
(* (engine/generator.c), and the program it emits, executed.               *)
(*                                                                         *)
(* Code is not emitted in the order it will run: a jump moves the insert   *)
(* position next to a label chosen at random among all earlier ones, and a *)
(* transfer block lays out jumps and labels around a body that is written  *)
(* later.  The generated program must nevertheless execute the generated   *)
(* instructions in the order they were generated, whatever the flags are.  *)
(*                                                                         *)
(* A definition with a suffix (gen_label_StalePosition) is the definition  *)
(* below it with a plausible mistake, kept to see the properties fail.     *)
(***************************************************************************)
EXTENDS Integers, Sequences, FiniteSets, SeqPlace

CONSTANTS
  TransferTypes,  \* opcodes templates give a transfer block
  JumpElems,      \* control-transfer opcodes templates give an instruction element
  RawPlaces,      \* places where templates put a jump element that ctrl.c does not
                  \* rewrite: "fresh" (no label yet), "block" (inside a transfer block)
  NamesCX,        \* whether an instruction of a loop body names ECX itself: the cl of a
                  \* shift, a literal operand, a variable bound before the block
  Times,          \* values of a transfer block's times attribute
  CXSize,         \* number of values of ECX (2^32 in the code)
  MaxWork, MaxTransfer, MaxLikely   \* bounds on the generated program (a transfer
                  \* block counts twice)

Jumps  == {"jmp", "jcc"}              \* I_JMP and the opcodes of is_jcc
Loops  == {"loop", "loopcc"}          \* I_LOOP; I_LOOPE/NE/Z/NZ
Transfers == Jumps \cup Loops \cup {"call"}

ASSUME ConstantsAssumption ==
  /\ TransferTypes \subseteq Transfers /\ JumpElems \subseteq Transfers
  /\ RawPlaces \subseteq {"fresh", "block"} /\ NamesCX \in BOOLEAN
  /\ CXSize \in Nat \ {0} /\ Times \subseteq 1..(CXSize - 1)
  /\ MaxWork \in Nat /\ MaxTransfer \in Nat /\ MaxLikely \in Nat

NoEntry == 0       \* the NULL list position
Wild    == -1      \* a position read from outside labelspos
NoLabel == -1      \* what ctrl.c returns when it generates no transfer

\* Instructions by what executing them does; arg is a label, a count or the
\* serial number of the generated instruction.  "raw" is a jump instruction
\* emitted as an ordinary instruction, its target not a label.
Ops == {"work", "workcx", "check", "label", "movecx", "ret", "raw"} \cup Transfers
Insn(op, arg) == [op |-> op, arg |-> arg]

VARIABLES
  pg,         \* X86PGState: instructions, list, insert position, labels, locks
  next_label, \* walkTttBlk's local, or NoBlock outside a transfer block
  phase,      \* "gen": walking the template; "run": executing it; "rejected",
              \* "halt", "crash": how that ended
  cpu,        \* the test program's machine: ip, ecx, return stack
  used,       \* how much of the bounds is used
  blocks,     \* history: the transfer blocks begun, with their times
  home,       \* history: serial number -> its transfer block (0: none)
  trace       \* history: serial numbers in the order they are executed

NoBlock == -2
vars == <<pg, next_label, phase, cpu, used, blocks, home, trace>>
history == <<blocks, home>>

-----------------------------------------------------------------------------
(* stat/x86pg.c: the list grows at insertpos, which moves to the new entry. *)

\* Fault: an insertion before an entry leaves no position.
stat_insert_insn_LosesPosition(p, insn, pos) ==
  LET id   == Len(p.code) + 1
      list == IF pos = "before" THEN PutBefore(p.list, p.insertpos, id)
                                ELSE PutAfter(p.list, p.insertpos, id)
  IN IF p.insertpos = NoEntry /\ p.list # << >>
     THEN [p EXCEPT !.code = Append(@, insn)]
     ELSE [p EXCEPT !.code = Append(@, insn), !.list = list,
                    !.insertpos = IF pos = "before" THEN NoEntry ELSE id]

stat_insert_insn(p, insn, pos) ==
  LET id   == Len(p.code) + 1
      list == CASE pos = "after"  -> PutAfter(p.list, p.insertpos, id)
                [] pos = "before" -> PutBefore(p.list, p.insertpos, id)
                [] pos = "tail"   -> Append(p.list, id)
  IN IF pos # "tail" /\ p.insertpos = NoEntry /\ p.list # << >>
     THEN [p EXCEPT !.code = Append(@, insn), !.insertpos = NoEntry]  \* refused: NULL
     ELSE [p EXCEPT !.code = Append(@, insn), !.list = list, !.insertpos = id]

\* labelspos[label] of the C array
LabelPos(p, label) == p.labelspos[label + 1]

update_insert_pos_to_label(p, label) ==
  [p EXCEPT !.insertpos = IF label \in 0..(p.labeli - 1) THEN LabelPos(p, label)
                                                         ELSE Wild]

(* engine/ctrl.c *)

\* Fault: labelspos is not grown for the new label.
gen_label_ArrayTooShort(p, pos) ==
  IF p.lock_ctrl THEN p
  ELSE [stat_insert_insn(p, Insn("label", p.labeli), pos) EXCEPT !.labeli = @ + 1]

\* Fault: the insert position is read before the insertion moves it.
gen_label_StalePosition(p, pos) ==
  IF p.lock_ctrl THEN p
  ELSE [stat_insert_insn(p, Insn("label", p.labeli), pos)
          EXCEPT !.labeli = @ + 1, !.labelspos = Append(@, p.insertpos)]

gen_label(p, pos) ==
  IF p.lock_ctrl THEN p
  ELSE LET q == stat_insert_insn(p, Insn("label", p.labeli), pos)
       IN [q EXCEPT !.labeli = @ + 1, !.labelspos = Append(@, q.insertpos)]

\* select_one_label: any label so far, or -1 when there is none
Selectable(p) == IF p.labeli = 0 THEN {NoLabel} ELSE 0..(p.labeli - 1)

\* Fault: the code before the label is not sent around the moved code.
gen_jmp_to_label_NoJmp(p, label) ==
  gen_label(update_insert_pos_to_label(p, label), "before")

\* Fault: the jmp goes behind the label it jumps to.
gen_jmp_to_label_JmpAfter(p, label) ==
  LET q == stat_insert_insn(update_insert_pos_to_label(p, label),
                            Insn("jmp", label), "after")
  IN gen_label(q, "after")

gen_jmp_to_label(p, label) ==
  LET q == stat_insert_insn(update_insert_pos_to_label(p, label),
                            Insn("jmp", label), "before")
  IN gen_label(q, "after")

\* jmp and jcc: code that follows is moved to the selected label
Divert(p, op, label) ==
  LET a == stat_insert_insn(p, Insn(op, p.labeli), "after")
      b == IF op = "jmp" THEN a ELSE stat_insert_insn(a, Insn("jmp", p.labeli), "after")
  IN IF label = NoLabel THEN gen_label(b, "before") ELSE gen_jmp_to_label(b, label)

\* Fault: the counter register is not locked while the body is generated.
OpenLoop_CounterUnlocked(p, op, times) ==
  LET a == gen_label(p, "after")
      b == stat_insert_insn(a, Insn(op, a.labeli), "before")
      c == stat_insert_insn(b, Insn("movecx", times), "before")
  IN [gen_label(c, "after") EXCEPT !.lock_ctrl = TRUE]

\* mov ecx,times; label(l+1): <body> loop label(l+1); label(l):
OpenLoop(p, op, times) ==
  LET a == gen_label(p, "after")
      b == stat_insert_insn(a, Insn(op, a.labeli), "before")
      c == stat_insert_insn(b, Insn("movecx", times), "before")
      d == gen_label(c, "after")
  IN [d EXCEPT !.lock_ctrl = TRUE, !.lock_cx = "loop"]

\* Fault: the code before the block falls into its body.
OpenCall_NoJmpAround(p) ==
  LET b == gen_label(p, "after")
      c == stat_insert_insn(b, Insn("ret", 0), "after")
      d == gen_label(c, "after")
      e == stat_insert_insn(d, Insn("call", p.labeli), "after")
      f == gen_label(e, "after")
  IN [update_insert_pos_to_label(f, p.labeli) EXCEPT !.lock_ctrl = TRUE]

\* jmp label(l+1); label(l): <body> ret; label(l+1): call label(l); label(l+2):
OpenCall(p) ==
  LET a == stat_insert_insn(p, Insn("jmp", p.labeli + 1), "after")
      b == gen_label(a, "after")
      c == stat_insert_insn(b, Insn("ret", 0), "after")
      d == gen_label(c, "after")
      e == stat_insert_insn(d, Insn("call", p.labeli), "after")
      f == gen_label(e, "after")
  IN [update_insert_pos_to_label(f, p.labeli) EXCEPT !.lock_ctrl = TRUE]

\* gen_control_transfer_insn: the new state, given the label it selects ...
gen_control_transfer_insn(p, op, times, label) ==
  CASE p.lock_ctrl             -> p
    [] ~p.lock_ctrl /\ op \in Jumps  -> Divert(p, op, label)
    [] ~p.lock_ctrl /\ op \in Loops  -> OpenLoop(p, op, times)
    [] ~p.lock_ctrl /\ op = "call"   -> OpenCall(p)

\* Fault: every block returns the label a call block ends at.
ReturnedLabel_CallOnly(p, op, label) ==
  CASE p.lock_ctrl -> NoLabel
    [] ~p.lock_ctrl /\ op \in Jumps -> label
    [] ~p.lock_ctrl /\ op \notin Jumps -> p.labeli + 2

\* ... and the label it returns
ReturnedLabel(p, op, label) ==
  CASE p.lock_ctrl             -> NoLabel
    [] ~p.lock_ctrl /\ op \in Jumps  -> label
    [] ~p.lock_ctrl /\ op \in Loops  -> p.labeli
    [] ~p.lock_ctrl /\ op = "call"   -> p.labeli + 2

\* Fault: the label number is one too high, as in the layout of a call block.
gen_control_transfer_finish_OffByOne(p) ==
  gen_label(stat_insert_insn(p, Insn("jmp", p.labeli + 1), "after"), "tail")

gen_control_transfer_finish(p) ==
  gen_label(stat_insert_insn(p, Insn("jmp", p.labeli), "after"), "tail")

-----------------------------------------------------------------------------
Init ==
  /\ pg = [code |-> << >>, list |-> << >>, insertpos |-> NoEntry,
           labeli |-> 0, labelspos |-> << >>,
           lock_ctrl |-> FALSE, lock_cx |-> "null"]
  /\ next_label = NoBlock
  /\ phase = "gen"
  /\ cpu = [ip |-> 0, ecx |-> 0, stack |-> << >>]
  /\ used = [work |-> 0, transfer |-> 0, likely |-> 0]
  /\ blocks = << >> /\ home = << >> /\ trace = << >>

\* Walking on with an insert position that is no list entry dereferences it.
Walking == phase = "gen" /\ pg.insertpos # Wild

InBlock == next_label # NoBlock
Serial == used.work + 1
Note == home' = Append(home, IF InBlock THEN Len(blocks) ELSE 0)

\* one_insn_gen of an ordinary instruction.  create_gpr_register never draws a
\* locked register; create_specific_register and a bound variable do not ask.
likely_gen_label(p, happens) == IF happens THEN gen_label(p, "after") ELSE p

WalkInsn(op, happens) ==
  /\ Walking
  /\ used.work < MaxWork
  /\ op \in {"work"} \cup (IF pg.lock_cx = "null" \/ NamesCX THEN {"workcx"} ELSE {})
  /\ happens => used.likely < MaxLikely
  /\ pg' = stat_insert_insn(likely_gen_label(pg, happens), Insn(op, Serial), "after")
  /\ used' = [used EXCEPT !.work = @ + 1, !.likely = @ + (IF happens THEN 1 ELSE 0)]
  /\ Note
  /\ UNCHANGED <<next_label, phase, cpu, blocks, trace>>

\* walkCElem: a check point
WalkCheck ==
  /\ Walking
  /\ used.work < MaxWork
  /\ pg' = stat_insert_insn(pg, Insn("check", Serial), "after")
  /\ used' = [used EXCEPT !.work = @ + 1]
  /\ Note
  /\ UNCHANGED <<next_label, phase, cpu, blocks, trace>>

\* one_insn_gen of a control-transfer opcode, with times -1.  When ctrl.c
\* returns -1 the instruction is generated like any other one.
WalkTransferElem(op, happens, label) ==
  LET p     == likely_gen_label(pg, happens)
      q     == gen_control_transfer_insn(p, op, CXSize - 1, label)
      again == ReturnedLabel(p, op, label) = NoLabel
  IN /\ Walking
     /\ used.transfer < MaxTransfer
     /\ happens => used.likely < MaxLikely
     /\ label \in Selectable(p)
     /\ again => (IF p.lock_ctrl THEN "block" ELSE "fresh") \in RawPlaces
     /\ pg' = IF again THEN stat_insert_insn(q, Insn("raw", 0), "after") ELSE q
     /\ used' = [used EXCEPT !.transfer = @ + 1, !.likely = @ + (IF happens THEN 1 ELSE 0)]
     /\ UNCHANGED <<next_label, phase, cpu, blocks, home, trace>>

\* walkTttBlk up to its children, and after them
BeginTransfer(op, times, label) ==
  /\ Walking
  /\ ~InBlock                      \* a transfer block holds instruction elements only
  /\ used.transfer < MaxTransfer
  /\ label \in Selectable(pg)
  /\ pg' = gen_control_transfer_insn(pg, op, times, label)
  /\ next_label' = ReturnedLabel(pg, op, label)
  /\ used' = [used EXCEPT !.transfer = @ + 2]
  /\ blocks' = Append(blocks, [op |-> op, times |-> IF op \in Loops THEN times ELSE 1])
  /\ UNCHANGED <<phase, cpu, home, trace>>

EndTransfer ==
  /\ Walking
  /\ InBlock
  /\ pg' = [update_insert_pos_to_label(pg, next_label) EXCEPT !.lock_ctrl = FALSE]
  /\ next_label' = NoBlock
  /\ UNCHANGED <<phase, cpu, used, blocks, home, trace>>

\* nasm takes a program in which every label jumped to is defined once
Definitions(p, label) == {id \in DOMAIN p.code : p.code[id] = Insn("label", label)}
Assembles(p) == \A id \in DOMAIN p.code :
  /\ p.code[id].op \in Transfers => Definitions(p, p.code[id].arg) # {}
  /\ p.code[id].op = "label" => Definitions(p, p.code[id].arg) = {id}

\* end of walk_tmplt: close_output_file finishes the program and writes it
Finish ==
  /\ Walking
  /\ ~InBlock
  /\ LET q == gen_control_transfer_finish(pg)
     IN /\ pg' = q
        /\ cpu' = [cpu EXCEPT !.ip = q.list[1]]
        /\ phase' = IF Assembles(q) THEN "run" ELSE "rejected"
  /\ UNCHANGED <<next_label, used, blocks, home, trace>>

WalkTemplate ==
  \/ \E op \in {"work", "workcx"}, happens \in BOOLEAN : WalkInsn(op, happens)
  \/ WalkCheck
  \/ \E op \in JumpElems, happens \in BOOLEAN, label \in NoLabel..pg.labeli :
        WalkTransferElem(op, happens, label)
  \/ \E op \in TransferTypes, times \in Times, label \in Selectable(pg) :
        BeginTransfer(op, times, label)
  \/ EndTransfer
  \/ Finish

-----------------------------------------------------------------------------
(* The machine that executes the emitted program.                          *)

Following(id) == LET i == PlaceOf(pg.list, id)
                 IN IF i = Len(pg.list) THEN 0 ELSE pg.list[i + 1]
Goto(label) == CHOOSE id \in Definitions(pg, label) : TRUE

At(ops) == phase = "run" /\ cpu.ip # 0 /\ pg.code[cpu.ip].op \in ops
Here == pg.code[cpu.ip].arg
Generated == <<pg, next_label, used, blocks, home>>

Skip ==
  /\ At({"label"})
  /\ cpu' = [cpu EXCEPT !.ip = Following(@)]
  /\ UNCHANGED <<Generated, phase, trace>>

\* a generated instruction; one that writes ECX leaves any value there
Execute ==
  /\ At({"work", "workcx", "check"})
  /\ \E cx \in IF At({"workcx"}) THEN 0..(CXSize - 1) ELSE {cpu.ecx} :
        cpu' = [cpu EXCEPT !.ip = Following(@), !.ecx = cx]
  /\ trace' = Append(trace, Here)
  /\ UNCHANGED <<Generated, phase>>

LoadCount ==
  /\ At({"movecx"})
  /\ cpu' = [cpu EXCEPT !.ip = Following(@), !.ecx = Here]
  /\ UNCHANGED <<Generated, phase, trace>>

Jump ==
  /\ At({"jmp"})
  /\ cpu' = [cpu EXCEPT !.ip = Goto(Here)]
  /\ UNCHANGED <<Generated, phase, trace>>

\* the flags a jcc tests are whatever the random instructions left
JumpIf ==
  /\ At({"jcc"})
  /\ \E target \in {Goto(Here), Following(cpu.ip)} : cpu' = [cpu EXCEPT !.ip = target]
  /\ UNCHANGED <<Generated, phase, trace>>

LoopBack ==
  /\ At(Loops)
  /\ LET cx == (cpu.ecx - 1) % CXSize
     IN \E taken \in IF cx = 0 THEN {FALSE}
                     ELSE IF At({"loop"}) THEN {TRUE} ELSE BOOLEAN :
          cpu' = [cpu EXCEPT !.ecx = cx,
                             !.ip = IF taken THEN Goto(Here) ELSE Following(@)]
  /\ UNCHANGED <<Generated, phase, trace>>

CallBody ==
  /\ At({"call"})
  /\ cpu' = [cpu EXCEPT !.ip = Goto(Here), !.stack = Append(@, Following(cpu.ip))]
  /\ UNCHANGED <<Generated, phase, trace>>

Return ==
  /\ At({"ret"})
  /\ cpu.stack # << >>
  /\ cpu' = [cpu EXCEPT !.ip = cpu.stack[Len(cpu.stack)],
                        !.stack = SubSeq(@, 1, Len(@) - 1)]
  /\ UNCHANGED <<Generated, phase, trace>>

\* a jump to no label, or a return with nothing on the generated stack
Crash ==
  /\ At({"raw"}) \/ (At({"ret"}) /\ cpu.stack = << >>)
  /\ phase' = "crash"
  /\ UNCHANGED <<Generated, cpu, trace>>

\* behind the last entry comes safe_exit
Halt ==
  /\ phase = "run" /\ cpu.ip = 0
  /\ phase' = "halt"
  /\ UNCHANGED <<Generated, cpu, trace>>

Run == \/ Skip \/ Execute \/ LoadCount \/ Jump \/ JumpIf \/ LoopBack
       \/ CallBody \/ Return \/ Crash \/ Halt

Next == WalkTemplate \/ Run

\* The processor goes on executing while the program has a next instruction.
Spec == Init /\ [][Next]_vars /\ WF_vars(Run)

-----------------------------------------------------------------------------
(* Properties.                                                             *)

Insns == [op : Ops, arg : Int]

PGState == [code : Seq(Insns), list : Seq(Nat), insertpos : Int, labeli : Nat,
            labelspos : Seq(Nat), lock_ctrl : BOOLEAN, lock_cx : {"null", "loop"}]

\* Types, with every pointer (list entry, position, label position, processor
\* address) within the instructions generated so far.
TypeOK ==
  LET Ids == 1..Len(pg.code) IN
  /\ pg \in PGState
  /\ ToSet(pg.list) \subseteq Ids
  /\ pg.insertpos \in Ids \cup {NoEntry, Wild}
  /\ Len(pg.labelspos) = pg.labeli
  /\ ToSet(pg.labelspos) \subseteq Ids
  /\ next_label \in Int
  /\ phase \in {"gen", "run", "rejected", "halt", "crash"}
  /\ cpu.ip \in Ids \cup {0}
  /\ cpu.ecx \in 0..(CXSize - 1)
  /\ ToSet(cpu.stack) \subseteq Ids \cup {0}

LabelsMatch(p) ==
  /\ \A l \in 0..(p.labeli - 1) : /\ LabelPos(p, l) \in DOMAIN p.code
                                   /\ p.code[LabelPos(p, l)] = Insn("label", l)
  /\ \A id \in DOMAIN p.code : p.code[id].op = "label" =>
        /\ p.code[id].arg \in 0..(p.labeli - 1)
        /\ LabelPos(p, p.code[id].arg) = id

\* labelspos[l] is the one entry that reads "label<l>:" (gen_label records the
\* insert position after the insertion): code moved to a label lands there.
LabelsAtTheirPositions == LabelsMatch(pg)

ListComplete(p) ==
  /\ Len(p.list) = Len(p.code)
  /\ \A id \in DOMAIN p.code : \E i \in DOMAIN p.list : p.list[i] = id

\* No instruction is dropped or listed twice, wherever the insert position
\* went: insnlist.c silently drops an insertion at a NULL position.
EveryInsnListedOnce == ListComplete(pg)

\* walkTttBlk's label is one that gen_control_transfer_insn really created, so
\* the walk never continues at labelspos[-1].
PositionIsAnEntry == pg.insertpos # Wild

\* The finished program assembles: each label it jumps to is defined once
\* ("jmp to the tail from current context", ctrl.c).
ProgramAssembles == phase # "rejected"

\* No ret is reached but through the call of its block: the program leaves the
\* generated code only at a jump that ctrl.c returned as it was, with an operand
\* that is no label.
NoStrayJump == phase = "crash" => pg.code[cpu.ip].op = "raw"

\* A serial number follows another in the execution when it was generated next,
\* or when both bound the body of one loop block.
MayFollow(m, n) ==
  \/ n = m + 1
  \/ LET b == home[m] IN
     /\ b # 0 /\ home[n] = b /\ blocks[b].op \in Loops
     /\ \A k \in DOMAIN home : home[k] = b => n <= k /\ k <= m

\* The program executes the instructions in the order the template generated
\* them, whatever the flags and the labels chosen: the check points of two runs
\* then pair up one to one.
ExecutesInOrder ==
  /\ trace # << >> => trace[1] = 1
  /\ \A i \in 2..Len(trace) : MayFollow(trace[i-1], trace[i])

\* A program that ends has executed everything: a loop body exactly `times`
\* times (at most, for the conditional loops), everything else once, and it
\* ends with an empty call stack.
Runs(n) == Cardinality({i \in DOMAIN trace : trace[i] = n})
ExecutesEverything ==
  phase = "halt" =>
    /\ cpu.stack = << >>
    /\ \A n \in DOMAIN home :
         LET b == IF home[n] = 0 THEN [op |-> "none", times |-> 1] ELSE blocks[home[n]]
         IN IF b.op = "loopcc" THEN Runs(n) \in 1..b.times ELSE Runs(n) = b.times

\* The generated program reaches safe_exit, or a jump that was not rewritten,
\* whatever its jumps test: the jumps to labels chosen among the earlier ones
\* never form a cycle.
Terminates == (phase = "run") ~> (phase \in {"halt", "crash"})

=============================================================================

------------------------------ MODULE OpndGen ------------------------------
(***************************************************************************)
(* Instructions and their operands: one_insn_gen of engine/generator.c     *)
(* with engine/gendata.c, operand.c, mem.c and the instruction state and   *)
(* register locks of stat/x86pg.c.  Initialisation code is emitted while   *)
(* an instruction is only half drawn, partly by one_insn_gen calling       *)
(* itself, and the state all that works on is global.                      *)
(*                                                                         *)
(* Emitted code is executed as it is emitted: code is inserted behind the  *)
(* code before it.  Registers are classes (al, ax, eax: "A"); "X" stands   *)
(* for the x87, MMX and XMM registers, which are loaded by way of          *)
(* float_data and never address memory.                                    *)
(***************************************************************************)
EXTENDS Integers, Sequences, SequencesExt, FiniteSets

CONSTANTS
  GPRs,           \* classes of general registers
  DrawnRegs,      \* those that create_gpr_register draws from
  AddrRegs,       \* those that create_random_modrm draws from
  Forms,          \* instructions: kinds of their operands, registers implied with a value,
                  \* registers pointed at data, whether they are SSE ones, write operand 1;
                  \* number of value lists a traversal of their knowledge has
  VarTypes,       \* the types of the variables of the blocks, by name
  Sections,       \* numbers of data sections, among the first ones from 0
  SecSize, MaxMem, Align,  \* 8192, 128 and 128 in the code
  Scales,         \* 2, 4, 8 in the code
  Liberties,      \* what templates may have, besides what those of the repository do:
                  \* "between": other memory operands between two uses of a memory variable
                  \* "beside": variables of other types used again where memory operands are
                  \* "bound": variables with a value from outside used in loops
                  \* "select": select blocks behind other elements
  MaxElems        \* bound on the elements walked

Vars == DOMAIN VarTypes

\* what an operand of a form may be: a register it names, one of a type, or a variable
OpndTypes == GPRs \cup {"X", "reg", "mem", "offs", "rm", "imm"}
Kinds == OpndTypes \cup Vars

\* the type of an operand, given or that of the variable; of the first three it may be a memory operand
KindOf(kind) == IF kind \in Vars THEN VarTypes[kind] ELSE kind
MemKinds == {"mem", "offs", "rm"}

ASSUME OpndGenAssumption ==
  /\ DrawnRegs \subseteq GPRs /\ AddrRegs \subseteq GPRs
  /\ "C" \in GPRs /\ {"none", "X", "reg", "mem", "offs", "rm", "imm"} \cap GPRs = {}
  /\ VarTypes \in [Vars -> OpndTypes] /\ Vars \cap (OpndTypes \cup {"none"}) = {}
  /\ \A f \in Forms :
       /\ f.opnds \in Seq(Kinds) /\ Len(f.opnds) <= 4 /\ f.implied \in Seq(GPRs \cup {"X"})
       /\ f.lea \in Seq(GPRs) /\ DOMAIN f.lea \subseteq Sections /\ f.sse \in BOOLEAN
  /\ IsFiniteSet(Sections) /\ Sections \subseteq 0..Cardinality(Sections) /\ Scales \subseteq Nat \ {0}
  /\ SecSize \in Nat /\ MaxMem \in 1..SecSize /\ Align \in Nat \ {0} /\ SecSize % Align = 0
  /\ Liberties \subseteq {"between", "beside", "bound", "select"}
  /\ MaxElems \in Nat

VARIABLES
  phase,     \* of one_insn_gen: "idle", "opnds", "implied", "insert", "inserted"
  elems,     \* number of elements walked
  stat,      \* the instruction state of X86PGState
  lock_reg_cases,
  var,       \* the variables of the blocks: the operand each stands for, while it is valid
  cur,       \* the instruction being generated, and what was requested for it
  regs, mem, \* the machine that runs the emitted code; mem is the last store
  looping    \* between the mov ecx and the loop of a loop block

vars == <<phase, elems, stat, lock_reg_cases, var, cur, regs, mem, looping>>

Modes == {"D", "B", "BD", "ISD", "BID", "BISD"}
HasBase(mode) == mode \in {"B", "BD", "BID", "BISD"}
HasIndex(mode) == mode \in {"ISD", "BID", "BISD"}

\* What a register holds: an address or index, or one of these.
Val(k) == -(k + 1)         \* the value requested for operand k
Counter == -30             \* what is left of the rounds of a loop
Junk == -40

None == [kind |-> "none"]
Reg(r) == [kind |-> "reg", reg |-> r]
Idle == [form |-> None, opnds |-> << >>, init |-> FALSE, reqs |-> {}, implied |-> 0]

Label(section) == section * SecSize
EA(o, rs) == (IF o.base = "none" THEN 0 ELSE rs[o.base])
             + (IF o.index = "none" THEN 0 ELSE rs[o.index] * o.scale) + o.disp

\* lea and mov instructions: each loads a register
Run(code, rs) ==
  [r \in DOMAIN rs |-> LET loads == {k \in DOMAIN code : code[k][1] = r}
                       IN IF loads = {} THEN rs[r] ELSE code[Max(loads)][2]]

-----------------------------------------------------------------------------
(* Memory operands.                                                        *)

AlignDown(n) == (n \div Align) * Align

random_mem_addr_from_data ==
  [sse \in BOOLEAN |-> LET data_size == SecSize - MaxMem IN
     IF sse
     THEN UNION {UNION {{[section |-> b, scale |-> s, disp |-> AlignDown(d),
                          index |-> AlignDown((buf - AlignDown(d)) \div s)] : d \in 0..(buf - 1)} :
                        buf \in 1..(data_size - 1)} : b \in Sections, s \in Scales}
     ELSE UNION {{[section |-> b, scale |-> s, index |-> i, disp |-> data_size - s * i] :
                    i \in 0..(data_size \div s - 1)} : b \in Sections, s \in Scales}]

Unlocked(cases, among) == {r \in among : cases[r] = "NULL"}

\* base and index registers that create_random_modrm may come up with
RegPairs(mode) ==
  UNION {LET locked == [r \in GPRs |-> IF r = b THEN "MEM" ELSE lock_reg_cases[r]]
         IN {<<b, i>> : i \in IF HasIndex(mode) THEN Unlocked(locked, AddrRegs) ELSE {"none"}} :
         b \in IF HasBase(mode) THEN Unlocked(lock_reg_cases, AddrRegs) ELSE {"none"}}

\* The text of the operand, the address that is meant, and the code that is to
\* load its registers.
Modrm(mode, a, pair) ==
  LET scale == IF mode = "BID" THEN 1 ELSE a.scale
      disp  == CASE mode = "B" -> 0 [] mode \in {"D", "ISD"} -> Label(a.section) [] OTHER -> a.disp
  IN [opnd |-> [kind |-> "mem", base |-> pair[1], index |-> pair[2], scale |-> scale, disp |-> disp,
                section |-> a.section,
                addr |-> disp + (IF HasBase(mode) THEN Label(a.section) ELSE 0)
                              + (IF HasIndex(mode) THEN a.index * scale ELSE 0)],
      code |-> (IF HasBase(mode) THEN <<<<pair[1], Label(a.section)>>>> ELSE << >>)
               \o (IF HasIndex(mode) THEN <<<<pair[2], a.index>>>> ELSE << >>)]

create_random_modrm(sse, modes) ==
  UNION {{Modrm(mode, a, pair) : a \in random_mem_addr_from_data[sse], pair \in RegPairs(mode)} :
         mode \in modes}

\* everything gen_operand_internal may draw for an operand of a kind
gen_operand_internal(kind) ==
  LET asReg(rs) == {[opnd |-> Reg(r), code |-> << >>] : r \in rs}
      asMem == create_random_modrm(stat.opcode.sse, Modes)
  IN CASE kind = "reg"  -> asReg(Unlocked(lock_reg_cases, DrawnRegs))
       [] kind = "mem"  -> asMem
       [] kind = "offs" -> create_random_modrm(stat.opcode.sse, {"D"})
       [] kind = "rm"   -> asReg(Unlocked(lock_reg_cases, DrawnRegs)) \cup asMem
       [] kind = "imm"  -> {[opnd |-> [kind |-> "imm"], code |-> << >>]}
       [] OTHER         -> asReg({kind})          \* a register it names, or "X"

-----------------------------------------------------------------------------
(* one_insn_gen.                                                           *)

Init ==
  /\ phase = "idle" /\ elems = 0
  /\ stat = [opcode |-> None, need_init |-> FALSE, opi |-> 0,
             has_mem_opnd |-> FALSE, init_mem_addr |-> << >>]
  /\ lock_reg_cases = [r \in GPRs |-> "NULL"]
  /\ var = [v \in Vars |-> [valid |-> FALSE, opnd |-> None, is_mem_opnd |-> FALSE,
                            init_mem_addr |-> << >>]]
  /\ cur = Idle
  /\ regs = [r \in GPRs \cup {"X"} |-> Junk] /\ mem = <<Junk, Junk>>
  /\ looping = FALSE

WalkLeft == phase = "idle" /\ elems < MaxElems

Uses(form, kinds) == \E i \in DOMAIN form.opnds : KindOf(form.opnds[i]) \in kinds
Names(form, v) == \E i \in DOMAIN form.opnds : form.opnds[i] = v
OthersMayBeMemory(form, v) ==
  \E i \in DOMAIN form.opnds : form.opnds[i] # v /\ KindOf(form.opnds[i]) \in MemKinds

\* what the templates walked have: no other memory operand between two uses of a memory
\* variable, none beside another variable that has its value, neither where it got it nor
\* where it is used again, and no loop body that names the counter
Walks(form) ==
  /\ WalkLeft
  /\ \A v \in Vars : var[v].valid =>
       /\ "between" \notin Liberties /\ var[v].opnd.kind = "mem" => ~OthersMayBeMemory(form, v)
       /\ "beside" \notin Liberties /\ var[v].opnd.kind # "mem" /\ Names(form, v)
            => ~var[v].is_mem_opnd /\ ~OthersMayBeMemory(form, v)
  /\ looping => ~Uses(form, {"C"}) /\ "C" \notin ToSet(form.implied)

\* walkElemBlk with walkIElem or walkGElem, up to the operands
WalkElem(form, need_init) ==
  /\ Walks(form)
  /\ stat' = [stat EXCEPT !.opcode = form, !.need_init = need_init, !.has_mem_opnd = FALSE]
  /\ cur' = [Idle EXCEPT !.form = form, !.init = need_init]
  /\ phase' = "opnds" /\ elems' = elems + 1
  /\ UNCHANGED <<lock_reg_cases, var, regs, mem, looping>>

\* walkSelBlk: the opcode is only set if none is left from before
walkSelBlk(form) ==
  /\ Walks(form)
  /\ "select" \notin Liberties => stat.opcode = None /\ ~stat.has_mem_opnd
  /\ stat' = [stat EXCEPT !.opcode = IF @ = None THEN form ELSE @]
  /\ cur' = [Idle EXCEPT !.form = form, !.init = stat.need_init]
  /\ phase' = "opnds" /\ elems' = elems + 1
  /\ UNCHANGED <<lock_reg_cases, var, regs, mem, looping>>

\* Fault: ECX is not locked for the body.
BeginLoop_NoLock ==
  /\ WalkLeft /\ ~looping
  /\ "bound" \notin Liberties => \A v \in Vars : ~var[v].valid
  /\ looping' = TRUE
  /\ regs' = [regs EXCEPT !["C"] = Counter]
  /\ elems' = elems + 1
  /\ UNCHANGED <<phase, stat, lock_reg_cases, var, cur, mem>>

\* A loop block: gen_control_transfer_insn locks ECX (for good) and loads it.
BeginLoop ==
  /\ WalkLeft /\ ~looping
  /\ "bound" \notin Liberties => \A v \in Vars : ~var[v].valid
  /\ looping' = TRUE
  /\ lock_reg_cases' = [lock_reg_cases EXCEPT !["C"] = "LOOP"]
  /\ regs' = [regs EXCEPT !["C"] = Counter]
  /\ elems' = elems + 1
  /\ UNCHANGED <<phase, stat, var, cur, mem>>

EndLoop ==
  /\ phase = "idle" /\ looping
  /\ looping' = FALSE
  /\ regs' = [regs EXCEPT !["C"] = Junk]
  /\ UNCHANGED <<phase, elems, stat, lock_reg_cases, var, cur, mem>>

\* a new round of a block drops the values of its variables
blk_invalid_var_all ==
  /\ phase = "idle"
  /\ \E vs \in SUBSET {v \in Vars : var[v].valid} \ {{}} :
       var' = [v \in Vars |-> IF v \notin vs THEN var[v]
                              ELSE [var[v] EXCEPT !.valid = FALSE, !.opnd = None, !.init_mem_addr = << >>]]
  /\ UNCHANGED <<phase, elems, stat, lock_reg_cases, cur, regs, mem, looping>>

\* request_trv_node and request_val_node get the index from the state
Request(opnd, opi) == [cur EXCEPT !.reqs = @ \cup {[opnd |-> opnd, opi |-> opi]}]

\* Fault: the address is not set up before the operand it addresses is filled.
init_opnd_NoAddress(o, opi, init_mem_addr) ==
  /\ regs' = IF o.kind = "reg" THEN [regs EXCEPT ![o.reg] = Val(opi)] ELSE regs
  /\ mem'  = IF o.kind = "mem" THEN <<EA(o, regs), Val(opi)>> ELSE mem

\* The code that gives operand o the value requested for it.  A memory operand
\* needs its address registers for that, so the code that loads them goes first.
init_opnd(o, opi, init_mem_addr) ==
  /\ regs' = CASE o.kind = "reg" -> [regs EXCEPT ![o.reg] = Val(opi)]
               [] o.kind = "mem" -> Run(init_mem_addr, regs)
               [] OTHER          -> regs
  /\ mem'  = IF o.kind = "mem" THEN <<EA(o, Run(init_mem_addr, regs)), Val(opi)>> ELSE mem

\* what follows for any operand: initialise it with a value, which is requested unless it
\* has one, and go on with the next
Generated(o, opi, init_mem_addr, requests) ==
  /\ cur' = [(IF stat.need_init /\ requests THEN Request(opi, opi) ELSE cur) EXCEPT
                !.opnds = Append(@, o)]
  /\ IF stat.need_init THEN init_opnd(o, opi, init_mem_addr) ELSE UNCHANGED <<regs, mem>>

MoreOperands == phase = "opnds" /\ Len(cur.opnds) < Len(cur.form.opnds)
Kind == cur.form.opnds[Len(cur.opnds) + 1]
\* a general register is loaded by a mov that one_insn_gen generates too: opi is
\* left where its operands end
OpiAfter(o) == IF stat.need_init /\ o.kind = "reg" /\ o # Reg("X") THEN 2 ELSE Len(cur.opnds)
Drawn(d) ==
  [stat EXCEPT !.opi = OpiAfter(d.opnd),
               !.init_mem_addr = IF d.opnd.kind = "mem" THEN d.code ELSE @,
               !.has_mem_opnd = @ \/ d.code # << >>]

\* gen_operand for an operand type, a literal, or an operand of a seed
gen_operand ==
  /\ MoreOperands /\ Kind \notin Vars
  /\ \E d \in gen_operand_internal(Kind) :
       /\ stat' = Drawn(d)
       /\ Generated(d.opnd, Len(cur.opnds), Drawn(d).init_mem_addr, TRUE)
  /\ UNCHANGED <<phase, elems, lock_reg_cases, var, looping>>

\* gen_operand for a variable with no value: draw, and keep what was drawn, with the
\* flag as it is now, whatever operand set it
gen_operand_new_var ==
  /\ MoreOperands /\ Kind \in Vars /\ ~var[Kind].valid
  /\ \E d \in gen_operand_internal(KindOf(Kind)) :
       /\ stat' = Drawn(d)
       /\ var' = [var EXCEPT ![Kind] = [valid |-> TRUE, opnd |-> d.opnd, is_mem_opnd |-> stat'.has_mem_opnd,
                                        init_mem_addr |-> d.code]]
       /\ Generated(d.opnd, Len(cur.opnds), d.code, TRUE)
  /\ UNCHANGED <<phase, elems, lock_reg_cases, looping>>

\* gen_operand for a variable that has one: the flag is put back for a register or a number
\* as well, and init_mem_addr stays what it was; a number keeps the value it was drawn with
gen_operand_var ==
  /\ MoreOperands /\ Kind \in Vars /\ var[Kind].valid
  /\ stat' = [stat EXCEPT !.opi = OpiAfter(var[Kind].opnd), !.has_mem_opnd = var[Kind].is_mem_opnd]
  /\ Generated(var[Kind].opnd, Len(cur.opnds), var[Kind].init_mem_addr, var[Kind].opnd.kind # "imm")
  /\ UNCHANGED <<phase, elems, lock_reg_cases, var, looping>>

\* Fault: the index is not set once more when the operands end.
EndOperands_KeepsOpi ==
  /\ phase = "opnds" /\ Len(cur.opnds) = Len(cur.form.opnds)
  /\ stat' = stat
  /\ phase' = IF stat.need_init THEN "implied" ELSE "insert"
  /\ UNCHANGED <<elems, lock_reg_cases, var, cur, regs, mem, looping>>

EndOperands ==
  /\ phase = "opnds" /\ Len(cur.opnds) = Len(cur.form.opnds)
  /\ stat' = [stat EXCEPT !.opi = Len(cur.opnds)]
  /\ phase' = IF stat.need_init THEN "implied" ELSE "insert"
  /\ UNCHANGED <<elems, lock_reg_cases, var, cur, regs, mem, looping>>

\* the values of implied operands, one by one: init_specific_register, or
\* init_popf, which pushes it ("X")
init_specific_register ==
  /\ phase = "implied" /\ cur.implied < Len(cur.form.implied)
  /\ LET r == cur.form.implied[cur.implied + 1]
     IN /\ regs' = [regs EXCEPT ![r] = Val(stat.opi)]
        /\ stat' = [stat EXCEPT !.opi = IF r = "X" THEN @ ELSE 2]
  /\ cur' = [Request(Len(cur.opnds) + cur.implied, stat.opi) EXCEPT !.implied = @ + 1]
  /\ UNCHANGED <<phase, elems, lock_reg_cases, var, mem, looping>>

\* the end of init_implied_operands; init_specific_mem points string
\* instructions at their data, with no value requested
EndImplied ==
  /\ phase = "implied" /\ cur.implied = Len(cur.form.implied)
  /\ regs' = Run([k \in DOMAIN cur.form.lea |-> <<cur.form.lea[k], Label(k)>>], regs)
  /\ phase' = "insert"
  /\ UNCHANGED <<elems, stat, lock_reg_cases, var, cur, mem, looping>>

\* Fault: the address is not set up again in front of the instruction.
InsertInsn_NoAddress ==
  /\ phase = "insert"
  /\ phase' = "inserted"
  /\ UNCHANGED <<elems, stat, lock_reg_cases, var, cur, regs, mem, looping>>

\* Registers of the address may have been loaded with values since it was drawn:
\* the code that loads them is emitted (once more) in front of the instruction.
InsertInsn ==
  /\ phase = "insert"
  /\ regs' = IF stat.has_mem_opnd THEN Run(stat.init_mem_addr, regs) ELSE regs
  /\ phase' = "inserted"
  /\ UNCHANGED <<elems, stat, lock_reg_cases, var, cur, mem, looping>>

\* The instruction executes and the element ends.  What registers and memory hold
\* from here on is forgotten: nothing may rely on it, but for the loop counter.
EndElem ==
  /\ phase = "inserted"
  /\ regs' = [r \in DOMAIN regs |->
                IF r = "C" /\ ~(cur.form.writes /\ cur.opnds # << >> /\ cur.opnds[1] = Reg("C")) /\ regs[r] = Counter
                THEN Counter ELSE Junk]
  /\ mem' = <<Junk, Junk>>
  /\ stat' = [stat EXCEPT !.need_init = FALSE]
  /\ cur' = Idle /\ phase' = "idle"
  /\ UNCHANGED <<elems, lock_reg_cases, var, looping>>

Generate ==
  \/ gen_operand \/ gen_operand_new_var \/ gen_operand_var \/ EndOperands
  \/ init_specific_register \/ EndImplied \/ InsertInsn \/ EndElem

Next ==
  \/ \E f \in Forms : (\E init \in BOOLEAN : WalkElem(f, init)) \/ walkSelBlk(f)
  \/ BeginLoop \/ EndLoop \/ blk_invalid_var_all
  \/ Generate

Spec == Init /\ [][Next]_vars

-----------------------------------------------------------------------------
(* Properties.                                                             *)

\* Types: the state stays within what gendata.c and x86pg.c declare.
Words == (-40..(SecSize * (Cardinality(Sections) + 1)))
Opnds == {None, [kind |-> "imm"]} \cup {Reg(r) : r \in GPRs \cup {"X"}}
IsOpnd(o) == o \in Opnds \/ (o.kind = "mem" /\ {o.base, o.index} \subseteq AddrRegs \cup {"none"})
TypeOK ==
  /\ phase \in {"idle", "opnds", "implied", "insert", "inserted"} /\ elems \in 0..MaxElems
  /\ stat.opcode \in Forms \cup {None} /\ stat.opi \in 0..4
  /\ {stat.need_init, stat.has_mem_opnd, looping} \subseteq BOOLEAN /\ Len(stat.init_mem_addr) <= 2
  /\ \A v \in Vars : /\ {var[v].valid, var[v].is_mem_opnd} \subseteq BOOLEAN
                     /\ IsOpnd(var[v].opnd) /\ Len(var[v].init_mem_addr) <= 2
  /\ lock_reg_cases \in [GPRs -> {"NULL", "LOOP"}]
  /\ \A i \in DOMAIN cur.opnds : IsOpnd(cur.opnds[i])
  /\ regs \in [GPRs \cup {"X"} -> Words] /\ mem[1] \in Words /\ mem[2] \in Words

AtInsn == phase = "inserted"
MemOpnds == {o \in ToSet(cur.opnds) : o.kind = "mem"}

\* When a generated instruction executes, the address registers of its memory
\* operand hold the address that was drawn, and the operand, of at most MaxMem
\* bytes, lies within the data section drawn: whatever was loaded into those
\* registers for other operands and for implied ones, and by nested instructions.
AddressAtInsn ==
  AtInsn => \A o \in MemOpnds :
    /\ EA(o, regs) = o.addr
    /\ o.addr >= Label(o.section) /\ o.addr + MaxMem <= Label(o.section) + SecSize

AddressRegs == UNION {{o.base, o.index} : o \in MemOpnds}

\* An instruction that is to have initial values has them when it executes: each
\* memory operand the value requested for it, each register the value requested
\* last among the operands it stands for, unless it is needed for an address.
ValuesAtInsn ==
  AtInsn /\ cur.init =>
    /\ \A i \in DOMAIN cur.opnds :
         cur.opnds[i].kind = "mem" => mem = <<cur.opnds[i].addr, Val(i - 1)>>
    /\ \A r \in (GPRs \cup {"X"}) \ (AddressRegs \cup ToSet(cur.form.lea)) :
         LET opnds == {i \in DOMAIN cur.opnds : cur.opnds[i] = Reg(r)}
             implied == {Len(cur.opnds) + k : k \in {k \in DOMAIN cur.form.implied :
                                                       cur.form.implied[k] = r}}
             all == opnds \cup implied
         IN all # {} => \E last \in all : (\A i \in all : i <= last) /\ regs[r] = Val(last - 1)

\* Values are requested by operand number: each operand, given or implied, gets a
\* value of its own, one that the knowledge of the instruction has, although a
\* nested one_insn_gen moves the number.
OwnValue ==
  \A q \in cur.reqs : q.opi = q.opnd /\ q.opi < cur.form.values

\* SSE instructions fault on addresses that are not aligned: none is drawn.
SSEAligned ==
  AtInsn /\ cur.form.sse => \A o \in MemOpnds : EA(o, regs) % Align = 0

\* The body of a loop leaves its counter alone as long as it does not name it:
\* no operand, no address and no initial value is put into ECX.
LoopCounterKept == looping => regs["C"] = Counter

\* create_gpr_register and create_random_modrm draw registers until one is not
\* locked: there always is one, also while a base register and ECX are locked.
RetriesEnd ==
  phase = "opnds" =>
    /\ Unlocked(lock_reg_cases, DrawnRegs) # {}
    /\ \A mode \in Modes : RegPairs(mode) # {}

\* An address is the one drawn when it is used, and one that may be used.
AddressesHold == AddressAtInsn /\ SSEAligned

\* The register locks keep what they are for, and leave registers to draw.
LocksHold == TypeOK /\ LoopCounterKept /\ RetriesEnd
=============================================================================

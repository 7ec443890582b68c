--------------------------- MODULE OpndGen_proofs ---------------------------
(***************************************************************************)
(* What is proved of the generation of instructions: the lock of ECX keeps *)
(* the counter of a loop through any body, and leaves registers to draw;   *)
(* a memory operand has its address when its instruction executes; initial *)
(* values arrive in the operands they were requested for.                  *)
(***************************************************************************)
EXTENDS OpndGen, FiniteSetTheorems, Lemmas, TLAPS

\* What templates and instructions are assumed to be: no variable keeps its value
\* into a loop, select blocks come first, and no string instruction points at its
\* data with ECX (init_specific_mem loads ESI, EDI, EBX).
TidyTemplates ==
  /\ "bound" \notin Liberties /\ "select" \notin Liberties
  /\ \A f \in Forms : \A k \in DOMAIN f.lea : f.lea[k] # "C"

\* Besides ECX there are a register to draw and two for an address.
EnoughRegisters ==
  /\ \E r \in DrawnRegs : r # "C"
  /\ \E b, i \in AddrRegs : b # "C" /\ i # "C" /\ b # i

-----------------------------------------------------------------------------
(* The inductive invariant.                                                *)

\* code that leaves ECX alone
SparesC(code) == \A k \in DOMAIN code : code[k][1] # "C"

\* an operand that is not ECX
OpndSparesC(o) == o.kind = "reg" => o.reg # "C"

\* an instruction that does not name ECX
FormSparesC(form) ==
  /\ \A k \in DOMAIN form.opnds : KindOf(form.opnds[k]) # "C"
  /\ \A k \in DOMAIN form.implied : form.implied[k] # "C"

\* the fields of a variable
VarFields == {"valid", "opnd", "is_mem_opnd", "init_mem_addr"}

Shape ==
  /\ phase \in {"idle", "opnds", "implied", "insert", "inserted"}
  /\ DOMAIN stat = {"opcode", "need_init", "opi", "has_mem_opnd", "init_mem_addr"}
  /\ DOMAIN cur = {"form", "opnds", "init", "reqs", "implied"}
  /\ DOMAIN regs = GPRs \cup {"X"}
  /\ (\E S : cur.opnds \in Seq(S)) /\ cur.implied \in Nat
  /\ phase # "idle" => cur.form \in Forms
  /\ lock_reg_cases \in [GPRs -> {"NULL", "LOOP"}]
  /\ \A r \in GPRs : r # "C" => lock_reg_cases[r] = "NULL"
  /\ DOMAIN var = Vars /\ \A v \in Vars : DOMAIN var[v] = VarFields

\* of a loop body: nothing drawn since it began loads ECX, and nothing drawn
\* before it began is used
BodySparesC ==
  /\ lock_reg_cases["C"] = "LOOP" /\ regs["C"] = Counter
  /\ \A v \in Vars : var[v].valid =>
       /\ OpndSparesC(var[v].opnd) /\ SparesC(var[v].init_mem_addr)
       /\ var[v].is_mem_opnd => SparesC(stat.init_mem_addr)
  /\ phase # "idle" => /\ FormSparesC(cur.form)
                       /\ \A k \in DOMAIN cur.opnds : OpndSparesC(cur.opnds[k])
                       /\ stat.has_mem_opnd => SparesC(stat.init_mem_addr)

IInv == Shape /\ (looping => BodySparesC)

-----------------------------------------------------------------------------
(* Lemmas.                                                                 *)

\* Code loads the registers it names and no other.
LEMMA RunKeeps ==
  ASSUME NEW code, NEW rs, NEW r \in DOMAIN rs, \A k \in DOMAIN code : code[k][1] # r
  PROVE  Run(code, rs)[r] = rs[r]
BY DEF Run

\* Running code adds no register and removes none.
LEMMA RunDomain ==
  ASSUME NEW code, NEW rs
  PROVE  DOMAIN Run(code, rs) = DOMAIN rs
BY DEF Run

\* While ECX is locked neither an address nor an operand that does not name it uses it.
LEMMA ModrmSparesC ==
  ASSUME NEW sse, NEW modes, "C" \in GPRs, AddrRegs \subseteq GPRs,
         lock_reg_cases["C"] = "LOOP", NEW d \in create_random_modrm(sse, modes)
  PROVE  d.opnd.kind = "mem" /\ SparesC(d.code)
<1>0. PICK mode \in modes : d \in {Modrm(mode, a, pair) : a \in random_mem_addr_from_data[sse], pair \in RegPairs(mode)}
  BY DEF create_random_modrm
<1>1. PICK a \in random_mem_addr_from_data[sse], pair \in RegPairs(mode) : d = Modrm(mode, a, pair)
  BY <1>0
<1>2. PICK b \in IF HasBase(mode) THEN Unlocked(lock_reg_cases, AddrRegs) ELSE {"none"} :
        pair \in {<<b, i>> : i \in IF HasIndex(mode)
                                   THEN Unlocked([r \in GPRs |-> IF r = b THEN "MEM" ELSE lock_reg_cases[r]], AddrRegs)
                                   ELSE {"none"}}
  BY <1>1 DEF RegPairs
<1>3. PICK i \in IF HasIndex(mode)
                 THEN Unlocked([r \in GPRs |-> IF r = b THEN "MEM" ELSE lock_reg_cases[r]], AddrRegs)
                 ELSE {"none"} : pair = <<b, i>>
  BY <1>2
<1>4. b # "C"
  BY DEF Unlocked
<1>5. i # "C"
  BY <1>4 DEF Unlocked
<1>6. d.opnd.kind = "mem"
  BY <1>1 DEF Modrm
<1>7. d.code = (IF HasBase(mode) THEN <<<<b, Label(a.section)>>>> ELSE << >>)
               \o (IF HasIndex(mode) THEN <<<<i, a.index>>>> ELSE << >>)
  BY <1>1, <1>3 DEF Modrm
<1>8. SparesC(d.code)
  <2>1. CASE HasBase(mode) /\ HasIndex(mode)
    BY <2>1, <1>4, <1>5, <1>7 DEF SparesC
  <2>2. CASE HasBase(mode) /\ ~HasIndex(mode)
    BY <2>2, <1>4, <1>5, <1>7 DEF SparesC
  <2>3. CASE ~HasBase(mode) /\ HasIndex(mode)
    BY <2>3, <1>4, <1>5, <1>7 DEF SparesC
  <2>4. CASE ~HasBase(mode) /\ ~HasIndex(mode)
    BY <2>4, <1>7 DEF SparesC
  <2> QED BY <2>1, <2>2, <2>3, <2>4
<1> QED BY <1>6, <1>8

\* While ECX is locked, drawing for an operand that does not name it gives neither the
\* register nor code that loads it.
LEMMA OperandSparesC ==
  ASSUME NEW kind, kind # "C", "C" \in GPRs, AddrRegs \subseteq GPRs,
         lock_reg_cases["C"] = "LOOP", NEW d \in gen_operand_internal(kind)
  PROVE  OpndSparesC(d.opnd) /\ SparesC(d.code) /\ (d.opnd.kind # "mem" => d.code = << >>)
<1> DEFINE asReg(rs) == {[opnd |-> Reg(r), code |-> << >>] : r \in rs}
<1>1. ASSUME NEW rs, "C" \notin rs, d \in asReg(rs)
      PROVE  OpndSparesC(d.opnd) /\ SparesC(d.code) /\ (d.opnd.kind # "mem" => d.code = << >>)
  BY <1>1 DEF Reg, SparesC, OpndSparesC
<1>2. ASSUME NEW sse, NEW modes, d \in create_random_modrm(sse, modes)
      PROVE  OpndSparesC(d.opnd) /\ SparesC(d.code) /\ (d.opnd.kind # "mem" => d.code = << >>)
  <2>1. d.opnd.kind = "mem" /\ SparesC(d.code)
    BY <1>2, ModrmSparesC
  <2> QED BY <2>1 DEF OpndSparesC
<1>3. "C" \notin Unlocked(lock_reg_cases, DrawnRegs)
  BY DEF Unlocked
<1>4. ASSUME d = [opnd |-> [kind |-> "imm"], code |-> << >>]
      PROVE  OpndSparesC(d.opnd) /\ SparesC(d.code) /\ (d.opnd.kind # "mem" => d.code = << >>)
  BY <1>4 DEF Reg, SparesC, OpndSparesC
<1>5. \/ d \in asReg(Unlocked(lock_reg_cases, DrawnRegs))
      \/ d \in asReg({kind})
      \/ d \in create_random_modrm(stat.opcode.sse, Modes)
      \/ d \in create_random_modrm(stat.opcode.sse, {"D"})
      \/ d = [opnd |-> [kind |-> "imm"], code |-> << >>]
  BY DEF gen_operand_internal
<1> QED BY <1>1, <1>2, <1>3, <1>4, <1>5

\* What follows for any operand, initialised or not: it is added, and what is
\* loaded are its own register or those of its address.
LEMMA GeneratedKeeps ==
  ASSUME Shape, NEW o, NEW opi, NEW code, NEW requests \in BOOLEAN, Generated(o, opi, code, requests)
  PROVE  /\ DOMAIN regs' = DOMAIN regs
         /\ "C" \in DOMAIN regs /\ OpndSparesC(o) /\ (o.kind = "mem" => SparesC(code)) => regs'["C"] = regs["C"]
         /\ DOMAIN cur' = DOMAIN cur /\ cur'.form = cur.form /\ cur'.implied = cur.implied
         /\ cur'.opnds = Append(cur.opnds, o)
<1>1. DOMAIN regs = GPRs \cup {"X"}
  BY DEF Shape
<1>2. DOMAIN cur = {"form", "opnds", "init", "reqs", "implied"}
  BY DEF Shape
<1>3. ASSUME stat.need_init
      PROVE  /\ DOMAIN regs' = DOMAIN regs
             /\ "C" \in DOMAIN regs /\ OpndSparesC(o) /\ (o.kind = "mem" => SparesC(code)) => regs'["C"] = regs["C"]
  <2>1. init_opnd(o, opi, code)
    BY <1>3 DEF Generated
  <2>2. ASSUME o.kind = "reg"
        PROVE  /\ DOMAIN regs' = DOMAIN regs
               /\ "C" \in DOMAIN regs /\ OpndSparesC(o) /\ (o.kind = "mem" => SparesC(code)) => regs'["C"] = regs["C"]
    <3>1. regs' = [regs EXCEPT ![o.reg] = Val(opi)]
      BY <2>1, <2>2 DEF init_opnd
    <3> QED BY <2>2, <3>1, Zenon DEF OpndSparesC
  <2>3. ASSUME o.kind = "mem"
        PROVE  /\ DOMAIN regs' = DOMAIN regs
               /\ "C" \in DOMAIN regs /\ OpndSparesC(o) /\ (o.kind = "mem" => SparesC(code)) => regs'["C"] = regs["C"]
    <3>1. regs' = Run(code, regs)
      BY <2>1, <2>3 DEF init_opnd
    <3>2. DOMAIN regs' = DOMAIN regs
      BY <3>1, RunDomain
    <3>3. ASSUME "C" \in DOMAIN regs, SparesC(code)
          PROVE  regs'["C"] = regs["C"]
      BY <3>1, <3>3, RunKeeps DEF SparesC
    <3> QED BY <2>3, <3>2, <3>3
  <2>4. ASSUME o.kind # "reg" /\ o.kind # "mem"
        PROVE  /\ DOMAIN regs' = DOMAIN regs
               /\ "C" \in DOMAIN regs /\ OpndSparesC(o) /\ (o.kind = "mem" => SparesC(code)) => regs'["C"] = regs["C"]
    <3>1. regs' = regs
      BY <2>1, <2>4 DEF init_opnd
    <3> QED BY <3>1
  <2> QED BY <2>2, <2>3, <2>4
<1>4. ASSUME ~stat.need_init
      PROVE  /\ DOMAIN regs' = DOMAIN regs
             /\ "C" \in DOMAIN regs /\ OpndSparesC(o) /\ (o.kind = "mem" => SparesC(code)) => regs'["C"] = regs["C"]
  <2>1. regs' = regs
    BY <1>4 DEF Generated
  <2> QED BY <1>1, <2>1
<1>5. /\ DOMAIN cur' = DOMAIN cur /\ cur'.form = cur.form /\ cur'.implied = cur.implied
      /\ cur'.opnds = Append(cur.opnds, o)
  <2>1. CASE stat.need_init /\ requests
    <3>1. cur' = [[cur EXCEPT !.reqs = @ \cup {[opnd |-> opi, opi |-> opi]}] EXCEPT !.opnds = Append(@, o)]
      BY <2>1 DEF Generated, Request
    <3> QED BY <1>2, <3>1, Zenon
  <2>2. CASE ~(stat.need_init /\ requests)
    <3>1. cur' = [cur EXCEPT !.opnds = Append(@, o)]
      BY <2>2 DEF Generated
    <3> QED BY <1>2, <3>1, Zenon
  <2> QED BY <2>1, <2>2
<1> QED BY <1>3, <1>4, <1>5

\* The instruction state after an operand has been drawn.
LEMMA DrawnState ==
  ASSUME Shape, NEW d
  PROVE  /\ DOMAIN Drawn(d) = DOMAIN stat
         /\ Drawn(d).init_mem_addr = IF d.opnd.kind = "mem" THEN d.code ELSE stat.init_mem_addr
         /\ Drawn(d).has_mem_opnd = (stat.has_mem_opnd \/ d.code # << >>)
<1>1. DOMAIN stat = {"opcode", "need_init", "opi", "has_mem_opnd", "init_mem_addr"}
  BY DEF Shape
<1>2. Drawn(d) = [stat EXCEPT !.opi = OpiAfter(d.opnd),
                              !.init_mem_addr = IF d.opnd.kind = "mem" THEN d.code ELSE @,
                              !.has_mem_opnd = @ \/ d.code # << >>]
  BY DEF Drawn
<1> QED BY <1>1, <1>2, Zenon

\* An operand that is added to those there are, with phase, lock and form as they are.
LEMMA AppendShape ==
  ASSUME Shape, NEW o, phase' = phase, lock_reg_cases' = lock_reg_cases,
         DOMAIN stat' = DOMAIN stat, DOMAIN cur' = DOMAIN cur,
         DOMAIN regs' = DOMAIN regs, DOMAIN var' = Vars, \A v \in Vars : DOMAIN var'[v] = VarFields,
         cur'.form = cur.form, cur'.implied = cur.implied, cur'.opnds = Append(cur.opnds, o)
  PROVE  /\ Shape'
         /\ (\A k \in DOMAIN cur.opnds : OpndSparesC(cur.opnds[k])) /\ OpndSparesC(o)
              => \A k \in DOMAIN cur'.opnds : OpndSparesC(cur'.opnds[k])
<1>1. PICK S : cur.opnds \in Seq(S)
  BY DEF Shape
<1>2. cur.opnds \in Seq(S \cup {o})
  BY <1>1
<1>3. Append(cur.opnds, o) \in Seq(S \cup {o})
  BY <1>2
<1>4. Shape'
  BY <1>3 DEF Shape
<1>5. \A k \in DOMAIN Append(cur.opnds, o) :
        Append(cur.opnds, o)[k] = IF k \in DOMAIN cur.opnds THEN cur.opnds[k] ELSE o
  BY <1>1
<1> QED BY <1>4, <1>5

-----------------------------------------------------------------------------
(* The invariant holds and is kept, action by action.                      *)

\* Nothing is locked and nothing loops at the start.
LEMMA InitInv ==
  ASSUME OpndGenAssumption, Init
  PROVE  IInv
<1>1. Shape
  <2>1. cur.opnds \in Seq({}) /\ cur.implied \in Nat
    BY DEF Init, Idle
  <2> QED BY <2>1 DEF Init, Idle, Shape, VarFields, OpndGenAssumption
<1> QED BY <1>1 DEF Init, IInv

\* The start of an element, by walkElemBlk or walkSelBlk.
LEMMA WalkInv ==
  ASSUME OpndGenAssumption, TidyTemplates, IInv,
         NEW form \in Forms, NEW init \in BOOLEAN,
         WalkElem(form, init) \/ walkSelBlk(form)
  PROVE  IInv'
<1>1. /\ phase = "idle" /\ phase' = "opnds"
      /\ looping => FormSparesC(form)
      /\ UNCHANGED <<lock_reg_cases, var, regs, mem, looping>>
  <2>1. Walks(form) => (looping => FormSparesC(form))
    BY DEF Walks, Uses, FormSparesC, ToSet
  <2> QED BY <2>1 DEF WalkElem, walkSelBlk, Walks, WalkLeft
<1>2. cur'.form = form /\ cur'.opnds = << >> /\ cur'.implied = 0
      /\ DOMAIN cur' = {"form", "opnds", "init", "reqs", "implied"}
  BY DEF WalkElem, walkSelBlk, Idle
<1>3. /\ DOMAIN stat' = DOMAIN stat /\ ~stat'.has_mem_opnd
      /\ stat'.init_mem_addr = stat.init_mem_addr
  <2>1. DOMAIN stat = {"opcode", "need_init", "opi", "has_mem_opnd", "init_mem_addr"}
    BY DEF IInv, Shape
  <2>2. CASE WalkElem(form, init)
    <3>1. stat' = [stat EXCEPT !.opcode = form, !.need_init = init, !.has_mem_opnd = FALSE]
      BY <2>2 DEF WalkElem
    <3> QED BY <2>1, <3>1, Zenon
  <2>3. CASE walkSelBlk(form)
    <3>1. ~stat.has_mem_opnd /\ stat' = [stat EXCEPT !.opcode = IF @ = None THEN form ELSE @]
      BY <2>3 DEF walkSelBlk, TidyTemplates
    <3> QED BY <2>1, <3>1, Zenon
  <2> QED BY <2>2, <2>3
<1>4. Shape'
  <2>1. cur'.opnds \in Seq({}) /\ cur'.implied \in Nat
    BY <1>2
  <2> QED BY <1>1, <1>2, <1>3, <2>1 DEF IInv, Shape
<1>5. ASSUME looping'
      PROVE  BodySparesC'
  <2>1. FormSparesC(cur.form)'
    BY <1>1, <1>2, <1>5 DEF FormSparesC
  <2> QED BY <1>1, <1>2, <1>3, <1>5, <2>1 DEF IInv, BodySparesC, SparesC
<1> QED BY <1>4, <1>5 DEF IInv

\* A new round of a block leaves a variable as it is, or without a value.
LEMMA InvalidVars ==
  ASSUME blk_invalid_var_all, \A v \in Vars : DOMAIN var[v] = VarFields
  PROVE  /\ DOMAIN var' = Vars
         /\ \A v \in Vars : \/ var'[v] = var[v]
                            \/ /\ DOMAIN var'[v] = VarFields /\ ~var'[v].valid /\ var'[v].valid \in BOOLEAN
                               /\ var'[v].opnd = None /\ var'[v].init_mem_addr = << >>
                               /\ var'[v].is_mem_opnd = var[v].is_mem_opnd
<1>1. PICK vs : var' = [v \in Vars |-> IF v \notin vs THEN var[v]
                                      ELSE [var[v] EXCEPT !.valid = FALSE, !.opnd = None, !.init_mem_addr = << >>]]
  BY DEF blk_invalid_var_all
<1>2. DOMAIN var' = Vars
  BY <1>1
<1>3. ASSUME NEW v \in Vars, v \in vs
      PROVE  /\ DOMAIN var'[v] = VarFields /\ ~var'[v].valid /\ var'[v].valid \in BOOLEAN
             /\ var'[v].opnd = None /\ var'[v].init_mem_addr = << >>
             /\ var'[v].is_mem_opnd = var[v].is_mem_opnd
  <2>1. var'[v] = [var[v] EXCEPT !.valid = FALSE, !.opnd = None, !.init_mem_addr = << >>]
    BY <1>1, <1>3
  <2>2. DOMAIN var[v] = {"valid", "opnd", "is_mem_opnd", "init_mem_addr"}
    BY DEF VarFields
  <2>3. /\ DOMAIN var'[v] = DOMAIN var[v] /\ var'[v].valid = FALSE
        /\ var'[v].opnd = None /\ var'[v].init_mem_addr = << >> /\ var'[v].is_mem_opnd = var[v].is_mem_opnd
    BY <2>1, <2>2, Zenon
  <2> QED BY <2>2, <2>3 DEF VarFields
<1>4. ASSUME NEW v \in Vars, v \notin vs
      PROVE  var'[v] = var[v]
  BY <1>1, <1>4
<1> QED BY <1>2, <1>3, <1>4

\* A variable that gets a value is the only one that changes.
LEMMA NewVar ==
  ASSUME DOMAIN var = Vars, NEW k \in Vars, NEW x, var' = [var EXCEPT ![k] = x]
  PROVE  DOMAIN var' = Vars /\ var'[k] = x /\ \A v \in Vars : v # k => var'[v] = var[v]
OBVIOUS

\* A loop locks and loads ECX as its body begins, and the lock stays when it ends; a new
\* round of the block only forgets the variable.
LEMMA LoopInv ==
  ASSUME OpndGenAssumption, TidyTemplates, IInv,
         BeginLoop \/ EndLoop \/ blk_invalid_var_all
  PROVE  IInv'
<1>1. CASE BeginLoop
  <2>1. /\ lock_reg_cases' = [lock_reg_cases EXCEPT !["C"] = "LOOP"]
        /\ regs' = [regs EXCEPT !["C"] = Counter]
        /\ phase = "idle" /\ \A v \in Vars : ~var[v].valid
        /\ UNCHANGED <<phase, stat, var, cur, mem>>
    BY <1>1 DEF BeginLoop, WalkLeft, TidyTemplates
  <2>2. Shape'
    BY <2>1 DEF IInv, Shape, OpndGenAssumption
  <2>3. BodySparesC'
    BY <2>1 DEF IInv, Shape, BodySparesC, OpndGenAssumption
  <2> QED BY <2>2, <2>3 DEF IInv
<1>2. CASE EndLoop
  <2>1. Shape'
    BY <1>2 DEF EndLoop, IInv, Shape
  <2> QED BY <1>2, <2>1 DEF EndLoop, IInv
<1>3. CASE blk_invalid_var_all
  <2>1. /\ UNCHANGED <<phase, elems, stat, lock_reg_cases, cur, regs, mem, looping>>
        /\ phase = "idle"
    BY <1>3 DEF blk_invalid_var_all
  <2>i. /\ DOMAIN var' = Vars
        /\ \A v \in Vars : \/ var'[v] = var[v]
                           \/ DOMAIN var'[v] = VarFields /\ ~var'[v].valid
    <3>1. \A v \in Vars : DOMAIN var[v] = VarFields
      BY DEF IInv, Shape
    <3>2. DOMAIN var' = Vars
      BY <1>3, <3>1, InvalidVars
    <3>3. \A v \in Vars : var'[v] = var[v] \/ (DOMAIN var'[v] = VarFields /\ ~var'[v].valid)
      BY <1>3, <3>1, InvalidVars, Zenon
    <3> QED BY <3>2, <3>3
  <2>2. Shape'
    BY <2>1, <2>i DEF IInv, Shape
  <2>3. looping => BodySparesC'
    BY <2>1, <2>i DEF IInv, BodySparesC, SparesC, FormSparesC, OpndSparesC
  <2> QED BY <2>1, <2>2, <2>3 DEF IInv
<1> QED BY <1>1, <1>2, <1>3

\* The next operand of an instruction that does not name ECX does not name it.
LEMMA KindSparesC ==
  ASSUME OpndGenAssumption, Shape, phase # "idle", FormSparesC(cur.form), MoreOperands
  PROVE  KindOf(Kind) # "C"
<1>1. PICK S : cur.opnds \in Seq(S)
  BY DEF Shape
<1>2. cur.form.opnds \in Seq(Kinds)
  BY DEF Shape, OpndGenAssumption
<1>3. Len(cur.opnds) + 1 \in DOMAIN cur.form.opnds
  BY <1>1, <1>2 DEF MoreOperands
<1> QED BY <1>3 DEF Kind, FormSparesC

\* Drawing an operand, or using that of a variable, initialised or not.
LEMMA OperandInv ==
  ASSUME OpndGenAssumption, IInv, gen_operand \/ gen_operand_new_var \/ gen_operand_var
  PROVE  IInv'
<1> USE DEF IInv
<1>1. /\ phase # "idle" /\ MoreOperands
      /\ phase' = phase /\ lock_reg_cases' = lock_reg_cases /\ looping' = looping
  BY DEF gen_operand, gen_operand_new_var, gen_operand_var, MoreOperands
<1>2. "C" \in GPRs /\ AddrRegs \subseteq GPRs /\ "C" \in DOMAIN regs
  BY DEF OpndGenAssumption, Shape
<1>3. ASSUME NEW o, NEW opi, NEW code, NEW requests \in BOOLEAN, Generated(o, opi, code, requests),
             DOMAIN stat' = DOMAIN stat, DOMAIN var' = Vars, \A v \in Vars : DOMAIN var'[v] = VarFields,
             looping => /\ OpndSparesC(o) /\ (o.kind = "mem" => SparesC(code))
                        /\ \A v \in Vars : var'[v].valid =>
                             /\ OpndSparesC(var'[v].opnd) /\ SparesC(var'[v].init_mem_addr)
                             /\ var'[v].is_mem_opnd => SparesC(stat'.init_mem_addr)
                        /\ stat'.has_mem_opnd => SparesC(stat'.init_mem_addr)
      PROVE  IInv'
  <2>1. /\ DOMAIN regs' = DOMAIN regs
        /\ OpndSparesC(o) /\ (o.kind = "mem" => SparesC(code)) => regs'["C"] = regs["C"]
        /\ DOMAIN cur' = DOMAIN cur /\ cur'.form = cur.form /\ cur'.implied = cur.implied
        /\ cur'.opnds = Append(cur.opnds, o)
    BY <1>2, <1>3, GeneratedKeeps
  <2>2. /\ Shape'
        /\ (\A k \in DOMAIN cur.opnds : OpndSparesC(cur.opnds[k])) /\ OpndSparesC(o)
             => \A k \in DOMAIN cur'.opnds : OpndSparesC(cur'.opnds[k])
    BY <1>1, <1>3, <2>1, AppendShape
  <2>3. ASSUME looping
        PROVE  BodySparesC'
    <3>1. FormSparesC(cur.form)'
      BY <1>1, <2>1, <2>3 DEF BodySparesC, FormSparesC
    <3>2. (\A k \in DOMAIN cur.opnds : OpndSparesC(cur.opnds[k]))'
      BY <1>1, <1>3, <2>2, <2>3 DEF BodySparesC
    <3> QED BY <1>1, <1>3, <2>1, <2>3, <3>1, <3>2 DEF BodySparesC, SparesC, OpndSparesC
  <2> QED BY <1>1, <2>2, <2>3
<1>4. CASE gen_operand
  <2>1. PICK d \in gen_operand_internal(Kind) :
          stat' = Drawn(d) /\ Generated(d.opnd, Len(cur.opnds), Drawn(d).init_mem_addr, TRUE)
    BY <1>4 DEF gen_operand
  <2>2. /\ DOMAIN stat' = DOMAIN stat
        /\ stat'.init_mem_addr = IF d.opnd.kind = "mem" THEN d.code ELSE stat.init_mem_addr
        /\ stat'.has_mem_opnd = (stat.has_mem_opnd \/ d.code # << >>)
        /\ Drawn(d).init_mem_addr = stat'.init_mem_addr
    BY <2>1, DrawnState
  <2>3. ASSUME looping
        PROVE  OpndSparesC(d.opnd) /\ SparesC(d.code) /\ (d.opnd.kind # "mem" => d.code = << >>)
    <3>1. Kind # "C"
      BY <1>1, <1>4, <2>3, KindSparesC DEF BodySparesC, gen_operand, KindOf
    <3> QED BY <1>2, <2>1, <2>3, <3>1, OperandSparesC DEF BodySparesC
  <2>4. var' = var
    BY <1>4 DEF gen_operand
  <2>5. ASSUME looping
        PROVE  /\ OpndSparesC(d.opnd) /\ (d.opnd.kind = "mem" => SparesC(Drawn(d).init_mem_addr))
               /\ \A v \in Vars : var'[v].valid =>
                     /\ OpndSparesC(var'[v].opnd) /\ SparesC(var'[v].init_mem_addr)
                     /\ var'[v].is_mem_opnd => SparesC(stat'.init_mem_addr)
               /\ stat'.has_mem_opnd => SparesC(stat'.init_mem_addr)
    BY <1>1, <2>2, <2>3, <2>4, <2>5 DEF BodySparesC
  <2>6. DOMAIN var' = Vars /\ \A v \in Vars : DOMAIN var'[v] = VarFields
    BY <2>4 DEF Shape
  <2> QED BY <1>3, <2>1, <2>2, <2>5, <2>6
<1>5. CASE gen_operand_new_var
  <2>1. PICK d \in gen_operand_internal(KindOf(Kind)) :
          /\ stat' = Drawn(d) /\ Generated(d.opnd, Len(cur.opnds), d.code, TRUE)
          /\ var' = [var EXCEPT ![Kind] = [valid |-> TRUE, opnd |-> d.opnd, is_mem_opnd |-> stat'.has_mem_opnd,
                                          init_mem_addr |-> d.code]]
    BY <1>5 DEF gen_operand_new_var
  <2>2. /\ DOMAIN stat' = DOMAIN stat
        /\ stat'.init_mem_addr = IF d.opnd.kind = "mem" THEN d.code ELSE stat.init_mem_addr
        /\ stat'.has_mem_opnd = (stat.has_mem_opnd \/ d.code # << >>)
    BY <2>1, DrawnState
  <2>3. ASSUME looping
        PROVE  OpndSparesC(d.opnd) /\ SparesC(d.code) /\ (d.opnd.kind # "mem" => d.code = << >>)
    <3>1. KindOf(Kind) # "C"
      BY <1>1, <2>3, KindSparesC DEF BodySparesC
    <3> QED BY <1>2, <2>1, <2>3, <3>1, OperandSparesC DEF BodySparesC
  <2> DEFINE x == [valid |-> TRUE, opnd |-> d.opnd, is_mem_opnd |-> stat'.has_mem_opnd, init_mem_addr |-> d.code]
  <2>4. /\ DOMAIN var' = Vars /\ var'[Kind] = x /\ \A v \in Vars : v # Kind => var'[v] = var[v]
    <3>1. Kind \in Vars /\ DOMAIN var = Vars /\ var' = [var EXCEPT ![Kind] = x]
      BY <1>5, <2>1 DEF gen_operand_new_var, Shape
    <3> HIDE DEF x
    <3> QED BY <3>1, NewVar
  <2>5. /\ DOMAIN x = VarFields /\ x.opnd = d.opnd /\ x.is_mem_opnd = stat'.has_mem_opnd /\ x.init_mem_addr = d.code
    BY DEF VarFields
  <2> HIDE DEF x
  <2>6. \A v \in Vars : DOMAIN var'[v] = VarFields
    BY <2>4, <2>5 DEF Shape
  <2>7. ASSUME looping
        PROVE  /\ OpndSparesC(d.opnd) /\ SparesC(d.code)
               /\ \A v \in Vars : var'[v].valid =>
                     /\ OpndSparesC(var'[v].opnd) /\ SparesC(var'[v].init_mem_addr)
                     /\ var'[v].is_mem_opnd => SparesC(stat'.init_mem_addr)
               /\ stat'.has_mem_opnd => SparesC(stat'.init_mem_addr)
    <3>1. stat'.has_mem_opnd => SparesC(stat'.init_mem_addr)
      BY <1>1, <2>2, <2>3, <2>7 DEF BodySparesC
    <3>2. ASSUME NEW v \in Vars, var'[v].valid
          PROVE  /\ OpndSparesC(var'[v].opnd) /\ SparesC(var'[v].init_mem_addr)
                 /\ var'[v].is_mem_opnd => SparesC(stat'.init_mem_addr)
      <4>1. CASE v = Kind
        BY <2>3, <2>4, <2>5, <2>7, <3>1, <4>1
      <4>2. CASE v # Kind
        <5>1. var'[v] = var[v]
          BY <2>4, <4>2
        <5> QED BY <2>2, <2>3, <2>7, <3>2, <5>1 DEF BodySparesC
      <4> QED BY <4>1, <4>2
    <3> QED BY <2>3, <2>7, <3>1, <3>2
  <2> QED BY <1>3, <2>1, <2>2, <2>4, <2>6, <2>7
<1>6. CASE gen_operand_var
  <2> DEFINE va == var[Kind]
  <2>1. /\ Kind \in Vars /\ va.valid /\ var' = var
        /\ stat' = [stat EXCEPT !.opi = OpiAfter(va.opnd), !.has_mem_opnd = va.is_mem_opnd]
        /\ Generated(va.opnd, Len(cur.opnds), va.init_mem_addr, va.opnd.kind # "imm")
    BY <1>6 DEF gen_operand_var
  <2>2. DOMAIN stat = {"opcode", "need_init", "opi", "has_mem_opnd", "init_mem_addr"}
    BY DEF Shape
  <2> HIDE DEF va
  <2>3. DOMAIN stat' = DOMAIN stat /\ stat'.init_mem_addr = stat.init_mem_addr /\ stat'.has_mem_opnd = va.is_mem_opnd
    BY <2>1, <2>2, Zenon
  <2>4. DOMAIN var' = Vars /\ \A v \in Vars : DOMAIN var'[v] = VarFields
    BY <2>1 DEF Shape
  <2>5. ASSUME looping
        PROVE  /\ OpndSparesC(va.opnd) /\ SparesC(va.init_mem_addr)
               /\ \A v \in Vars : var'[v].valid =>
                     /\ OpndSparesC(var'[v].opnd) /\ SparesC(var'[v].init_mem_addr)
                     /\ var'[v].is_mem_opnd => SparesC(stat'.init_mem_addr)
               /\ stat'.has_mem_opnd => SparesC(stat'.init_mem_addr)
    BY <2>1, <2>3, <2>5 DEF BodySparesC, va
  <2> QED BY <1>3, <2>1, <2>3, <2>4, <2>5
<1> QED BY <1>1, <1>4, <1>5, <1>6

\* The rest of one_insn_gen: the end of the operands, implied operands, the
\* insertion, and the end of the element.
LEMMA InsnInv ==
  ASSUME OpndGenAssumption, TidyTemplates, IInv,
         EndOperands \/ init_specific_register \/ EndImplied \/ InsertInsn \/ EndElem
  PROVE  IInv'
<1> USE DEF IInv
<1>0. /\ DOMAIN stat = {"opcode", "need_init", "opi", "has_mem_opnd", "init_mem_addr"}
      /\ DOMAIN cur = {"form", "opnds", "init", "reqs", "implied"}
      /\ "C" \in DOMAIN regs
  BY DEF Shape, OpndGenAssumption
<1>1. CASE EndOperands
  <2>1. /\ phase # "idle" /\ phase' \in {"implied", "insert"}
        /\ stat' = [stat EXCEPT !.opi = Len(cur.opnds)]
        /\ UNCHANGED <<elems, lock_reg_cases, var, cur, regs, mem, looping>>
    BY <1>1 DEF EndOperands
  <2>2. /\ DOMAIN stat' = DOMAIN stat /\ stat'.init_mem_addr = stat.init_mem_addr
        /\ stat'.has_mem_opnd = stat.has_mem_opnd
    BY <1>0, <2>1, Zenon
  <2>3. Shape'
    BY <2>1, <2>2 DEF Shape
  <2>4. looping => BodySparesC'
    BY <2>1, <2>2 DEF BodySparesC, SparesC, FormSparesC
  <2> QED BY <2>1, <2>3, <2>4
<1>2. CASE init_specific_register
  <2> DEFINE r == cur.form.implied[cur.implied + 1]
  <2>1. /\ phase # "idle" /\ cur.implied < Len(cur.form.implied)
        /\ regs' = [regs EXCEPT ![r] = Val(stat.opi)]
        /\ stat' = [stat EXCEPT !.opi = IF r = "X" THEN @ ELSE 2]
        /\ cur' = [[cur EXCEPT !.reqs = @ \cup {[opnd |-> Len(cur.opnds) + cur.implied, opi |-> stat.opi]}]
                     EXCEPT !.implied = @ + 1]
        /\ UNCHANGED <<phase, elems, lock_reg_cases, var, mem, looping>>
    BY <1>2 DEF init_specific_register, Request
  <2>2. /\ DOMAIN stat' = DOMAIN stat /\ stat'.init_mem_addr = stat.init_mem_addr
        /\ stat'.has_mem_opnd = stat.has_mem_opnd
    <3> HIDE DEF r
    <3> QED BY <1>0, <2>1, Zenon
  <2>3. /\ DOMAIN cur' = DOMAIN cur /\ cur'.form = cur.form /\ cur'.opnds = cur.opnds
        /\ cur'.implied = cur.implied + 1
    <3> HIDE DEF r
    <3> QED BY <1>0, <2>1, Zenon
  <2>4. cur.form.implied \in Seq(GPRs \cup {"X"}) /\ cur.implied \in Nat
    BY <2>1 DEF Shape, OpndGenAssumption
  <2>5. cur.implied + 1 \in DOMAIN cur.form.implied
    BY <2>1, <2>4
  <2>6. DOMAIN regs' = DOMAIN regs
    BY <2>1
  <2>7. Shape'
    <3>1. cur'.implied \in Nat
      BY <2>3, <2>4
    <3> QED BY <2>1, <2>2, <2>3, <2>6, <3>1 DEF Shape
  <2>8. ASSUME looping
        PROVE  BodySparesC'
    <3>1. r # "C"
      BY <2>1, <2>5, <2>8 DEF BodySparesC, FormSparesC
    <3>2. regs'["C"] = regs["C"]
      <4> HIDE DEF r
      <4> QED BY <2>1, <3>1, <1>0, Zenon
    <3> HIDE DEF r
    <3> QED BY <2>1, <2>2, <2>3, <2>8, <3>2 DEF BodySparesC, SparesC, FormSparesC
  <2> QED BY <2>1, <2>7, <2>8
<1>3. CASE EndImplied
  <2> DEFINE code == [k \in DOMAIN cur.form.lea |-> <<cur.form.lea[k], Label(k)>>]
  <2>1. /\ phase # "idle" /\ phase' = "insert" /\ regs' = Run(code, regs)
        /\ UNCHANGED <<elems, stat, lock_reg_cases, var, cur, mem, looping>>
    BY <1>3 DEF EndImplied
  <2>2. \A k \in DOMAIN code : code[k][1] # "C"
    BY <2>1 DEF TidyTemplates, Shape
  <2> HIDE DEF code
  <2>3. DOMAIN regs' = DOMAIN regs /\ regs'["C"] = regs["C"]
    BY <1>0, <2>1, <2>2, RunKeeps, RunDomain
  <2>4. Shape'
    BY <2>1, <2>3 DEF Shape
  <2>5. looping => BodySparesC'
    BY <2>1, <2>3 DEF BodySparesC, SparesC, FormSparesC
  <2> QED BY <2>1, <2>4, <2>5
<1>4. CASE InsertInsn
  <2>1. /\ phase # "idle" /\ phase' = "inserted"
        /\ regs' = IF stat.has_mem_opnd THEN Run(stat.init_mem_addr, regs) ELSE regs
        /\ UNCHANGED <<elems, stat, lock_reg_cases, var, cur, mem, looping>>
    BY <1>4 DEF InsertInsn
  <2>2. DOMAIN regs' = DOMAIN regs
    BY <2>1, RunDomain
  <2>3. ASSUME looping
        PROVE  regs'["C"] = regs["C"]
    BY <1>0, <2>1, <2>3, RunKeeps DEF BodySparesC, SparesC
  <2>4. Shape'
    BY <2>1, <2>2 DEF Shape
  <2>5. looping => BodySparesC'
    BY <2>1, <2>3 DEF BodySparesC, SparesC, FormSparesC
  <2> QED BY <2>1, <2>4, <2>5
<1>5. CASE EndElem
  <2>1. /\ phase # "idle" /\ phase' = "idle" /\ cur' = Idle
        /\ regs' = [r \in DOMAIN regs |->
                      IF r = "C" /\ ~(cur.form.writes /\ cur.opnds # << >> /\ cur.opnds[1] = Reg("C"))
                         /\ regs[r] = Counter THEN Counter ELSE Junk]
        /\ stat' = [stat EXCEPT !.need_init = FALSE]
        /\ UNCHANGED <<elems, lock_reg_cases, var, looping>>
    BY <1>5 DEF EndElem
  <2>2. DOMAIN stat' = DOMAIN stat /\ stat'.init_mem_addr = stat.init_mem_addr
    BY <1>0, <2>1, Zenon
  <2>3. /\ DOMAIN cur' = DOMAIN cur /\ cur'.opnds \in Seq({}) /\ cur'.implied \in Nat
    BY <1>0, <2>1 DEF Idle
  <2>4. Shape'
    BY <2>1, <2>2, <2>3 DEF Shape
  <2>5. ASSUME looping
        PROVE  BodySparesC'
    <3>1. cur.opnds # << >> => 1 \in DOMAIN cur.opnds
      <4>1. PICK S : cur.opnds \in Seq(S)
        BY DEF Shape
      <4> QED BY <4>1
    <3>2. ~(cur.opnds # << >> /\ cur.opnds[1] = Reg("C"))
      BY <2>1, <2>5, <3>1 DEF BodySparesC, OpndSparesC, Reg
    <3>3. regs'["C"] = Counter
      BY <1>0, <2>1, <2>5, <3>2 DEF BodySparesC
    <3> QED BY <2>1, <2>2, <2>5, <3>3 DEF BodySparesC, SparesC
  <2> QED BY <2>1, <2>4, <2>5
<1> QED BY <1>1, <1>2, <1>3, <1>4, <1>5

\* Every step keeps the invariant.
LEMMA NextInv ==
  ASSUME OpndGenAssumption, TidyTemplates, IInv, [Next]_vars
  PROVE  IInv'
<1>1. CASE \E f \in Forms : (\E init \in BOOLEAN : WalkElem(f, init)) \/ walkSelBlk(f)
  <2>1. PICK f \in Forms : (\E init \in BOOLEAN : WalkElem(f, init)) \/ walkSelBlk(f)
    BY <1>1
  <2>2. PICK init \in BOOLEAN : WalkElem(f, init) \/ walkSelBlk(f)
    BY <2>1
  <2> QED BY <2>2, WalkInv
<1>2. CASE BeginLoop \/ EndLoop \/ blk_invalid_var_all
  BY <1>2, LoopInv
<1>3. CASE gen_operand \/ gen_operand_new_var \/ gen_operand_var
  BY <1>3, OperandInv
<1>4. CASE EndOperands \/ init_specific_register \/ EndImplied \/ InsertInsn \/ EndElem
  BY <1>4, InsnInv
<1>5. CASE UNCHANGED vars
  <2>1. Shape'
    BY <1>5 DEF vars, IInv, Shape
  <2>2. looping => BodySparesC'
    BY <1>5 DEF vars, IInv, BodySparesC, SparesC, FormSparesC, OpndSparesC
  <2> QED BY <1>5, <2>1, <2>2 DEF vars, IInv
<1> QED BY <1>1, <1>2, <1>3, <1>4, <1>5 DEF Next, Generate

-----------------------------------------------------------------------------
(* The results.                                                            *)

\* No body of a loop that does not name ECX changes the counter in it, whichever
\* operands, addresses and initial values are drawn, as gen_control_transfer_insn
\* (ctrl.c) locks ECX for it: for any registers, instructions, sections and number of
\* elements, under TidyTemplates.
THEOREM CounterSurvivesBody ==
  ASSUME TidyTemplates
  PROVE  Spec => []LoopCounterKept
<1>1. Init => IInv
  BY InitInv, OpndGenAssumption
<1>2. IInv /\ [Next]_vars => IInv'
  BY NextInv, OpndGenAssumption
<1>3. IInv => LoopCounterKept
  BY DEF IInv, BodySparesC, LoopCounterKept
<1> QED BY <1>1, <1>2, <1>3, PTL DEF Spec

\* create_gpr_register and create_random_modrm, which draw until a register is not
\* locked, always find one, also for an index behind a base and inside a loop: the only
\* register that is ever locked between operands is ECX.
THEOREM RegistersRemain ==
  ASSUME TidyTemplates, EnoughRegisters
  PROVE  Spec => []RetriesEnd
<1>1. Init => IInv
  BY InitInv, OpndGenAssumption
<1>2. IInv /\ [Next]_vars => IInv'
  BY NextInv, OpndGenAssumption
<1>3. IInv => RetriesEnd
  <2> SUFFICES ASSUME IInv
               PROVE  /\ Unlocked(lock_reg_cases, DrawnRegs) # {}
                      /\ \A mode \in Modes : RegPairs(mode) # {}
    BY DEF RetriesEnd
  <2>1. /\ \A r \in GPRs : r # "C" => lock_reg_cases[r] = "NULL"
        /\ DrawnRegs \subseteq GPRs /\ AddrRegs \subseteq GPRs
    BY OpndGenAssumption DEF IInv, Shape, OpndGenAssumption
  <2>2. Unlocked(lock_reg_cases, DrawnRegs) # {}
    <3>1. PICK r \in DrawnRegs : r # "C"
      BY DEF EnoughRegisters
    <3> QED BY <2>1, <3>1 DEF Unlocked
  <2>3. ASSUME NEW mode \in Modes
        PROVE  RegPairs(mode) # {}
    <3>1. PICK b0, i0 \in AddrRegs : b0 # "C" /\ i0 # "C" /\ b0 # i0
      BY DEF EnoughRegisters
    <3> DEFINE b == IF HasBase(mode) THEN b0 ELSE "none"
               locked == [r \in GPRs |-> IF r = b THEN "MEM" ELSE lock_reg_cases[r]]
               i == IF HasIndex(mode) THEN i0 ELSE "none"
    <3>2. b \in IF HasBase(mode) THEN Unlocked(lock_reg_cases, AddrRegs) ELSE {"none"}
      BY <2>1, <3>1 DEF Unlocked
    <3>3. i0 # b
      BY <3>1, <2>1, OpndGenAssumption DEF OpndGenAssumption
    <3>4. locked[i0] = "NULL"
      BY <2>1, <3>1, <3>3
    <3>5. i \in IF HasIndex(mode) THEN Unlocked(locked, AddrRegs) ELSE {"none"}
      BY <3>1, <3>4 DEF Unlocked
    <3>6. <<b, i>> \in RegPairs(mode)
      BY <3>2, <3>5 DEF RegPairs
    <3> QED BY <3>6
  <2> QED BY <2>2, <2>3
<1> QED BY <1>1, <1>2, <1>3, PTL DEF Spec

-----------------------------------------------------------------------------
(* Drawn addresses: where they lie, and the code that sets them up.        *)

\* a multiple of the alignment
Multiple(n) == \E q \in Nat : n = Align * q

\* The quotient of a division, multiplied back, does not exceed the dividend.
LEMMA DivFacts ==
  ASSUME NEW n \in Nat, NEW d \in Nat, d > 0
  PROVE  n \div d \in Nat /\ d * (n \div d) <= n /\ n \div d <= n /\ (d * (n \div d) = (n \div d) * d)
<1>1. n \div d \in Nat
  OBVIOUS
<1>2. d * (n \div d) <= n
  OBVIOUS
<1>3. n \div d <= d * (n \div d)
  <2> DEFINE q == n \div d
  <2> HIDE DEF q
  <2>1. ASSUME q \in Nat PROVE q <= d * q
    BY <2>1
  <2> QED BY <1>1, <2>1 DEF q
<1> QED BY <1>1, <1>2, <1>3

\* The multiples of the alignment are the numbers that leave no remainder.
LEMMA MultipleMod ==
  ASSUME NEW n \in Nat, Align \in Nat \ {0}
  PROVE  Multiple(n) <=> n % Align = 0
<1>1. ASSUME NEW q \in Nat, n = Align * q PROVE n % Align = 0
  BY <1>1
<1>2. ASSUME n % Align = 0 PROVE n = Align * (n \div Align) /\ n \div Align \in Nat
  <2> DEFINE a == Align
  <2> HIDE DEF a
  <2>0. a \in Nat /\ a > 0
    BY DEF a
  <2>1. n % a = 0 => n = a * (n \div a)
    BY <2>0
  <2>2. n \div a \in Nat
    BY <2>0
  <2> QED BY <2>1, <2>2, <1>2 DEF a
<1> QED BY <1>1, <1>2 DEF Multiple

\* The sum of two aligned offsets is aligned.
LEMMA MultipleSum ==
  ASSUME NEW m \in Nat, NEW n \in Nat, Multiple(m), Multiple(n), Align \in Nat \ {0}
  PROVE  Multiple(m + n)
<1>1. PICK p \in Nat : m = Align * p
  BY DEF Multiple
<1>2. PICK q \in Nat : n = Align * q
  BY DEF Multiple
<1>3. m + n = Align * (p + q) /\ p + q \in Nat
  BY <1>1, <1>2
<1> QED BY <1>3 DEF Multiple

\* An aligned index stays aligned when it is scaled.
LEMMA MultipleProduct ==
  ASSUME NEW m \in Nat, NEW s \in Nat, Multiple(m), Align \in Nat \ {0}
  PROVE  Multiple(m * s)
<1>1. PICK p \in Nat : m = Align * p
  BY DEF Multiple
<1>3. m * s = Align * (p * s) /\ p * s \in Nat
  BY <1>1
<1> QED BY <1>3 DEF Multiple

\* What an address that is drawn consists of: wherever it is used, as displacement, index or both, it
\* stays MaxMem bytes before the end of the section.
Inside(a) ==
  /\ a.section \in Sections /\ a.scale \in Nat \ {0} /\ a.disp \in Nat /\ a.index \in Nat
  /\ a.index <= a.index * a.scale /\ a.index * a.scale \in Nat
  /\ a.disp + a.index * a.scale <= SecSize - MaxMem

\* Scaling by at least one does not make an index smaller.
LEMMA GreaterProduct ==
  ASSUME NEW i \in Nat, NEW s \in Nat \ {0}
  PROVE  i * s \in Nat /\ i <= i * s
OBVIOUS

\* Every address random_mem_addr_from_data can draw lies inside its section, aligned for SSE.
LEMMA AddrInside ==
  ASSUME NEW sse \in BOOLEAN, NEW a \in random_mem_addr_from_data[sse]
  PROVE  Inside(a) /\ (sse => Multiple(a.disp) /\ Multiple(a.index))
<1> DEFINE size == SecSize - MaxMem
<1>0. /\ size \in Nat /\ Scales \subseteq Nat \ {0} /\ Align \in Nat \ {0} /\ SecSize \in Nat /\ MaxMem \in Nat
  BY OpndGenAssumption DEF OpndGenAssumption
<1>1. CASE sse
  <2>1. a \in UNION {UNION {{[section |-> b, scale |-> s, disp |-> AlignDown(d),
                          index |-> AlignDown((buf - AlignDown(d)) \div s)] : d \in 0..(buf - 1)} :
                        buf \in 1..(size - 1)} : b \in Sections, s \in Scales}
    BY <1>1 DEF random_mem_addr_from_data
  <2>2. PICK b \in Sections, s \in Scales :
          a \in UNION {{[section |-> b, scale |-> s, disp |-> AlignDown(d),
                          index |-> AlignDown((buf - AlignDown(d)) \div s)] : d \in 0..(buf - 1)} :
                        buf \in 1..(size - 1)}
    BY <2>1
  <2>3. PICK buf \in 1..(size - 1) :
          a \in {[section |-> b, scale |-> s, disp |-> AlignDown(d),
                          index |-> AlignDown((buf - AlignDown(d)) \div s)] : d \in 0..(buf - 1)}
    BY <2>2, Zenon
  <2>4. PICK d \in 0..(buf - 1) :
          a = [section |-> b, scale |-> s, disp |-> AlignDown(d), index |-> AlignDown((buf - AlignDown(d)) \div s)]
    BY <2>3, Zenon
  <2> DEFINE p == AlignDown(d)
             j == (buf - p) \div s
             i == AlignDown(j)
  <2>5. /\ a.section = b /\ a.scale = s /\ a.disp = p /\ a.index = i
    BY <2>4
  <2>6. b \in Sections /\ s \in Nat \ {0} /\ buf \in Nat /\ buf <= size /\ d \in Nat /\ d <= buf
    BY <1>0, <2>2
  <2>7. ASSUME NEW n \in Nat PROVE AlignDown(n) \in Nat /\ AlignDown(n) <= n /\ Multiple(AlignDown(n))
    <3>1. n \div Align \in Nat /\ Align * (n \div Align) <= n /\ (Align * (n \div Align) = (n \div Align) * Align)
      BY <1>0, DivFacts
    <3> DEFINE q == n \div Align
    <3>2. AlignDown(n) = q * Align
      BY DEF AlignDown
    <3>3. Align * q \in Nat
      BY <1>0, <3>1
    <3>4. Multiple(AlignDown(n))
      BY <3>1, <3>2 DEF Multiple
    <3> HIDE DEF q
    <3> QED BY <3>1, <3>2, <3>3, <3>4 DEF q
  <2>8. p \in Nat /\ p <= d /\ Multiple(p)
    BY <2>6, <2>7
  <2>9. buf - p \in Nat
    <3> HIDE DEF p
    <3> QED BY <2>6, <2>8
  <2>10. j \in Nat /\ s * j <= buf - p
    <3> HIDE DEF p
    <3> QED BY <2>6, <2>9, DivFacts
  <2>11. i \in Nat /\ i <= j /\ Multiple(i)
    <3> HIDE DEF j
    <3> QED BY <2>10, <2>7
  <2> HIDE DEF p, j, i
  <2>12. i * s \in Nat /\ i <= i * s /\ i * s <= s * j
    <3>1. i * s \in Nat /\ i <= i * s
      BY <2>6, <2>11, GreaterProduct
    <3>2. s * i <= s * j
      BY <2>6, <2>10, <2>11
    <3>3. s * i = i * s
      BY <2>6, <2>11
    <3> QED BY <3>1, <3>2, <3>3
  <2>13. p + i * s <= size
    <3> DEFINE w == i * s
               x == s * j
    <3>1. w \in Nat /\ w <= x /\ x <= buf - p /\ x \in Nat
      BY <2>6, <2>10, <2>12
    <3> HIDE DEF w, x
    <3>2. p + w <= size
      BY <1>0, <2>6, <2>8, <3>1
    <3> QED BY <3>2 DEF w
  <2> QED BY <2>5, <2>6, <2>8, <2>11, <2>12, <2>13 DEF Inside
<1>2. CASE ~sse
  <2>1. a \in UNION {{[section |-> b, scale |-> s, index |-> i, disp |-> size - s * i] :
                    i \in 0..(size \div s - 1)} : b \in Sections, s \in Scales}
    BY <1>2 DEF random_mem_addr_from_data
  <2>2. PICK b \in Sections, s \in Scales :
          a \in {[section |-> b, scale |-> s, index |-> i, disp |-> size - s * i] : i \in 0..(size \div s - 1)}
    BY <2>1
  <2>3. PICK i \in 0..(size \div s - 1) : a = [section |-> b, scale |-> s, index |-> i, disp |-> size - s * i]
    BY <2>2, Zenon
  <2>4. a.section = b /\ a.scale = s /\ a.index = i /\ a.disp = size - s * i
    BY <2>3
  <2>5. b \in Sections /\ s \in Nat \ {0}
    BY <1>0
  <2>6. size \div s \in Nat /\ s * (size \div s) <= size
    BY <1>0, <2>5, DivFacts
  <2> DEFINE q == size \div s
  <2>7. i \in Nat /\ i <= q
    BY <2>6
  <2> HIDE DEF q
  <2>8. i * s \in Nat /\ i <= i * s /\ s * i = i * s /\ s * i <= s * q
    <3>1. i * s \in Nat /\ i <= i * s
      BY <2>5, <2>7, GreaterProduct
    <3>2. s * i <= s * q
      BY <2>5, <2>6, <2>7 DEF q
    <3>3. s * i = i * s
      BY <2>5, <2>7
    <3> QED BY <3>1, <3>2, <3>3
  <2> DEFINE w == i * s
             x == s * q
  <2>9. x <= size /\ x \in Nat
    BY <2>5, <2>6 DEF q
  <2>10. size - w \in Nat /\ (size - w) + w <= size
    <3>1. w \in Nat /\ w <= x
      BY <2>8
    <3> HIDE DEF w, x, size
    <3> QED BY <1>0, <2>9, <3>1
  <2>11. a.disp = size - w
    BY <2>4, <2>8
  <2> QED BY <1>2, <2>4, <2>5, <2>7, <2>8, <2>10, <2>11 DEF Inside
<1> QED BY <1>1, <1>2

RegNames == GPRs \cup {"X"}

\* Code that loads at most two registers, as for an address.
CodeTyped(code) ==
  Len(code) \in 0..2 /\ DOMAIN code = 1..Len(code) /\ \A k \in DOMAIN code : code[k][2] \in Words

\* Code that gives a memory operand its address: whatever registers held, it loads those of the
\* operand and no others, and the operand is then where it was drawn, within its section.
SetsUp(code, o) ==
  /\ o.kind = "mem" /\ o.base \in AddrRegs \cup {"none"} /\ o.index \in AddrRegs \cup {"none"}
  /\ CodeTyped(code) /\ \A k \in DOMAIN code : code[k][1] \in {o.base, o.index}
  /\ \A rs \in [RegNames -> Int] : EA(o, Run(code, rs)) = o.addr
  /\ o.addr \in Words
  /\ o.addr >= Label(o.section) /\ o.addr + MaxMem <= Label(o.section) + SecSize

\* A register that one instruction of the code loads holds what that one loads.
LEMMA RunLoads ==
  ASSUME NEW code, NEW rs, NEW r \in DOMAIN rs, NEW k \in DOMAIN code, k \in Int, code[k][1] = r,
         \A j \in DOMAIN code : code[j][1] = r => j = k
  PROVE  Run(code, rs)[r] = code[k][2]
<1> DEFINE loads == {j \in DOMAIN code : code[j][1] = r}
<1>1. loads = {k}
  OBVIOUS
<1>2. Max({k}) = k
  BY DEF Max
<1>3. Run(code, rs)[r] = IF loads = {} THEN rs[r] ELSE code[Max(loads)][2]
  BY DEF Run
<1> HIDE DEF loads
<1> QED BY <1>1, <1>2, <1>3

\* Sections and their labels.
LEMMA SectionFacts ==
  ASSUME NEW b \in Sections
  PROVE  /\ Label(b) \in Nat /\ Multiple(Label(b)) /\ SecSize \in Nat /\ MaxMem \in 1..SecSize
         /\ Label(b) + SecSize <= SecSize * (Cardinality(Sections) + 1)
         /\ SecSize * (Cardinality(Sections) + 1) \in Nat
         /\ Label(b) \in Words
<1>1. /\ SecSize \in Nat /\ MaxMem \in 1..SecSize /\ Align \in Nat \ {0} /\ SecSize % Align = 0
      /\ b \in 0..Cardinality(Sections) /\ Cardinality(Sections) \in Nat
  BY OpndGenAssumption, FS_CardinalityType DEF OpndGenAssumption
<1> DEFINE c == Cardinality(Sections)
<1> HIDE DEF c
<1>2. c \in Nat /\ b \in Nat /\ b <= c
  BY <1>1 DEF c
<1>3. b * SecSize \in Nat /\ SecSize * (c + 1) \in Nat /\ SecSize * b = b * SecSize
  BY <1>1, <1>2
<1>4. SecSize * b + SecSize <= SecSize * (c + 1)
  <2>1. SecSize * b <= SecSize * c
    BY <1>1, <1>2
  <2>2. SecSize * (c + 1) = SecSize * c + SecSize
    BY <1>1, <1>2
  <2>3. SecSize * b \in Nat /\ SecSize * c \in Nat
    BY <1>1, <1>2
  <2> QED BY <1>1, <2>1, <2>2, <2>3
<1>5. Multiple(b * SecSize)
  <2>1. Multiple(SecSize)
    BY <1>1, MultipleMod
  <2>2. Multiple(SecSize * b)
    BY <1>1, <1>2, <2>1, MultipleProduct
  <2> QED BY <1>3, <2>2
<1> DEFINE L == b * SecSize
           T == SecSize * (c + 1)
<1>6. L \in Nat /\ T \in Nat /\ L + SecSize <= T
  BY <1>3, <1>4
<1>7. L \in -40..T
  <2> HIDE DEF L, T
  <2> QED BY <1>1, <1>6
<1> QED BY <1>1, <1>5, <1>6, <1>7 DEF Label, Words, c

\* What create_random_modrm draws comes with the code that sets it up; for an SSE instruction it is aligned.
LEMMA ModrmSetsUp ==
  ASSUME NEW sse \in BOOLEAN, NEW modes, modes \subseteq Modes, NEW d \in create_random_modrm(sse, modes)
  PROVE  SetsUp(d.code, d.opnd) /\ (sse => Multiple(d.opnd.addr))
<1>0. PICK mode \in modes : d \in {Modrm(mode, a, pair) : a \in random_mem_addr_from_data[sse], pair \in RegPairs(mode)}
  BY DEF create_random_modrm
<1>1. PICK a \in random_mem_addr_from_data[sse], pair \in RegPairs(mode) : d = Modrm(mode, a, pair)
  BY <1>0
<1>2. PICK b \in IF HasBase(mode) THEN Unlocked(lock_reg_cases, AddrRegs) ELSE {"none"} :
        pair \in {<<b, i>> : i \in IF HasIndex(mode)
                                   THEN Unlocked([r \in GPRs |-> IF r = b THEN "MEM" ELSE lock_reg_cases[r]], AddrRegs)
                                   ELSE {"none"}}
  BY <1>1 DEF RegPairs
<1>3. PICK i \in IF HasIndex(mode)
                 THEN Unlocked([r \in GPRs |-> IF r = b THEN "MEM" ELSE lock_reg_cases[r]], AddrRegs)
                 ELSE {"none"} : pair = <<b, i>>
  BY <1>2
<1>4. AddrRegs \subseteq GPRs /\ "none" \notin GPRs
  BY OpndGenAssumption DEF OpndGenAssumption
<1>5. IF HasBase(mode) THEN b \in AddrRegs /\ b # "none" ELSE b = "none"
  BY <1>4 DEF Unlocked
<1>6. IF HasIndex(mode) THEN i \in AddrRegs /\ i # "none" /\ i # b ELSE i = "none"
  BY <1>4 DEF Unlocked
<1> DEFINE L == Label(a.section)
           scale == IF mode = "BID" THEN 1 ELSE a.scale
           disp == CASE mode = "B" -> 0 [] mode \in {"D", "ISD"} -> L [] OTHER -> a.disp
           o == d.opnd
           addr == disp + (IF HasBase(mode) THEN L ELSE 0) + (IF HasIndex(mode) THEN a.index * scale ELSE 0)
           code == (IF HasBase(mode) THEN <<<<b, L>>>> ELSE << >>) \o (IF HasIndex(mode) THEN <<<<i, a.index>>>> ELSE << >>)
<1>7. /\ mode \in Modes
      /\ mode = "B" => disp = 0
      /\ mode \in {"D", "ISD"} => disp = L
      /\ mode \in {"BD", "BID", "BISD"} => disp = a.disp
  BY Zenon DEF Modes
<1>8. d = [opnd |-> [kind |-> "mem", base |-> pair[1], index |-> pair[2], scale |-> scale, disp |-> disp,
                     section |-> a.section, addr |-> addr],
           code |-> (IF HasBase(mode) THEN <<<<pair[1], L>>>> ELSE << >>)
                    \o (IF HasIndex(mode) THEN <<<<pair[2], a.index>>>> ELSE << >>)]
  BY <1>1, Zenon DEF Modrm
<1>9. pair[1] = b /\ pair[2] = i
  BY <1>3
<1> HIDE DEF disp, L, scale, addr
<1>10. /\ o.kind = "mem" /\ o.base = b /\ o.index = i /\ o.scale = scale /\ o.disp = disp
       /\ o.section = a.section /\ o.addr = addr
  BY <1>8, <1>9
<1>11. d.code = code
  BY <1>8, <1>9
<1>12. Inside(a) /\ (sse => Multiple(a.disp) /\ Multiple(a.index))
  BY AddrInside
<1>13. /\ L \in Nat /\ Multiple(L) /\ SecSize \in Nat /\ MaxMem \in 1..SecSize
       /\ L + SecSize <= SecSize * (Cardinality(Sections) + 1)
       /\ SecSize * (Cardinality(Sections) + 1) \in Nat
       /\ L \in Words
  BY <1>12, SectionFacts DEF Inside, L
<1> DEFINE T == SecSize * (Cardinality(Sections) + 1)
           x == a.index * scale
<1> HIDE DEF T, x
<1>14. /\ T \in Nat /\ L + SecSize <= T /\ Words = -40..T
  BY <1>13 DEF T, Words
<1>15. /\ a.index \in Nat /\ a.disp \in Nat /\ scale \in Nat /\ x \in Nat /\ a.index <= x
       /\ x <= SecSize - MaxMem /\ a.disp + x <= SecSize - MaxMem
  <2> DEFINE y == a.index * a.scale
  <2>1. y \in Nat /\ a.index \in Nat /\ a.disp \in Nat /\ a.scale \in Nat /\ a.index <= y /\ a.disp + y <= SecSize - MaxMem
    BY <1>12 DEF Inside
  <2>2. x = IF mode = "BID" THEN a.index ELSE y
    BY <2>1 DEF x, scale
  <2>3. scale \in Nat
    BY <2>1 DEF scale
  <2> HIDE DEF y
  <2> QED BY <1>13, <2>1, <2>2, <2>3
<1>16. addr = disp + (IF HasBase(mode) THEN L ELSE 0) + (IF HasIndex(mode) THEN x ELSE 0)
  BY DEF addr, x
<1>17. /\ addr \in Nat /\ addr >= L /\ addr + MaxMem <= L + SecSize /\ disp \in Nat
  BY <1>7, <1>13, <1>15, <1>16 DEF Modes, HasBase, HasIndex
<1>18. addr \in Words
  BY <1>13, <1>14, <1>17
<1>19. a.index \in Words
  BY <1>13, <1>14, <1>15
<1>20. sse => Multiple(addr)
  <2> SUFFICES ASSUME sse PROVE Multiple(addr)
    OBVIOUS
  <2>0. Align \in Nat \ {0}
    BY OpndGenAssumption DEF OpndGenAssumption
  <2>1. Multiple(x)
    BY <1>12, <1>15, <2>0, MultipleProduct DEF x
  <2>2. Multiple(0)
    BY <2>0 DEF Multiple
  <2>3. Multiple(disp)
    BY <1>7, <1>12, <1>13, <2>2 DEF Modes
  <2> DEFINE p == IF HasBase(mode) THEN L ELSE 0
             q == IF HasIndex(mode) THEN x ELSE 0
  <2>4. p \in Nat /\ q \in Nat /\ Multiple(p) /\ Multiple(q)
    BY <1>13, <1>15, <2>1, <2>2
  <2> HIDE DEF p, q
  <2>5. disp \in Nat /\ disp + p \in Nat
    BY <2>4, <1>17
  <2>6. Multiple(disp + p)
    BY <2>0, <2>3, <2>4, <2>5, MultipleSum, Zenon
  <2>7. Multiple((disp + p) + q)
    BY <2>0, <2>4, <2>5, <2>6, MultipleSum, Zenon
  <2> QED BY <2>7, <1>16 DEF p, q
<1>21. CodeTyped(code) /\ \A k \in DOMAIN code : code[k][1] \in {b, i}
  BY <1>13, <1>19 DEF CodeTyped
<1>22. ASSUME NEW rs \in [RegNames -> Int]
       PROVE  EA(o, Run(code, rs)) = addr
  <2> DEFINE ru == Run(code, rs)
  <2>1. HasBase(mode) => b \in DOMAIN rs /\ ru[b] = L
    <3> SUFFICES ASSUME HasBase(mode) PROVE b \in DOMAIN rs /\ ru[b] = L
      OBVIOUS
    <3>1. b \in DOMAIN rs
      BY <1>4, <1>5 DEF RegNames
    <3>2. 1 \in DOMAIN code /\ code[1] = <<b, L>> /\ \A j \in DOMAIN code : code[j][1] = b => j = 1
      BY <1>5, <1>6
    <3> HIDE DEF code
    <3> QED BY <3>1, <3>2, RunLoads
  <2>2. HasIndex(mode) => i \in DOMAIN rs /\ ru[i] = a.index
    <3> SUFFICES ASSUME HasIndex(mode) PROVE i \in DOMAIN rs /\ ru[i] = a.index
      OBVIOUS
    <3>1. i \in DOMAIN rs
      BY <1>4, <1>6 DEF RegNames
    <3>2. PICK k \in DOMAIN code : k \in Int /\ code[k] = <<i, a.index>> /\ \A j \in DOMAIN code : code[j][1] = i => j = k
      <4>1. CASE HasBase(mode)
        <5>1. 2 \in DOMAIN code /\ code[2] = <<i, a.index>> /\ \A j \in DOMAIN code : code[j][1] = i => j = 2
          BY <1>5, <1>6, <4>1
        <5> HIDE DEF code
        <5> QED BY <5>1
      <4>2. CASE ~HasBase(mode)
        <5>1. 1 \in DOMAIN code /\ code[1] = <<i, a.index>> /\ \A j \in DOMAIN code : code[j][1] = i => j = 1
          BY <1>5, <1>6, <4>2
        <5> HIDE DEF code
        <5> QED BY <5>1
      <4> QED BY <4>1, <4>2
    <3> HIDE DEF code
    <3> QED BY <3>1, <3>2, RunLoads
  <2> HIDE DEF ru
  <2>3. EA(o, ru) = (IF b = "none" THEN 0 ELSE ru[b]) + (IF i = "none" THEN 0 ELSE ru[i] * scale) + disp
    BY <1>10 DEF EA
  <2>4. EA(o, ru) = (IF HasBase(mode) THEN L ELSE 0) + (IF HasIndex(mode) THEN x ELSE 0) + disp
    <3>1. (IF b = "none" THEN 0 ELSE ru[b]) = IF HasBase(mode) THEN L ELSE 0
      BY <1>5, <2>1
    <3>2. (IF i = "none" THEN 0 ELSE ru[i] * scale) = IF HasIndex(mode) THEN x ELSE 0
      BY <1>6, <2>2 DEF x
    <3> QED BY <2>3, <3>1, <3>2
  <2> DEFINE p == IF HasBase(mode) THEN L ELSE 0
             q == IF HasIndex(mode) THEN x ELSE 0
  <2>5. p \in Nat /\ q \in Nat /\ disp \in Nat
    BY <1>13, <1>15, <1>17
  <2>6. EA(o, ru) = p + q + disp /\ addr = disp + p + q
    BY <1>16, <2>4
  <2> HIDE DEF p, q
  <2>7. EA(o, ru) = addr
    BY <2>5, <2>6
  <2> QED BY <2>7 DEF ru
<1> HIDE DEF code
<1> QED BY <1>5, <1>6, <1>10, <1>11, <1>13, <1>17, <1>18, <1>20, <1>21, <1>22 DEF SetsUp, L

\* The last of some positions.
LEMMA LastOf ==
  ASSUME NEW n \in Nat, NEW S, S \subseteq 1..n, S # {}
  PROVE  Max(S) \in S /\ \A y \in S : y <= Max(S)
<1> DEFINE T == {n - y : y \in S}
<1>1. T \subseteq Nat /\ T # {}
  <2>1. \A y \in S : n - y \in Nat
    OBVIOUS
  <2>2. \A t \in T : \E y \in S : t = n - y
    OBVIOUS
  <2>3. \E y \in S : n - y \in T
    OBVIOUS
  <2> HIDE DEF T
  <2> QED BY <2>1, <2>2, <2>3
<1> HIDE DEF T
<1>2. PICK t \in T : \A u \in T : t <= u
  BY <1>1, LeastNat
<1>3. PICK x \in S : t = n - x
  BY DEF T
<1>4. ASSUME NEW y \in S PROVE x >= y
  <2>1. t <= n - y
    BY <1>2 DEF T
  <2> QED BY <2>1, <1>3
<1>5. \E z \in S : \A y \in S : z >= y
  BY <1>4
<1>6. Max(S) \in S /\ \A y \in S : Max(S) >= y
  BY <1>5, Zenon DEF Max
<1>7. \A y \in S : Max(S) >= y => y <= Max(S)
  BY <1>6
<1> QED BY <1>6, <1>7

\* Code that loads addresses leaves addresses and values in the registers.
LEMMA RunTyped ==
  ASSUME NEW code, NEW n \in Nat, DOMAIN code = 1..n, \A k \in DOMAIN code : code[k][2] \in Words,
         NEW rs \in [RegNames -> Words]
  PROVE  Run(code, rs) \in [RegNames -> Words]
<1> SUFFICES ASSUME NEW r \in RegNames PROVE Run(code, rs)[r] \in Words
  BY DEF Run
<1> DEFINE loads == {j \in DOMAIN code : code[j][1] = r}
<1>1. Run(code, rs)[r] = IF loads = {} THEN rs[r] ELSE code[Max(loads)][2]
  BY DEF Run
<1>2. loads # {} => Max(loads) \in DOMAIN code
  <2>1. loads \subseteq 1..n
    OBVIOUS
  <2>2. loads # {} => Max(loads) \in loads
    <3> HIDE DEF loads
    <3> QED BY <2>1, LastOf
  <2> QED BY <2>2
<1> HIDE DEF loads
<1> QED BY <1>1, <1>2

\* Words are numbers, and hold what registers are given: values, the counter, labels.
LEMMA WordFacts ==
  /\ Words \subseteq Int /\ Junk \in Words /\ Counter \in Words
  /\ \A k \in 0..4 : Val(k) \in Words
<1> DEFINE T == SecSize * (Cardinality(Sections) + 1)
<1>1. T \in Nat
  <2>1. SecSize \in Nat /\ Cardinality(Sections) \in Nat
    BY OpndGenAssumption, FS_CardinalityType DEF OpndGenAssumption
  <2> QED BY <2>1
<1>2. Words = -40..T
  BY DEF Words
<1> HIDE DEF T
<1> QED BY <1>1, <1>2 DEF Junk, Counter, Val

\* A register is an operand, and distinct from memory and immediate operands.
LEMMA OpndFacts ==
  ASSUME NEW o, IsOpnd(o), o.kind = "reg"
  PROVE  \E r \in RegNames : o = Reg(r) /\ o.reg = r
<1>1. o \in Opnds
  BY DEF IsOpnd
<1>2. o # None /\ o # [kind |-> "imm"]
  BY DEF None
<1>3. PICK r \in RegNames : o = Reg(r)
  BY <1>1, <1>2 DEF Opnds, RegNames
<1> QED BY <1>3 DEF Reg

\* What gen_operand_internal draws for an operand of a form: memory, set up by its code, a register or a number.
LEMMA OperandDrawn ==
  ASSUME NEW kind \in OpndTypes, stat.opcode.sse \in BOOLEAN, NEW d \in gen_operand_internal(kind)
  PROVE  /\ IsOpnd(d.opnd)
         /\ \/ /\ d.opnd.kind = "mem" /\ kind \in MemKinds /\ SetsUp(d.code, d.opnd)
               /\ stat.opcode.sse => Multiple(d.opnd.addr)
            \/ d.code = << >> /\ d.opnd.kind # "mem"
<1> DEFINE asReg(rs) == {[opnd |-> Reg(r), code |-> << >>] : r \in rs}
           Goal == /\ IsOpnd(d.opnd)
                   /\ \/ /\ d.opnd.kind = "mem" /\ kind \in MemKinds /\ SetsUp(d.code, d.opnd)
                         /\ stat.opcode.sse => Multiple(d.opnd.addr)
                      \/ d.code = << >> /\ d.opnd.kind # "mem"
<1>1. ASSUME NEW rs, rs \subseteq RegNames, d \in asReg(rs)
      PROVE  Goal
  <2>1. PICK r \in rs : d = [opnd |-> Reg(r), code |-> << >>]
    BY <1>1
  <2>2. d.opnd = Reg(r) /\ d.code = << >> /\ Reg(r) \in Opnds /\ Reg(r).kind = "reg"
    BY <1>1, <2>1 DEF Opnds, RegNames, Reg
  <2> QED BY <2>2 DEF IsOpnd
<1>2. ASSUME NEW modes, modes \subseteq Modes, d \in create_random_modrm(stat.opcode.sse, modes), kind \in MemKinds
      PROVE  Goal
  <2>1. SetsUp(d.code, d.opnd) /\ (stat.opcode.sse => Multiple(d.opnd.addr))
    BY <1>2, ModrmSetsUp
  <2>2. d.opnd.kind = "mem" /\ IsOpnd(d.opnd)
    BY <2>1 DEF SetsUp, IsOpnd
  <2> QED BY <2>1, <2>2, <1>2
<1>3. ASSUME d = [opnd |-> [kind |-> "imm"], code |-> << >>]
      PROVE  Goal
  <2>1. d.opnd = [kind |-> "imm"] /\ d.code = << >> /\ d.opnd.kind = "imm"
    BY <1>3
  <2> QED BY <2>1 DEF IsOpnd, Opnds
<1>4. /\ Unlocked(lock_reg_cases, DrawnRegs) \subseteq RegNames
      /\ {"D"} \subseteq Modes
  BY OpndGenAssumption DEF OpndGenAssumption, Unlocked, RegNames, Modes
<1>5. \/ d \in asReg(Unlocked(lock_reg_cases, DrawnRegs))
      \/ d \in asReg({kind}) /\ kind \notin {"reg", "mem", "offs", "rm", "imm"}
      \/ d \in create_random_modrm(stat.opcode.sse, Modes) /\ kind \in {"mem", "rm"}
      \/ d \in create_random_modrm(stat.opcode.sse, {"D"}) /\ kind = "offs"
      \/ d = [opnd |-> [kind |-> "imm"], code |-> << >>]
  BY Zenon DEF gen_operand_internal
<1>6. kind \notin {"reg", "mem", "offs", "rm", "imm"} => {kind} \subseteq RegNames
  BY DEF OpndTypes, RegNames
<1> HIDE DEF Goal, asReg
<1>7. Goal
  BY <1>1, <1>2, <1>3, <1>4, <1>5, <1>6 DEF MemKinds
<1> QED BY <1>7 DEF Goal

-----------------------------------------------------------------------------
(* Types, whatever templates are like.                                     *)

StatTyped(st) ==
  /\ DOMAIN st = {"opcode", "need_init", "opi", "has_mem_opnd", "init_mem_addr"}
  /\ st.opcode \in Forms \cup {None} /\ st.opi \in 0..4
  /\ st.need_init \in BOOLEAN /\ st.has_mem_opnd \in BOOLEAN /\ CodeTyped(st.init_mem_addr)

VarTyped(va) ==
  /\ DOMAIN va = VarFields
  /\ va.valid \in BOOLEAN /\ va.is_mem_opnd \in BOOLEAN
  /\ Len(va.init_mem_addr) <= 2 /\ IsOpnd(va.opnd)
  /\ va.valid /\ va.opnd.kind = "mem" => SetsUp(va.init_mem_addr, va.opnd)

VarsTyped(vs) == DOMAIN vs = Vars /\ \A v \in Vars : VarTyped(vs[v])

CurTyped(ph, st, cu) ==
  /\ DOMAIN cu = {"form", "opnds", "init", "reqs", "implied"}
  /\ (\E S : cu.opnds \in Seq(S)) /\ cu.implied \in Nat
  /\ \A k \in 1..Len(cu.opnds) : IsOpnd(cu.opnds[k])
  /\ ph # "idle" => cu.form \in Forms /\ st.opcode \in Forms /\ Len(cu.opnds) <= Len(cu.form.opnds)

Typed ==
  /\ phase \in {"idle", "opnds", "implied", "insert", "inserted"} /\ elems \in 0..MaxElems
  /\ looping \in BOOLEAN /\ lock_reg_cases \in [GPRs -> {"NULL", "LOOP"}]
  /\ regs \in [RegNames -> Words] /\ mem[1] \in Words /\ mem[2] \in Words
  /\ StatTyped(stat) /\ VarsTyped(var) /\ CurTyped(phase, stat, cur)

\* What Generated makes of the instruction, the registers and the memory.
LEMMA GeneratedIs ==
  ASSUME DOMAIN cur = {"form", "opnds", "init", "reqs", "implied"}, NEW o, NEW opi, NEW code,
         NEW requests \in BOOLEAN, Generated(o, opi, code, requests)
  PROVE  /\ DOMAIN cur' = DOMAIN cur /\ cur'.form = cur.form /\ cur'.init = cur.init
         /\ cur'.implied = cur.implied /\ cur'.opnds = Append(cur.opnds, o)
         /\ cur'.reqs = cur.reqs \cup (IF stat.need_init /\ requests THEN {[opnd |-> opi, opi |-> opi]} ELSE {})
         /\ stat.need_init =>
              /\ o.kind = "reg" => regs' = [regs EXCEPT ![o.reg] = Val(opi)]
              /\ o.kind = "mem" => regs' = Run(code, regs) /\ mem' = <<EA(o, Run(code, regs)), Val(opi)>>
              /\ o.kind \notin {"reg", "mem"} => regs' = regs
              /\ o.kind # "mem" => mem' = mem
         /\ ~stat.need_init => regs' = regs /\ mem' = mem
<1>1. /\ DOMAIN cur' = DOMAIN cur /\ cur'.form = cur.form /\ cur'.init = cur.init
      /\ cur'.implied = cur.implied /\ cur'.opnds = Append(cur.opnds, o)
      /\ cur'.reqs = cur.reqs \cup (IF stat.need_init /\ requests THEN {[opnd |-> opi, opi |-> opi]} ELSE {})
  <2>1. CASE stat.need_init /\ requests
    <3>1. cur' = [[cur EXCEPT !.reqs = @ \cup {[opnd |-> opi, opi |-> opi]}] EXCEPT !.opnds = Append(@, o)]
      BY <2>1 DEF Generated, Request
    <3>2. /\ DOMAIN cur' = DOMAIN cur /\ cur'.form = cur.form /\ cur'.init = cur.init
          /\ cur'.implied = cur.implied /\ cur'.opnds = Append(cur.opnds, o)
          /\ cur'.reqs = cur.reqs \cup {[opnd |-> opi, opi |-> opi]}
      BY <3>1, Zenon
    <3> QED BY <2>1, <3>2, Zenon
  <2>2. CASE ~(stat.need_init /\ requests)
    <3>1. cur' = [cur EXCEPT !.opnds = Append(@, o)]
      BY <2>2 DEF Generated
    <3>2. /\ DOMAIN cur' = DOMAIN cur /\ cur'.form = cur.form /\ cur'.init = cur.init
          /\ cur'.implied = cur.implied /\ cur'.opnds = Append(cur.opnds, o) /\ cur'.reqs = cur.reqs
      BY <3>1, Zenon
    <3>3. cur'.reqs = cur.reqs \cup {}
      BY <3>2
    <3> QED BY <2>2, <3>2, <3>3, Zenon
  <2> QED BY <2>1, <2>2
<1>2. ASSUME stat.need_init
      PROVE  /\ o.kind = "reg" => regs' = [regs EXCEPT ![o.reg] = Val(opi)]
             /\ o.kind = "mem" => regs' = Run(code, regs) /\ mem' = <<EA(o, Run(code, regs)), Val(opi)>>
             /\ o.kind \notin {"reg", "mem"} => regs' = regs
             /\ o.kind # "mem" => mem' = mem
  <2>1. init_opnd(o, opi, code)
    BY <1>2 DEF Generated
  <2> QED BY <2>1, Zenon DEF init_opnd
<1>3. ASSUME ~stat.need_init
      PROVE  regs' = regs /\ mem' = mem
  BY <1>3 DEF Generated
<1> QED BY <1>1, <1>2, <1>3

\* The fields of the state after an operand has been drawn.
LEMMA DrawnIs ==
  ASSUME StatTyped(stat), NEW d
  PROVE  /\ DOMAIN Drawn(d) = DOMAIN stat /\ Drawn(d).opcode = stat.opcode /\ Drawn(d).need_init = stat.need_init
         /\ Drawn(d).opi = OpiAfter(d.opnd)
         /\ Drawn(d).init_mem_addr = IF d.opnd.kind = "mem" THEN d.code ELSE stat.init_mem_addr
         /\ Drawn(d).has_mem_opnd = (stat.has_mem_opnd \/ d.code # << >>)
<1>1. DOMAIN stat = {"opcode", "need_init", "opi", "has_mem_opnd", "init_mem_addr"}
  BY DEF StatTyped
<1>2. Drawn(d) = [stat EXCEPT !.opi = OpiAfter(d.opnd),
                              !.init_mem_addr = IF d.opnd.kind = "mem" THEN d.code ELSE @,
                              !.has_mem_opnd = @ \/ d.code # << >>]
  BY DEF Drawn
<1> QED BY <1>1, <1>2, Zenon

\* An instruction gets one more operand.
LEMMA CurGrows ==
  ASSUME NEW ph, NEW st, NEW cu, CurTyped(ph, st, cu), ph # "idle", Len(cu.opnds) < Len(cu.form.opnds),
         NEW o, IsOpnd(o), NEW sv, sv.opcode = st.opcode,
         NEW cv, DOMAIN cv = DOMAIN cu, cv.form = cu.form, cv.implied = cu.implied, cv.opnds = Append(cu.opnds, o)
  PROVE  /\ CurTyped(ph, sv, cv)
         /\ Len(cu.opnds) \in 0..3 /\ Len(cv.opnds) = Len(cu.opnds) + 1
         /\ cv.opnds[Len(cu.opnds) + 1] = o /\ \A k \in 1..Len(cu.opnds) : cv.opnds[k] = cu.opnds[k]
<1>1. PICK S : cu.opnds \in Seq(S)
  BY DEF CurTyped
<1>2. cu.form \in Forms /\ Len(cu.form.opnds) <= 4 /\ Len(cu.form.opnds) \in Nat
  <2>1. cu.form \in Forms
    BY DEF CurTyped
  <2>2. cu.form.opnds \in Seq(Kinds) /\ Len(cu.form.opnds) <= 4
    BY <2>1, OpndGenAssumption DEF OpndGenAssumption
  <2> QED BY <2>1, <2>2
<1>3. cu.opnds \in Seq(S \cup {o}) /\ Append(cu.opnds, o) \in Seq(S \cup {o})
  BY <1>1
<1>4. /\ Len(cu.opnds) \in 0..3 /\ Len(cv.opnds) = Len(cu.opnds) + 1
      /\ cv.opnds[Len(cu.opnds) + 1] = o /\ \A k \in 1..Len(cu.opnds) : cv.opnds[k] = cu.opnds[k]
  <2>1. Len(cu.opnds) \in Nat /\ DOMAIN cu.opnds = 1..Len(cu.opnds)
    BY <1>1
  <2>2. Len(cu.opnds) \in 0..3
    <3>1. \A n, m \in Nat : n < m /\ m <= 4 => n \in 0..3
      OBVIOUS
    <3> QED BY <1>2, <2>1, <3>1, Zenon
  <2>3. Len(Append(cu.opnds, o)) = Len(cu.opnds) + 1
    BY <1>3
  <2>4. /\ Append(cu.opnds, o)[Len(cu.opnds) + 1] = o
        /\ \A k \in 1..Len(cu.opnds) : Append(cu.opnds, o)[k] = cu.opnds[k]
    BY <1>3
  <2> QED BY <2>2, <2>3, <2>4
<1>5. \A k \in 1..Len(cv.opnds) : IsOpnd(cv.opnds[k])
  <2>1. \A k \in 1..Len(cv.opnds) : k \in 1..Len(cu.opnds) \/ k = Len(cu.opnds) + 1
    BY <1>4
  <2> QED BY <1>4, <2>1 DEF CurTyped
<1>6. Len(cv.opnds) <= Len(cv.form.opnds)
  BY <1>2, <1>4
<1>7. cv.opnds \in Seq(S \cup {o})
  BY <1>3
<1> QED BY <1>4, <1>5, <1>6, <1>7 DEF CurTyped

\* Types after an operand, drawn or of a variable.
LEMMA GeneratedTyped ==
  ASSUME Typed, MoreOperands, NEW o, IsOpnd(o), NEW code, o.kind = "mem" => SetsUp(code, o),
         NEW requests \in BOOLEAN, Generated(o, Len(cur.opnds), code, requests),
         phase' = phase, StatTyped(stat'), stat'.opcode = stat.opcode
  PROVE  regs' \in [RegNames -> Words] /\ mem'[1] \in Words /\ mem'[2] \in Words /\ CurTyped(phase, stat', cur')
<1>1. /\ phase # "idle" /\ Len(cur.opnds) < Len(cur.form.opnds) /\ CurTyped(phase, stat, cur)
      /\ DOMAIN cur = {"form", "opnds", "init", "reqs", "implied"}
      /\ regs \in [RegNames -> Words] /\ mem[1] \in Words /\ mem[2] \in Words
      /\ stat.need_init \in BOOLEAN
  BY DEF MoreOperands, Typed, CurTyped, StatTyped
<1> DEFINE opi == Len(cur.opnds)
<1> HIDE DEF opi
<1>2. /\ DOMAIN cur' = DOMAIN cur /\ cur'.form = cur.form /\ cur'.implied = cur.implied
      /\ cur'.opnds = Append(cur.opnds, o)
      /\ stat.need_init =>
              /\ o.kind = "reg" => regs' = [regs EXCEPT ![o.reg] = Val(opi)]
              /\ o.kind = "mem" => regs' = Run(code, regs) /\ mem' = <<EA(o, Run(code, regs)), Val(opi)>>
              /\ o.kind \notin {"reg", "mem"} => regs' = regs
              /\ o.kind # "mem" => mem' = mem
      /\ ~stat.need_init => regs' = regs /\ mem' = mem
  BY <1>1, GeneratedIs DEF opi
<1>3. CurTyped(phase, stat', cur') /\ opi \in 0..3
  BY <1>1, <1>2, CurGrows DEF opi
<1>4. Val(opi) \in Words /\ Words \subseteq Int
  BY <1>3, WordFacts
<1>5. CASE stat.need_init /\ o.kind = "reg"
  <2>1. o.reg \in RegNames
    BY <1>5, OpndFacts
  <2> QED BY <1>1, <1>2, <1>3, <1>4, <1>5, <2>1
<1>6. CASE stat.need_init /\ o.kind = "mem"
  <2>1. CodeTyped(code) /\ o.addr \in Words /\ EA(o, Run(code, regs)) = o.addr
    BY <1>1, <1>4, <1>6 DEF SetsUp
  <2>2. Run(code, regs) \in [RegNames -> Words]
    BY <1>1, <2>1, RunTyped DEF CodeTyped
  <2>3. mem' = <<o.addr, Val(opi)>>
    BY <1>2, <1>6, <2>1
  <2> QED BY <1>2, <1>3, <1>4, <1>6, <2>1, <2>2, <2>3
<1>7. CASE ~stat.need_init \/ o.kind \notin {"reg", "mem"}
  BY <1>1, <1>2, <1>3, <1>7
<1> QED BY <1>1, <1>5, <1>6, <1>7

\* Forms and the kinds of their operands.
LEMMA FormFacts ==
  ASSUME NEW f \in Forms
  PROVE  /\ f.opnds \in Seq(Kinds) /\ Len(f.opnds) \in 0..4 /\ f.implied \in Seq(RegNames)
         /\ f.lea \in Seq(GPRs) /\ DOMAIN f.lea \subseteq Sections /\ f.sse \in BOOLEAN
         /\ \A k \in 1..Len(f.opnds) : f.opnds[k] \in Kinds
         /\ \A k \in 1..Len(f.implied) : f.implied[k] \in RegNames
<1>1. /\ f.opnds \in Seq(Kinds) /\ Len(f.opnds) <= 4 /\ f.implied \in Seq(RegNames)
      /\ f.lea \in Seq(GPRs) /\ DOMAIN f.lea \subseteq Sections /\ f.sse \in BOOLEAN
  BY OpndGenAssumption DEF OpndGenAssumption, RegNames
<1>2. Len(f.opnds) \in 0..4
  <2>1. \A n \in Nat : n <= 4 => n \in 0..4
    OBVIOUS
  <2>2. Len(f.opnds) \in Nat
    BY <1>1
  <2> QED BY <1>1, <2>1, <2>2, Zenon
<1> QED BY <1>1, <1>2

\* The next operand has one of the kinds there are.
LEMMA KindIs ==
  ASSUME Typed, MoreOperands
  PROVE  /\ Kind \in Kinds /\ Len(cur.opnds) + 1 \in 1..Len(cur.form.opnds) /\ stat.opcode.sse \in BOOLEAN
         /\ Len(cur.opnds) \in Nat /\ KindOf(Kind) \in OpndTypes
<1>1. PICK S : cur.opnds \in Seq(S)
  BY DEF Typed, CurTyped
<1>2. cur.form \in Forms /\ stat.opcode \in Forms /\ Len(cur.opnds) < Len(cur.form.opnds)
  BY DEF Typed, CurTyped, MoreOperands
<1>3. Len(cur.opnds) \in Nat /\ Len(cur.form.opnds) \in 0..4 /\ \A k \in 1..Len(cur.form.opnds) : cur.form.opnds[k] \in Kinds
  BY <1>1, <1>2, FormFacts
<1>4. Len(cur.opnds) + 1 \in 1..Len(cur.form.opnds)
  BY <1>2, <1>3
<1>5. stat.opcode.sse \in BOOLEAN
  BY <1>2, FormFacts
<1>6. Kind \in Kinds
  BY <1>3, <1>4 DEF Kind
<1>7. KindOf(Kind) \in OpndTypes
  BY <1>6, OpndGenAssumption DEF OpndGenAssumption, KindOf, Kinds
<1> QED BY <1>3, <1>4, <1>5, <1>6, <1>7

\* Everything has its type at the start.
LEMMA InitTyped ==
  ASSUME Init
  PROVE  Typed
<1>1. CodeTyped(<< >>)
  BY DEF CodeTyped
<1>2. StatTyped(stat)
  BY <1>1 DEF Init, StatTyped
<1>3. VarsTyped(var)
  <2>1. var = [v \in Vars |-> [valid |-> FALSE, opnd |-> None, is_mem_opnd |-> FALSE, init_mem_addr |-> << >>]]
    BY DEF Init
  <2>2. IsOpnd(None) /\ Len(<< >>) <= 2
    BY DEF IsOpnd, Opnds
  <2>3. ASSUME NEW v \in Vars
        PROVE  VarTyped(var[v])
    <3>1. var[v] = [valid |-> FALSE, opnd |-> None, is_mem_opnd |-> FALSE, init_mem_addr |-> << >>]
      BY <2>1
    <3> QED BY <2>2, <3>1 DEF VarTyped, VarFields
  <2> QED BY <2>1, <2>3 DEF VarsTyped
<1>4. CurTyped(phase, stat, cur)
  <2>1. cur.opnds \in Seq({}) /\ Len(cur.opnds) = 0
    BY DEF Init, Idle
  <2> QED BY <2>1 DEF Init, Idle, CurTyped
<1>5. regs \in [RegNames -> Words] /\ mem[1] \in Words /\ mem[2] \in Words
  BY WordFacts DEF Init, RegNames
<1>6. elems \in 0..MaxElems
  BY OpndGenAssumption DEF OpndGenAssumption, Init
<1> QED BY <1>2, <1>3, <1>4, <1>5, <1>6 DEF Init, Typed

\* Types at the start of an element, of a loop or of a new round, and at the end of a loop.
LEMMA WalkTyped ==
  ASSUME Typed, (\E f \in Forms : (\E init \in BOOLEAN : WalkElem(f, init)) \/ walkSelBlk(f))
                \/ BeginLoop \/ EndLoop \/ blk_invalid_var_all
  PROVE  Typed'
<1>0. /\ DOMAIN stat = {"opcode", "need_init", "opi", "has_mem_opnd", "init_mem_addr"}
      /\ \A v \in Vars : DOMAIN var[v] = VarFields
      /\ MaxElems \in Nat
  BY OpndGenAssumption DEF Typed, StatTyped, VarsTyped, VarTyped, OpndGenAssumption
<1>e. elems < MaxElems => elems + 1 \in 0..MaxElems
  BY <1>0 DEF Typed
<1>1. ASSUME NEW form \in Forms, NEW init \in BOOLEAN, WalkElem(form, init) \/ walkSelBlk(form)
      PROVE  Typed'
  <2>1. /\ phase' = "opnds" /\ elems' \in 0..MaxElems
        /\ UNCHANGED <<lock_reg_cases, var, regs, mem, looping>>
    BY <1>1, <1>e DEF WalkElem, walkSelBlk, Walks, WalkLeft
  <2>2. /\ cur'.form = form /\ cur'.opnds = << >> /\ cur'.implied = 0
        /\ DOMAIN cur' = {"form", "opnds", "init", "reqs", "implied"}
    BY <1>1 DEF WalkElem, walkSelBlk, Idle
  <2>3. StatTyped(stat') /\ stat'.opcode \in Forms
    <3>1. CASE WalkElem(form, init)
      <4>1. stat' = [stat EXCEPT !.opcode = form, !.need_init = init, !.has_mem_opnd = FALSE]
        BY <3>1 DEF WalkElem
      <4>2. /\ DOMAIN stat' = DOMAIN stat /\ stat'.opcode = form /\ stat'.need_init = init /\ stat'.has_mem_opnd = FALSE
            /\ stat'.opi = stat.opi /\ stat'.init_mem_addr = stat.init_mem_addr
        BY <1>0, <4>1, Zenon
      <4> QED BY <4>2 DEF Typed, StatTyped
    <3>2. CASE walkSelBlk(form)
      <4>1. stat' = [stat EXCEPT !.opcode = IF @ = None THEN form ELSE @]
        BY <3>2 DEF walkSelBlk
      <4>2. /\ DOMAIN stat' = DOMAIN stat /\ stat'.opcode = (IF stat.opcode = None THEN form ELSE stat.opcode)
            /\ stat'.need_init = stat.need_init /\ stat'.has_mem_opnd = stat.has_mem_opnd
            /\ stat'.opi = stat.opi /\ stat'.init_mem_addr = stat.init_mem_addr
        BY <1>0, <4>1, Zenon
      <4> QED BY <4>2 DEF Typed, StatTyped
    <3> QED BY <1>1, <3>1, <3>2
  <2>4. CurTyped(phase', stat', cur')
    <3>1. cur'.opnds \in Seq({}) /\ Len(cur'.opnds) = 0 /\ Len(form.opnds) \in 0..4
      BY <2>2, FormFacts
    <3>2. Len(cur'.opnds) <= Len(cur'.form.opnds)
      BY <2>2, <3>1
    <3> QED BY <2>2, <2>3, <3>1, <3>2 DEF CurTyped
  <2> QED BY <2>1, <2>3, <2>4 DEF Typed
<1>2. CASE BeginLoop
  <2>1. /\ lock_reg_cases' = [lock_reg_cases EXCEPT !["C"] = "LOOP"] /\ regs' = [regs EXCEPT !["C"] = Counter]
        /\ looping' = TRUE /\ elems' \in 0..MaxElems /\ UNCHANGED <<phase, stat, var, cur, mem>>
    BY <1>2, <1>e DEF BeginLoop, WalkLeft
  <2>2. lock_reg_cases' \in [GPRs -> {"NULL", "LOOP"}] /\ regs' \in [RegNames -> Words]
    BY <2>1, WordFacts DEF Typed
  <2> QED BY <2>1, <2>2 DEF Typed
<1>3. CASE EndLoop
  <2>1. regs' = [regs EXCEPT !["C"] = Junk] /\ looping' = FALSE
        /\ UNCHANGED <<phase, elems, stat, lock_reg_cases, var, cur, mem>>
    BY <1>3 DEF EndLoop
  <2>2. regs' \in [RegNames -> Words]
    BY <2>1, WordFacts DEF Typed
  <2> QED BY <2>1, <2>2 DEF Typed
<1>4. CASE blk_invalid_var_all
  <2>1. UNCHANGED <<phase, elems, stat, lock_reg_cases, cur, regs, mem, looping>>
    BY <1>4 DEF blk_invalid_var_all
  <2>2. DOMAIN var' = Vars
    BY <1>0, <1>4, InvalidVars
  <2>3. VarsTyped(var')
    <3>1. ASSUME NEW v \in Vars
          PROVE  VarTyped(var'[v])
      <4>1. \/ var'[v] = var[v]
            \/ /\ DOMAIN var'[v] = VarFields /\ ~var'[v].valid /\ var'[v].valid \in BOOLEAN
               /\ var'[v].opnd = None /\ var'[v].init_mem_addr = << >>
               /\ var'[v].is_mem_opnd = var[v].is_mem_opnd
        BY <1>0, <1>4, InvalidVars, Zenon
      <4>2. VarTyped(var[v])
        BY DEF Typed, VarsTyped
      <4>3. Len(<< >>) <= 2 /\ IsOpnd(None)
        BY DEF IsOpnd, Opnds
      <4> QED BY <4>1, <4>2, <4>3 DEF VarTyped
    <3> QED BY <2>2, <3>1 DEF VarsTyped
  <2> QED BY <2>1, <2>3 DEF Typed
<1> QED BY <1>1, <1>2, <1>3, <1>4

\* Types when an operand is drawn or used again.
LEMMA OperandTyped ==
  ASSUME Typed, gen_operand \/ gen_operand_new_var \/ gen_operand_var
  PROVE  Typed'
<1>1. /\ MoreOperands /\ phase' = phase /\ UNCHANGED <<elems, lock_reg_cases, looping>> /\ StatTyped(stat)
  BY DEF gen_operand, gen_operand_new_var, gen_operand_var, Typed
<1>2. Kind \in Kinds /\ KindOf(Kind) \in OpndTypes /\ stat.opcode.sse \in BOOLEAN /\ Len(cur.opnds) \in Nat
  BY <1>1, KindIs
<1>3. \A o : OpiAfter(o) \in 0..4
  <2>1. Len(cur.form.opnds) \in 0..4 /\ Len(cur.opnds) < Len(cur.form.opnds)
    BY <1>1, FormFacts DEF Typed, CurTyped, MoreOperands
  <2>2. Len(cur.opnds) \in 0..4
    <3>1. \A n \in Nat, m \in 0..4 : n < m => n \in 0..4
      OBVIOUS
    <3> QED BY <1>2, <2>1, <3>1, Zenon
  <2> QED BY <2>2 DEF OpiAfter
<1>4. ASSUME NEW o, IsOpnd(o), NEW code, o.kind = "mem" => SetsUp(code, o),
             NEW requests \in BOOLEAN, Generated(o, Len(cur.opnds), code, requests),
             StatTyped(stat'), stat'.opcode = stat.opcode, VarsTyped(var')
      PROVE  Typed'
  <2>1. regs' \in [RegNames -> Words] /\ mem'[1] \in Words /\ mem'[2] \in Words /\ CurTyped(phase, stat', cur')
    BY <1>1, <1>4, GeneratedTyped
  <2> QED BY <1>1, <1>4, <2>1 DEF Typed
<1>5. CASE gen_operand
  <2>1. PICK d \in gen_operand_internal(Kind) :
          stat' = Drawn(d) /\ Generated(d.opnd, Len(cur.opnds), Drawn(d).init_mem_addr, TRUE)
    BY <1>5 DEF gen_operand
  <2>2. Kind \in OpndTypes /\ var' = var
    BY <1>2, <1>5 DEF gen_operand, Kinds
  <2>3. /\ IsOpnd(d.opnd) /\ (d.opnd.kind = "mem" => SetsUp(d.code, d.opnd))
    BY <1>2, <2>1, <2>2, OperandDrawn
  <2>4. /\ DOMAIN stat' = DOMAIN stat /\ stat'.opcode = stat.opcode /\ stat'.need_init = stat.need_init
        /\ stat'.opi = OpiAfter(d.opnd) /\ Drawn(d).init_mem_addr = stat'.init_mem_addr
        /\ stat'.init_mem_addr = IF d.opnd.kind = "mem" THEN d.code ELSE stat.init_mem_addr
        /\ stat'.has_mem_opnd = (stat.has_mem_opnd \/ d.code # << >>)
    BY <1>1, <2>1, DrawnIs
  <2>5. StatTyped(stat')
    BY <1>1, <1>3, <2>3, <2>4 DEF StatTyped, SetsUp
  <2>6. d.opnd.kind = "mem" => SetsUp(Drawn(d).init_mem_addr, d.opnd)
    BY <2>3, <2>4
  <2> QED BY <1>4, <2>1, <2>2, <2>3, <2>4, <2>5, <2>6 DEF Typed
<1>6. CASE gen_operand_new_var
  <2>1. PICK d \in gen_operand_internal(KindOf(Kind)) :
          /\ stat' = Drawn(d) /\ Generated(d.opnd, Len(cur.opnds), d.code, TRUE)
          /\ var' = [var EXCEPT ![Kind] = [valid |-> TRUE, opnd |-> d.opnd, is_mem_opnd |-> stat'.has_mem_opnd,
                                          init_mem_addr |-> d.code]]
    BY <1>6 DEF gen_operand_new_var
  <2>2. /\ IsOpnd(d.opnd) /\ (d.opnd.kind = "mem" => SetsUp(d.code, d.opnd))
        /\ d.opnd.kind # "mem" => d.code = << >>
    <3>1. /\ IsOpnd(d.opnd)
          /\ \/ d.opnd.kind = "mem" /\ SetsUp(d.code, d.opnd)
             \/ d.code = << >> /\ d.opnd.kind # "mem"
      BY <1>2, <2>1, OperandDrawn
    <3> QED BY <3>1
  <2>4. /\ DOMAIN stat' = DOMAIN stat /\ stat'.opcode = stat.opcode /\ stat'.need_init = stat.need_init
        /\ stat'.opi = OpiAfter(d.opnd)
        /\ stat'.init_mem_addr = IF d.opnd.kind = "mem" THEN d.code ELSE stat.init_mem_addr
        /\ stat'.has_mem_opnd = (stat.has_mem_opnd \/ d.code # << >>)
    BY <1>1, <2>1, DrawnIs
  <2>5. StatTyped(stat')
    BY <1>1, <1>3, <2>2, <2>4 DEF StatTyped, SetsUp
  <2> DEFINE x == [valid |-> TRUE, opnd |-> d.opnd, is_mem_opnd |-> stat'.has_mem_opnd, init_mem_addr |-> d.code]
  <2>6. VarTyped(x)
    <3>1. \A n \in 0..2 : n <= 2
      OBVIOUS
    <3>2. Len(d.code) <= 2
      <4>1. CASE d.opnd.kind = "mem"
        BY <2>2, <3>1, <4>1, Zenon DEF CodeTyped, SetsUp
      <4>2. CASE d.opnd.kind # "mem"
        BY <2>2, <4>2
      <4> QED BY <4>1, <4>2
    <3> QED BY <2>2, <2>5, <3>2 DEF VarTyped, VarFields, StatTyped
  <2>7. VarsTyped(var')
    <3>1. Kind \in Vars /\ DOMAIN var = Vars /\ var' = [var EXCEPT ![Kind] = x]
      BY <1>6, <2>1 DEF gen_operand_new_var, Typed, VarsTyped
    <3> HIDE DEF x
    <3>2. DOMAIN var' = Vars /\ var'[Kind] = x /\ \A v \in Vars : v # Kind => var'[v] = var[v]
      BY <3>1, NewVar
    <3>3. \A v \in Vars : VarTyped(var[v])
      BY DEF Typed, VarsTyped
    <3> QED BY <2>6, <3>2, <3>3 DEF VarsTyped
  <2> HIDE DEF x
  <2> QED BY <1>4, <2>1, <2>2, <2>4, <2>5, <2>7
<1>7. CASE gen_operand_var
  <2> DEFINE va == var[Kind]
  <2>1. /\ Kind \in Vars /\ va.valid /\ var' = var
        /\ stat' = [stat EXCEPT !.opi = OpiAfter(va.opnd), !.has_mem_opnd = va.is_mem_opnd]
        /\ Generated(va.opnd, Len(cur.opnds), va.init_mem_addr, va.opnd.kind # "imm")
    BY <1>7 DEF gen_operand_var
  <2>3. VarsTyped(var) /\ VarTyped(va)
    BY <2>1 DEF Typed, VarsTyped
  <2> HIDE DEF va
  <2>2. /\ DOMAIN stat' = DOMAIN stat /\ stat'.opcode = stat.opcode /\ stat'.need_init = stat.need_init
        /\ stat'.opi = OpiAfter(va.opnd)
        /\ stat'.init_mem_addr = stat.init_mem_addr /\ stat'.has_mem_opnd = va.is_mem_opnd
    <3>1. DOMAIN stat = {"opcode", "need_init", "opi", "has_mem_opnd", "init_mem_addr"}
      BY <1>1 DEF StatTyped
    <3> QED BY <2>1, <3>1, Zenon
  <2>4. StatTyped(stat')
    BY <1>1, <1>3, <2>2, <2>3 DEF StatTyped, VarTyped
  <2>5. IsOpnd(va.opnd) /\ (va.opnd.kind = "mem" => SetsUp(va.init_mem_addr, va.opnd))
    BY <2>1, <2>3 DEF VarTyped
  <2> QED BY <1>4, <2>1, <2>2, <2>3, <2>4, <2>5
<1> QED BY <1>5, <1>6, <1>7

\* The code that points a string instruction at its data loads labels.
LEMMA LeaCode ==
  ASSUME NEW f \in Forms, NEW code, code = [k \in DOMAIN f.lea |-> <<f.lea[k], Label(k)>>]
  PROVE  /\ \E n \in Nat : DOMAIN code = 1..n
         /\ \A k \in DOMAIN code : code[k][1] = f.lea[k] /\ code[k][2] \in Words
<1>1. f.lea \in Seq(GPRs) /\ DOMAIN f.lea \subseteq Sections
  BY FormFacts
<1>2. DOMAIN code = 1..Len(f.lea) /\ Len(f.lea) \in Nat
  BY <1>1
<1>3. ASSUME NEW k \in DOMAIN code
      PROVE  code[k][1] = f.lea[k] /\ code[k][2] \in Words
  <2>1. code[k] = <<f.lea[k], Label(k)>> /\ k \in Sections
    BY <1>1, <1>2
  <2>2. Label(k) \in Words
    BY <2>1, SectionFacts
  <2> QED BY <2>1, <2>2
<1> QED BY <1>2, <1>3

\* Types in the rest of one_insn_gen.
LEMMA InsnTyped ==
  ASSUME Typed, EndOperands \/ init_specific_register \/ EndImplied \/ InsertInsn \/ EndElem
  PROVE  Typed'
<1>0. /\ DOMAIN stat = {"opcode", "need_init", "opi", "has_mem_opnd", "init_mem_addr"}
      /\ DOMAIN cur = {"form", "opnds", "init", "reqs", "implied"}
      /\ StatTyped(stat) /\ CurTyped(phase, stat, cur) /\ regs \in [RegNames -> Words]
  BY DEF Typed, StatTyped, CurTyped
<1>1. CASE EndOperands
  <2>1. /\ phase = "opnds" /\ phase' \in {"implied", "insert"}
        /\ stat' = [stat EXCEPT !.opi = Len(cur.opnds)] /\ Len(cur.opnds) = Len(cur.form.opnds)
        /\ UNCHANGED <<elems, lock_reg_cases, var, cur, regs, mem, looping>>
    BY <1>1 DEF EndOperands
  <2>2. /\ DOMAIN stat' = DOMAIN stat /\ stat'.opcode = stat.opcode /\ stat'.need_init = stat.need_init
        /\ stat'.opi = Len(cur.opnds) /\ stat'.init_mem_addr = stat.init_mem_addr /\ stat'.has_mem_opnd = stat.has_mem_opnd
    BY <1>0, <2>1, Zenon
  <2>3. Len(cur.opnds) \in 0..4
    BY <1>0, <2>1, FormFacts DEF CurTyped
  <2>4. StatTyped(stat') /\ CurTyped(phase', stat', cur')
    BY <1>0, <2>1, <2>2, <2>3 DEF StatTyped, CurTyped
  <2> QED BY <2>1, <2>4 DEF Typed
<1>2. CASE init_specific_register
  <2> DEFINE r == cur.form.implied[cur.implied + 1]
  <2>1. /\ phase = "implied" /\ cur.implied < Len(cur.form.implied)
        /\ regs' = [regs EXCEPT ![r] = Val(stat.opi)]
        /\ stat' = [stat EXCEPT !.opi = IF r = "X" THEN @ ELSE 2]
        /\ cur' = [[cur EXCEPT !.reqs = @ \cup {[opnd |-> Len(cur.opnds) + cur.implied, opi |-> stat.opi]}]
                     EXCEPT !.implied = @ + 1]
        /\ UNCHANGED <<phase, elems, lock_reg_cases, var, mem, looping>>
    BY <1>2 DEF init_specific_register, Request
  <2>2. r \in RegNames
    <3>1. cur.form \in Forms /\ cur.implied \in Nat
      BY <1>0, <2>1 DEF CurTyped
    <3>2. cur.form.implied \in Seq(RegNames)
      BY <3>1, FormFacts
    <3>3. cur.implied + 1 \in 1..Len(cur.form.implied)
      BY <2>1, <3>1, <3>2
    <3> QED BY <3>2, <3>3
  <2> HIDE DEF r
  <2>3. /\ DOMAIN stat' = DOMAIN stat /\ stat'.opcode = stat.opcode /\ stat'.need_init = stat.need_init
        /\ stat'.opi = (IF r = "X" THEN stat.opi ELSE 2) /\ stat'.init_mem_addr = stat.init_mem_addr
        /\ stat'.has_mem_opnd = stat.has_mem_opnd
    BY <1>0, <2>1, Zenon
  <2>4. /\ DOMAIN cur' = DOMAIN cur /\ cur'.form = cur.form /\ cur'.opnds = cur.opnds /\ cur'.implied = cur.implied + 1
    BY <1>0, <2>1, Zenon
  <2>5. StatTyped(stat')
    BY <1>0, <2>3 DEF StatTyped
  <2>6. CurTyped(phase', stat', cur')
    <3>1. cur'.implied \in Nat
      BY <1>0, <2>4 DEF CurTyped
    <3> QED BY <1>0, <2>1, <2>3, <2>4, <3>1 DEF CurTyped
  <2>7. regs' \in [RegNames -> Words]
    <3>1. Val(stat.opi) \in Words
      BY <1>0, WordFacts DEF StatTyped
    <3> QED BY <1>0, <2>1, <2>2, <3>1
  <2> QED BY <2>1, <2>5, <2>6, <2>7 DEF Typed
<1>3. CASE EndImplied
  <2> DEFINE code == [k \in DOMAIN cur.form.lea |-> <<cur.form.lea[k], Label(k)>>]
  <2>1. /\ phase = "implied" /\ regs' = Run(code, regs) /\ phase' = "insert"
        /\ UNCHANGED <<elems, stat, lock_reg_cases, var, cur, mem, looping>>
    BY <1>3 DEF EndImplied
  <2>2. cur.form \in Forms /\ CurTyped(phase', stat, cur)
    BY <1>0, <2>1 DEF CurTyped
  <2>3. (\E n \in Nat : DOMAIN code = 1..n) /\ \A k \in DOMAIN code : code[k][2] \in Words
    BY <2>2, LeaCode
  <2> HIDE DEF code
  <2>4. regs' \in [RegNames -> Words]
    BY <1>0, <2>1, <2>3, RunTyped
  <2> QED BY <2>1, <2>2, <2>4 DEF Typed
<1>4. CASE InsertInsn
  <2>1. /\ phase = "insert" /\ phase' = "inserted"
        /\ regs' = IF stat.has_mem_opnd THEN Run(stat.init_mem_addr, regs) ELSE regs
        /\ UNCHANGED <<elems, stat, lock_reg_cases, var, cur, mem, looping>>
    BY <1>4 DEF InsertInsn
  <2>2. regs' \in [RegNames -> Words]
    BY <1>0, <2>1, RunTyped DEF StatTyped, CodeTyped
  <2>3. CurTyped(phase', stat, cur)
    BY <1>0, <2>1 DEF CurTyped
  <2> QED BY <2>1, <2>2, <2>3 DEF Typed
<1>5. CASE EndElem
  <2>1. /\ stat' = [stat EXCEPT !.need_init = FALSE] /\ cur' = Idle /\ phase' = "idle" /\ mem' = <<Junk, Junk>>
        /\ UNCHANGED <<elems, lock_reg_cases, var, looping>>
    BY <1>5 DEF EndElem
  <2>2. /\ DOMAIN regs' = DOMAIN regs /\ \A r \in DOMAIN regs : regs'[r] \in {Counter, Junk}
        /\ regs' \in [DOMAIN regs -> {Counter, Junk}]
    BY <1>5 DEF EndElem
  <2>3. regs' \in [RegNames -> Words] /\ mem'[1] \in Words /\ mem'[2] \in Words
    BY <1>0, <2>1, <2>2, WordFacts
  <2>4. /\ DOMAIN stat' = DOMAIN stat /\ stat'.opcode = stat.opcode /\ stat'.need_init = FALSE
        /\ stat'.opi = stat.opi /\ stat'.init_mem_addr = stat.init_mem_addr /\ stat'.has_mem_opnd = stat.has_mem_opnd
    BY <1>0, <2>1, Zenon
  <2>5. StatTyped(stat')
    BY <1>0, <2>4 DEF StatTyped
  <2>6. CurTyped(phase', stat', cur')
    <3>1. cur'.opnds \in Seq({}) /\ Len(cur'.opnds) = 0
      BY <2>1 DEF Idle
    <3> QED BY <2>1, <3>1 DEF Idle, CurTyped
  <2> QED BY <2>1, <2>3, <2>5, <2>6 DEF Typed
<1> QED BY <1>1, <1>2, <1>3, <1>4, <1>5

\* Types are kept.
LEMMA TypedAlways ==
  Spec => []Typed
<1>1. Init => Typed
  BY InitTyped
<1>2. Typed /\ [Next]_vars => Typed'
  <2>1. ASSUME Typed, Next PROVE Typed'
    BY <2>1, WalkTyped, OperandTyped, InsnTyped DEF Next, Generate
  <2>2. ASSUME Typed, UNCHANGED vars PROVE Typed'
    BY <2>2 DEF Typed, vars
  <2> QED BY <2>1, <2>2
<1> QED BY <1>1, <1>2, PTL DEF Spec

\* The state keeps its types, whatever templates and instructions are like.
LEMMA TypesFollow ==
  Typed => TypeOK
<1> SUFFICES ASSUME Typed PROVE TypeOK
  OBVIOUS
<1>1. StatTyped(stat) /\ VarsTyped(var) /\ CurTyped(phase, stat, cur)
  BY DEF Typed
<1>2. Len(stat.init_mem_addr) <= 2
  <2>1. Len(stat.init_mem_addr) \in 0..2
    BY <1>1 DEF StatTyped, CodeTyped
  <2>2. \A n \in 0..2 : n <= 2
    OBVIOUS
  <2> QED BY <2>1, <2>2, Zenon
<1>3. \A i \in DOMAIN cur.opnds : IsOpnd(cur.opnds[i])
  <2>1. PICK S : cur.opnds \in Seq(S)
    BY <1>1 DEF CurTyped
  <2> QED BY <1>1, <2>1 DEF CurTyped
<1>4. {stat.need_init, stat.has_mem_opnd, looping} \subseteq BOOLEAN
  BY <1>1 DEF Typed, StatTyped
<1>5. ASSUME NEW v \in Vars
      PROVE  {var[v].valid, var[v].is_mem_opnd} \subseteq BOOLEAN /\ IsOpnd(var[v].opnd) /\ Len(var[v].init_mem_addr) <= 2
  <2>1. VarTyped(var[v])
    BY <1>1 DEF VarsTyped
  <2> QED BY <2>1 DEF VarTyped
<1> QED BY <1>1, <1>2, <1>3, <1>4, <1>5 DEF Typed, StatTyped, TypeOK, RegNames

\* LocksHold: the state keeps its types; no loop body that does not name ECX changes the
\* counter in it; and the loops of create_gpr_register and create_random_modrm that draw
\* until a register is not locked have one to find.
THEOREM LocksAlwaysHold ==
  ASSUME TidyTemplates, EnoughRegisters
  PROVE  Spec => []LocksHold
<1>1. TypeOK /\ LoopCounterKept /\ RetriesEnd => LocksHold
  BY DEF LocksHold
<1>2. Spec => []Typed
  BY TypedAlways
<1>3. Typed => TypeOK
  BY TypesFollow
<1>4. Spec => []LoopCounterKept
  BY CounterSurvivesBody
<1>5. Spec => []RetriesEnd
  BY RegistersRemain
<1> QED BY <1>1, <1>2, <1>3, <1>4, <1>5, PTL

-----------------------------------------------------------------------------
(* Addresses.                                                              *)

\* What templates and instructions are further assumed to be: an instruction has one memory
\* operand at most, and none if it names a variable twice; between two uses of a memory variable
\* there is no other one, and a variable of another type that has its value is used apart from them;
\* a memory variable is used by SSE instructions only or by others only.
OneAddress ==
  /\ {"between", "beside"} \cap Liberties = {}
  /\ \A f \in Forms : \A i, j \in DOMAIN f.opnds :
       /\ KindOf(f.opnds[i]) \in MemKinds /\ KindOf(f.opnds[j]) \in MemKinds => i = j
       /\ f.opnds[i] \in Vars /\ f.opnds[j] = f.opnds[i] /\ i # j =>
            \A k \in DOMAIN f.opnds : KindOf(f.opnds[k]) \notin MemKinds
  /\ \A v \in Vars : KindOf(v) \in MemKinds =>
       \A f, g \in Forms : Names(f, v) /\ Names(g, v) => f.sse = g.sse

\* The address of a memory variable that has one is the one last set up, and aligned for its users.
VarKept(st, v, va) ==
  va.valid /\ va.opnd.kind = "mem" =>
    /\ KindOf(v) \in MemKinds
    /\ st.init_mem_addr = va.init_mem_addr /\ (va.init_mem_addr # << >> => va.is_mem_opnd)
    /\ \A f \in Forms : Names(f, v) /\ f.sse => Multiple(va.opnd.addr)

\* A variable with a value is apart from other memory operands: a memory variable in any instruction,
\* another one where it is still to be used, behind the first n operands.
VarApart(v, va, form, n) ==
  va.valid =>
    /\ va.opnd.kind = "mem" => ~OthersMayBeMemory(form, v)
    /\ \A i \in (n + 1)..Len(form.opnds) :
         form.opnds[i] = v /\ va.opnd.kind # "mem" => ~va.is_mem_opnd /\ ~OthersMayBeMemory(form, v)

\* A memory operand of the instruction is where one may be, and init_mem_addr
\* is the code that sets it up.
MemKept(st, cu) ==
  /\ \A k \in 1..Len(cu.opnds) : cu.opnds[k].kind = "mem" =>
       /\ KindOf(cu.form.opnds[k]) \in MemKinds /\ SetsUp(st.init_mem_addr, cu.opnds[k])
       /\ st.init_mem_addr # << >> => st.has_mem_opnd
       /\ cu.form.sse => Multiple(cu.opnds[k].addr)
  /\ st.has_mem_opnd => \E k \in 1..Len(cu.opnds) : cu.opnds[k].kind = "mem"

Addressed ==
  /\ Typed /\ \A v \in Vars : VarKept(stat, v, var[v])
  /\ phase # "idle" =>
       /\ stat.opcode = cur.form /\ cur.init = stat.need_init /\ MemKept(stat, cur)
       /\ \A v \in Vars : VarApart(v, var[v], cur.form, Len(cur.opnds))
  /\ phase = "inserted" =>
       \A k \in 1..Len(cur.opnds) : cur.opnds[k].kind = "mem" => EA(cur.opnds[k], regs) = cur.opnds[k].addr

\* Another operand of memory is one too many.
LEMMA OneMem ==
  ASSUME OneAddress, NEW st, NEW cu, cu.form \in Forms, MemKept(st, cu), Len(cu.opnds) \in Nat,
         Len(cu.opnds) + 1 \in 1..Len(cu.form.opnds), KindOf(cu.form.opnds[Len(cu.opnds) + 1]) \in MemKinds
  PROVE  /\ \A k \in 1..Len(cu.opnds) : cu.opnds[k].kind # "mem"
         /\ ~st.has_mem_opnd
<1> DEFINE n == Len(cu.opnds)
<1>1. cu.form.opnds \in Seq(Kinds)
  BY FormFacts
<1>2. DOMAIN cu.form.opnds = 1..Len(cu.form.opnds) /\ Len(cu.form.opnds) \in Nat
  BY <1>1
<1>3. ASSUME NEW k \in 1..n, cu.opnds[k].kind = "mem"
      PROVE  FALSE
  <2>1. KindOf(cu.form.opnds[k]) \in MemKinds
    BY <1>3 DEF MemKept
  <2> HIDE DEF n
  <2>2. k \in 1..Len(cu.form.opnds) /\ k # n + 1
    BY <1>2, <1>3 DEF n
  <2> QED BY <1>2, <2>1, <2>2 DEF OneAddress, n
<1> QED BY <1>3 DEF MemKept

\* Memory operands are set up after one more operand, given that the state kept the address
\* for another, or that this one came with it.
LEMMA MemGrows ==
  ASSUME OneAddress, NEW st, NEW cu, MemKept(st, cu), cu.form \in Forms, Len(cu.opnds) \in Nat,
         Len(cu.opnds) + 1 \in 1..Len(cu.form.opnds),
         NEW o, NEW sv, NEW cv, cv.form = cu.form,
         Len(cv.opnds) = Len(cu.opnds) + 1, cv.opnds[Len(cu.opnds) + 1] = o,
         \A k \in 1..Len(cu.opnds) : cv.opnds[k] = cu.opnds[k],
         \/ /\ o.kind = "mem" /\ KindOf(cu.form.opnds[Len(cu.opnds) + 1]) \in MemKinds
            /\ SetsUp(sv.init_mem_addr, o) /\ (sv.init_mem_addr # << >> => sv.has_mem_opnd)
            /\ cu.form.sse => Multiple(o.addr)
         \/ /\ o.kind # "mem" /\ sv.init_mem_addr = st.init_mem_addr
            /\ sv.has_mem_opnd = st.has_mem_opnd
  PROVE  MemKept(sv, cv)
<1> DEFINE n == Len(cu.opnds)
<1> HIDE DEF n
<1>1. \A k \in 1..(n + 1) : k \in 1..n \/ k = n + 1
  BY DEF n
<1>2. \A k \in 1..n : k \in 1..(n + 1)
  BY DEF n
<1>3. n + 1 \in 1..(n + 1)
  BY DEF n
<1>4. CASE o.kind = "mem"
  <2>1. /\ \A k \in 1..n : cu.opnds[k].kind # "mem"
        /\ ~st.has_mem_opnd
    BY <1>4, OneMem DEF n
  <2>2. \A k \in 1..(n + 1) : cv.opnds[k].kind = "mem" => k = n + 1
    BY <1>1, <2>1 DEF n
  <2> QED BY <1>3, <1>4, <2>2 DEF MemKept, n
<1>5. CASE o.kind # "mem"
  <2>1. \A k \in 1..(n + 1) : cv.opnds[k].kind = "mem" => k \in 1..n /\ cv.opnds[k] = cu.opnds[k]
    BY <1>1, <1>5 DEF n
  <2>2. /\ sv.init_mem_addr = st.init_mem_addr /\ sv.has_mem_opnd = st.has_mem_opnd
        /\ Len(cv.opnds) = n + 1 /\ \A k \in 1..n : cv.opnds[k] = cu.opnds[k]
    BY <1>5 DEF n
  <2>3. MemKept(st, cu)
    OBVIOUS
  <2> QED BY <1>2, <2>1, <2>2, <2>3, Zenon DEF MemKept, n
<1> QED BY <1>4, <1>5

\* No address is set up at the start.
LEMMA InitAddressed ==
  ASSUME Init
  PROVE  Addressed
<1>1. Typed
  BY InitTyped
<1>2. phase = "idle" /\ \A v \in Vars : ~var[v].valid
  BY DEF Init
<1> QED BY <1>1, <1>2 DEF Addressed, VarKept

\* The address of a variable lasts from element to element, and through the start and the end of loops.
LEMMA WalkAddressed ==
  ASSUME TidyTemplates, OneAddress, Addressed,
         (\E f \in Forms : (\E init \in BOOLEAN : WalkElem(f, init)) \/ walkSelBlk(f))
         \/ BeginLoop \/ EndLoop \/ blk_invalid_var_all
  PROVE  Addressed'
<1>0. /\ DOMAIN stat = {"opcode", "need_init", "opi", "has_mem_opnd", "init_mem_addr"}
      /\ \A v \in Vars : DOMAIN var[v] = VarFields
      /\ \A v \in Vars : VarKept(stat, v, var[v])
  BY DEF Addressed, Typed, StatTyped, VarsTyped, VarTyped
<1>t. Typed'
  BY WalkTyped DEF Addressed
<1>1. ASSUME NEW form \in Forms, NEW init \in BOOLEAN, WalkElem(form, init) \/ walkSelBlk(form)
      PROVE  Addressed'
  <2>1. /\ phase' = "opnds" /\ var' = var
        /\ \A v \in Vars : VarApart(v, var[v], form, 0)
    <3>1. phase' = "opnds" /\ var' = var /\ Walks(form) /\ {"between", "beside"} \cap Liberties = {}
      BY <1>1 DEF WalkElem, walkSelBlk, OneAddress
    <3>2. DOMAIN form.opnds = 1..Len(form.opnds)
      BY FormFacts
    <3>3. ASSUME NEW v \in Vars
          PROVE  VarApart(v, var[v], form, 0)
      BY <3>1, <3>2 DEF VarApart, Walks, Names
    <3> QED BY <3>1, <3>3
  <2>2. /\ cur'.form = form /\ cur'.opnds = << >>
        /\ WalkElem(form, init) => cur'.init = init
        /\ walkSelBlk(form) => cur'.init = stat.need_init
    BY <1>1 DEF WalkElem, walkSelBlk, Idle
  <2>3. /\ stat'.opcode = form /\ ~stat'.has_mem_opnd /\ stat'.init_mem_addr = stat.init_mem_addr
        /\ cur'.init = stat'.need_init
    <3>1. CASE WalkElem(form, init)
      <4>1. stat' = [stat EXCEPT !.opcode = form, !.need_init = init, !.has_mem_opnd = FALSE]
        BY <3>1 DEF WalkElem
      <4>2. /\ stat'.opcode = form /\ stat'.need_init = init /\ stat'.has_mem_opnd = FALSE
            /\ stat'.init_mem_addr = stat.init_mem_addr
        BY <1>0, <4>1, Zenon
      <4> QED BY <2>2, <3>1, <4>2
    <3>2. CASE walkSelBlk(form)
      <4>1. stat' = [stat EXCEPT !.opcode = IF @ = None THEN form ELSE @] /\ stat.opcode = None /\ ~stat.has_mem_opnd
        BY <3>2 DEF walkSelBlk, TidyTemplates
      <4>2. /\ stat'.opcode = form /\ stat'.need_init = stat.need_init /\ stat'.has_mem_opnd = stat.has_mem_opnd
            /\ stat'.init_mem_addr = stat.init_mem_addr
        BY <1>0, <4>1, Zenon
      <4> QED BY <2>2, <3>2, <4>1, <4>2
    <3> QED BY <1>1, <3>1, <3>2
  <2>4. Len(cur'.opnds) = 0 /\ 1..0 = {}
    BY <2>2
  <2>5. MemKept(stat', cur')
    BY <2>3, <2>4 DEF MemKept
  <2>6. \A v \in Vars : VarKept(stat', v, var'[v])
    BY <1>0, <2>1, <2>3 DEF VarKept
  <2> QED BY <1>t, <2>1, <2>2, <2>3, <2>5, <2>6 DEF Addressed
<1>2. ASSUME BeginLoop \/ EndLoop
      PROVE  Addressed'
  <2>1. phase = "idle" /\ phase' = "idle" /\ stat' = stat /\ var' = var
    BY <1>2 DEF BeginLoop, EndLoop, WalkLeft
  <2> QED BY <1>0, <1>t, <2>1 DEF Addressed
<1>3. CASE blk_invalid_var_all
  <2>1. phase = "idle" /\ UNCHANGED <<phase, stat>>
    BY <1>3 DEF blk_invalid_var_all
  <2>2. ASSUME NEW v \in Vars
        PROVE  VarKept(stat', v, var'[v])
    <3>1. var'[v] = var[v] \/ ~var'[v].valid
      BY <1>0, <1>3, InvalidVars, Zenon
    <3> QED BY <1>0, <2>1, <3>1 DEF VarKept
  <2> QED BY <1>t, <2>1, <2>2 DEF Addressed
<1> QED BY <1>1, <1>2, <1>3

\* Drawing an operand, or using that of a variable, keeps the address, or sets it for this operand.
LEMMA OperandAddressed ==
  ASSUME OneAddress, Addressed, gen_operand \/ gen_operand_new_var \/ gen_operand_var
  PROVE  Addressed'
<1>0. /\ phase = "opnds" /\ phase' = "opnds" /\ MoreOperands /\ Typed /\ StatTyped(stat)
      /\ cur.form \in Forms /\ stat.opcode = cur.form /\ MemKept(stat, cur) /\ CurTyped(phase, stat, cur)
      /\ cur.init = stat.need_init /\ DOMAIN cur = {"form", "opnds", "init", "reqs", "implied"}
  BY DEF gen_operand, gen_operand_new_var, gen_operand_var, MoreOperands, Addressed, Typed, CurTyped
<1>t. Typed'
  BY OperandTyped DEF Addressed
<1> DEFINE n == Len(cur.opnds)
<1>1. /\ Kind \in Kinds /\ n + 1 \in 1..Len(cur.form.opnds) /\ stat.opcode.sse \in BOOLEAN /\ n \in Nat
      /\ Kind = cur.form.opnds[n + 1] /\ n < Len(cur.form.opnds) /\ KindOf(Kind) \in OpndTypes
  BY <1>0, KindIs DEF Kind, MoreOperands
<1>f. DOMAIN cur.form.opnds = 1..Len(cur.form.opnds) /\ Len(cur.form.opnds) \in Nat
  BY <1>0, FormFacts
<1>v. /\ \A v \in Vars : VarKept(stat, v, var[v]) /\ VarApart(v, var[v], cur.form, n)
      /\ DOMAIN var = Vars /\ \A v \in Vars : VarTyped(var[v])
  BY <1>0 DEF Addressed, Typed, VarsTyped
<1>2. ASSUME NEW o, IsOpnd(o), NEW code, NEW requests \in BOOLEAN, Generated(o, n, code, requests),
             stat'.opcode = stat.opcode, stat'.need_init = stat.need_init,
             \/ /\ o.kind = "mem" /\ KindOf(Kind) \in MemKinds
                /\ SetsUp(stat'.init_mem_addr, o) /\ (stat'.init_mem_addr # << >> => stat'.has_mem_opnd)
                /\ cur.form.sse => Multiple(o.addr)
             \/ /\ o.kind # "mem" /\ stat'.init_mem_addr = stat.init_mem_addr
                /\ stat'.has_mem_opnd = stat.has_mem_opnd,
             \A v \in Vars : VarKept(stat', v, var'[v]) /\ VarApart(v, var'[v], cur.form, n + 1)
      PROVE  Addressed'
  <2>1. /\ DOMAIN cur' = DOMAIN cur /\ cur'.form = cur.form /\ cur'.init = cur.init
        /\ cur'.implied = cur.implied /\ cur'.opnds = Append(cur.opnds, o)
    BY <1>0, <1>2, GeneratedIs
  <2>2. /\ Len(cur'.opnds) = n + 1 /\ cur'.opnds[n + 1] = o
        /\ \A k \in 1..n : cur'.opnds[k] = cur.opnds[k]
    BY <1>0, <1>1, <1>2, <2>1, CurGrows
  <2> HIDE DEF n
  <2>3. MemKept(stat', cur')
    BY <1>0, <1>1, <1>2, <2>1, <2>2, MemGrows DEF n
  <2> QED BY <1>0, <1>2, <1>t, <2>1, <2>2, <2>3 DEF Addressed
<1>3. ASSUME KindOf(Kind) \in MemKinds, NEW v \in Vars, v # Kind, var[v].valid
      PROVE  var[v].opnd.kind # "mem"
  <2>1. OthersMayBeMemory(cur.form, v)
    BY <1>1, <1>3, <1>f DEF OthersMayBeMemory
  <2> QED BY <1>3, <1>v, <2>1 DEF VarApart
<1>a. ASSUME NEW v \in Vars
      PROVE  VarApart(v, var[v], cur.form, n + 1)
  <2> HIDE DEF n
  <2>1. \A i \in (n + 1 + 1)..Len(cur.form.opnds) : i \in (n + 1)..Len(cur.form.opnds)
    BY <1>1, <1>f
  <2> QED BY <1>v, <2>1 DEF VarApart
<1>k. ASSUME NEW k \in 1..n, cur.opnds[k].kind = "mem"
      PROVE  k \in DOMAIN cur.form.opnds /\ k # n + 1 /\ KindOf(cur.form.opnds[k]) \in MemKinds
  <2>1. KindOf(cur.form.opnds[k]) \in MemKinds
    BY <1>0, <1>k DEF MemKept
  <2> HIDE DEF n
  <2>2. k \in DOMAIN cur.form.opnds /\ k # n + 1
    BY <1>1, <1>f, <1>k
  <2> QED BY <2>1, <2>2
<1>h. stat.has_mem_opnd \in BOOLEAN /\ (stat.has_mem_opnd => \E k \in 1..n : cur.opnds[k].kind = "mem")
  BY <1>0 DEF MemKept, StatTyped
<1>4. CASE gen_operand
  <2>1. PICK d \in gen_operand_internal(Kind) :
          stat' = Drawn(d) /\ Generated(d.opnd, n, Drawn(d).init_mem_addr, TRUE)
    BY <1>4 DEF gen_operand
  <2>2. Kind \notin Vars /\ Kind \in OpndTypes /\ KindOf(Kind) = Kind /\ var' = var
    BY <1>1, <1>4 DEF gen_operand, Kinds, KindOf
  <2>3. /\ IsOpnd(d.opnd)
        /\ \/ /\ d.opnd.kind = "mem" /\ Kind \in MemKinds /\ SetsUp(d.code, d.opnd)
              /\ stat.opcode.sse => Multiple(d.opnd.addr)
           \/ d.code = << >> /\ d.opnd.kind # "mem"
    BY <1>1, <2>1, <2>2, OperandDrawn
  <2>4. /\ stat'.opcode = stat.opcode /\ stat'.need_init = stat.need_init
        /\ stat'.init_mem_addr = IF d.opnd.kind = "mem" THEN d.code ELSE stat.init_mem_addr
        /\ stat'.has_mem_opnd = (stat.has_mem_opnd \/ d.code # << >>)
    BY <1>0, <2>1, DrawnIs
  <2>5. d.opnd.kind # "mem" => stat'.has_mem_opnd = stat.has_mem_opnd
    BY <1>h, <2>3, <2>4
  <2>6. ASSUME NEW v \in Vars
        PROVE  VarKept(stat', v, var'[v])
    <3>1. d.opnd.kind = "mem" => ~(var[v].valid /\ var[v].opnd.kind = "mem")
      BY <1>3, <2>2, <2>3
    <3>2. d.opnd.kind # "mem" => stat'.init_mem_addr = stat.init_mem_addr
      BY <2>4
    <3> QED BY <1>v, <2>2, <3>1, <3>2 DEF VarKept
  <2>7. \/ /\ d.opnd.kind = "mem" /\ KindOf(Kind) \in MemKinds
           /\ SetsUp(stat'.init_mem_addr, d.opnd) /\ (stat'.init_mem_addr # << >> => stat'.has_mem_opnd)
           /\ cur.form.sse => Multiple(d.opnd.addr)
        \/ /\ d.opnd.kind # "mem" /\ stat'.init_mem_addr = stat.init_mem_addr
           /\ stat'.has_mem_opnd = stat.has_mem_opnd
    BY <1>0, <2>2, <2>3, <2>4, <2>5
  <2> QED BY <1>2, <1>a, <2>1, <2>2, <2>3, <2>4, <2>6, <2>7
<1>5. CASE gen_operand_new_var
  <2>1. PICK d \in gen_operand_internal(KindOf(Kind)) :
          /\ stat' = Drawn(d) /\ Generated(d.opnd, n, d.code, TRUE)
          /\ var' = [var EXCEPT ![Kind] = [valid |-> TRUE, opnd |-> d.opnd, is_mem_opnd |-> stat'.has_mem_opnd,
                                          init_mem_addr |-> d.code]]
    BY <1>5 DEF gen_operand_new_var
  <2>2. Kind \in Vars
    BY <1>5 DEF gen_operand_new_var
  <2>3. /\ IsOpnd(d.opnd)
        /\ \/ /\ d.opnd.kind = "mem" /\ KindOf(Kind) \in MemKinds /\ SetsUp(d.code, d.opnd)
              /\ stat.opcode.sse => Multiple(d.opnd.addr)
           \/ d.code = << >> /\ d.opnd.kind # "mem"
    BY <1>1, <2>1, OperandDrawn
  <2>4. /\ stat'.opcode = stat.opcode /\ stat'.need_init = stat.need_init
        /\ stat'.init_mem_addr = IF d.opnd.kind = "mem" THEN d.code ELSE stat.init_mem_addr
        /\ stat'.has_mem_opnd = (stat.has_mem_opnd \/ d.code # << >>)
    BY <1>0, <2>1, DrawnIs
  <2>5. d.opnd.kind # "mem" => stat'.has_mem_opnd = stat.has_mem_opnd
    BY <1>h, <2>3, <2>4
  <2> DEFINE x == [valid |-> TRUE, opnd |-> d.opnd, is_mem_opnd |-> stat'.has_mem_opnd, init_mem_addr |-> d.code]
  <2>6. /\ x.opnd = d.opnd /\ x.init_mem_addr = d.code /\ x.is_mem_opnd = stat'.has_mem_opnd
    OBVIOUS
  <2>7. /\ var'[Kind] = x /\ \A v \in Vars : v # Kind => var'[v] = var[v]
    <3>1. Kind \in Vars /\ DOMAIN var = Vars /\ var' = [var EXCEPT ![Kind] = x]
      BY <1>v, <2>1, <2>2
    <3> HIDE DEF x
    <3> QED BY <3>1, NewVar
  <2> HIDE DEF x
  <2>8. ASSUME NEW v \in Vars
        PROVE  VarKept(stat', v, var'[v])
    <3>1. CASE v # Kind
      <4>1. d.opnd.kind = "mem" => ~(var[v].valid /\ var[v].opnd.kind = "mem")
        BY <1>3, <2>3, <3>1
      <4>2. d.opnd.kind # "mem" => stat'.init_mem_addr = stat.init_mem_addr
        BY <2>4
      <4> QED BY <1>v, <2>7, <3>1, <4>1, <4>2 DEF VarKept
    <3>2. CASE v = Kind /\ d.opnd.kind = "mem"
      <4>1. Names(cur.form, Kind)
        BY <1>1, <1>f DEF Names
      <4>2. ASSUME NEW f \in Forms, Names(f, Kind), f.sse
            PROVE  Multiple(d.opnd.addr)
        <5>1. cur.form.sse = f.sse
          BY <1>0, <2>2, <2>3, <3>2, <4>1, <4>2 DEF OneAddress
        <5> QED BY <1>0, <2>3, <3>2, <4>2, <5>1
      <4>3. /\ stat'.init_mem_addr = x.init_mem_addr /\ (x.init_mem_addr # << >> => x.is_mem_opnd)
        BY <2>4, <2>6, <3>2
      <4> QED BY <2>3, <2>6, <2>7, <3>2, <4>2, <4>3 DEF VarKept
    <3>3. CASE v = Kind /\ d.opnd.kind # "mem"
      BY <2>6, <2>7, <3>3 DEF VarKept
    <3> QED BY <3>1, <3>2, <3>3
  <2>9. ASSUME NEW v \in Vars
        PROVE  VarApart(v, var'[v], cur.form, n + 1)
    <3>1. CASE v # Kind
      BY <1>a, <2>7, <3>1
    <3>2. CASE v = Kind /\ d.opnd.kind = "mem"
      <4>1. ASSUME NEW i \in DOMAIN cur.form.opnds, KindOf(cur.form.opnds[i]) \in MemKinds
            PROVE  cur.form.opnds[i] = Kind
        <5>1. KindOf(cur.form.opnds[n + 1]) \in MemKinds /\ n + 1 \in DOMAIN cur.form.opnds
          BY <1>1, <1>f, <2>3, <3>2
        <5>2. i = n + 1
          BY <1>0, <4>1, <5>1, Zenon DEF OneAddress
        <5> QED BY <1>1, <5>2
      <4>2. ~OthersMayBeMemory(cur.form, Kind)
        BY <4>1 DEF OthersMayBeMemory
      <4> QED BY <2>6, <2>7, <3>2, <4>2 DEF VarApart
    <3>3. CASE v = Kind /\ d.opnd.kind # "mem"
      <4>1. ASSUME NEW i \in (n + 1 + 1)..Len(cur.form.opnds), cur.form.opnds[i] = Kind
            PROVE  ~x.is_mem_opnd /\ ~OthersMayBeMemory(cur.form, Kind)
        <5>1. i \in DOMAIN cur.form.opnds /\ n + 1 \in DOMAIN cur.form.opnds /\ i # n + 1
          <6> HIDE DEF n
          <6> QED BY <1>1, <1>f, <4>1
        <5>2. \A k \in DOMAIN cur.form.opnds : KindOf(cur.form.opnds[k]) \notin MemKinds
          <6>1. cur.form.opnds[n + 1] \in Vars /\ cur.form.opnds[i] = cur.form.opnds[n + 1]
            BY <1>1, <2>2, <4>1
          <6> QED BY <1>0, <5>1, <6>1, Zenon DEF OneAddress
        <5>3. ~OthersMayBeMemory(cur.form, Kind)
          BY <5>2 DEF OthersMayBeMemory
        <5>4. ~stat.has_mem_opnd
          BY <1>h, <1>k, <5>2
        <5> QED BY <2>5, <2>6, <3>3, <5>3, <5>4
      <4> QED BY <2>6, <2>7, <3>3, <4>1 DEF VarApart
    <3> QED BY <3>1, <3>2, <3>3
  <2>10. \/ /\ d.opnd.kind = "mem" /\ KindOf(Kind) \in MemKinds
            /\ SetsUp(stat'.init_mem_addr, d.opnd) /\ (stat'.init_mem_addr # << >> => stat'.has_mem_opnd)
            /\ cur.form.sse => Multiple(d.opnd.addr)
         \/ /\ d.opnd.kind # "mem" /\ stat'.init_mem_addr = stat.init_mem_addr
            /\ stat'.has_mem_opnd = stat.has_mem_opnd
    BY <1>0, <2>3, <2>4, <2>5
  <2> QED BY <1>2, <2>1, <2>3, <2>4, <2>8, <2>9, <2>10
<1>6. CASE gen_operand_var
  <2> DEFINE va == var[Kind]
  <2>1. /\ Kind \in Vars /\ va.valid /\ var' = var
        /\ stat' = [stat EXCEPT !.opi = OpiAfter(va.opnd), !.has_mem_opnd = va.is_mem_opnd]
        /\ Generated(va.opnd, n, va.init_mem_addr, va.opnd.kind # "imm")
    BY <1>6 DEF gen_operand_var
  <2>2. VarKept(stat, Kind, va) /\ VarApart(Kind, va, cur.form, n) /\ VarTyped(va)
    BY <1>v, <2>1
  <2> HIDE DEF va
  <2>3. /\ stat'.opcode = stat.opcode /\ stat'.need_init = stat.need_init
        /\ stat'.init_mem_addr = stat.init_mem_addr /\ stat'.has_mem_opnd = va.is_mem_opnd
    <3>1. DOMAIN stat = {"opcode", "need_init", "opi", "has_mem_opnd", "init_mem_addr"}
      BY <1>0 DEF StatTyped
    <3> QED BY <2>1, <3>1, Zenon
  <2>4. IsOpnd(va.opnd)
    BY <2>2 DEF VarTyped
  <2>5. va.opnd.kind = "mem" =>
          /\ KindOf(Kind) \in MemKinds /\ SetsUp(stat'.init_mem_addr, va.opnd)
          /\ stat'.init_mem_addr # << >> => stat'.has_mem_opnd
          /\ cur.form.sse => Multiple(va.opnd.addr)
    <3>1. Names(cur.form, Kind)
      BY <1>1, <1>f DEF Names
    <3> QED BY <1>0, <2>1, <2>2, <2>3, <3>1 DEF VarKept, VarTyped
  <2>6. va.opnd.kind # "mem" => stat'.has_mem_opnd = stat.has_mem_opnd
    <3> SUFFICES ASSUME va.opnd.kind # "mem"
                 PROVE  stat'.has_mem_opnd = stat.has_mem_opnd
      OBVIOUS
    <3>1. ~va.is_mem_opnd /\ ~OthersMayBeMemory(cur.form, Kind)
      <4>1. n + 1 \in (n + 1)..Len(cur.form.opnds)
        BY <1>1, <1>f
      <4> QED BY <1>1, <2>1, <2>2, <4>1 DEF VarApart
    <3>2. ASSUME NEW k \in 1..n, cur.opnds[k].kind = "mem"
          PROVE  FALSE
      <4>1. k \in DOMAIN cur.form.opnds /\ k # n + 1 /\ KindOf(cur.form.opnds[k]) \in MemKinds
        BY <1>k, <3>2
      <4>2. cur.form.opnds[k] = Kind
        BY <3>1, <4>1 DEF OthersMayBeMemory
      <4>3. n + 1 \in DOMAIN cur.form.opnds /\ cur.form.opnds[n + 1] \in Vars /\ cur.form.opnds[k] = cur.form.opnds[n + 1]
        BY <1>1, <1>f, <2>1, <4>2
      <4> QED BY <1>0, <4>1, <4>3, Zenon DEF OneAddress
    <3>3. va.is_mem_opnd = FALSE /\ stat.has_mem_opnd = FALSE
      BY <1>h, <2>2, <3>1, <3>2 DEF VarTyped
    <3> QED BY <2>3, <3>3
  <2>7. \A v \in Vars : VarKept(stat', v, var'[v])
    BY <1>v, <2>1, <2>3 DEF VarKept
  <2> QED BY <1>2, <1>a, <2>1, <2>3, <2>4, <2>5, <2>6, <2>7
<1> QED BY <1>4, <1>5, <1>6

\* The rest of one_insn_gen leaves the operands and their code alone; in front of the instruction the
\* code is run once more, and no register of an address is loaded behind that.
LEMMA InsnAddressed ==
  ASSUME OneAddress, Addressed, EndOperands \/ init_specific_register \/ EndImplied \/ InsertInsn \/ EndElem
  PROVE  Addressed'
<1>0. /\ DOMAIN stat = {"opcode", "need_init", "opi", "has_mem_opnd", "init_mem_addr"}
      /\ DOMAIN cur = {"form", "opnds", "init", "reqs", "implied"}
      /\ (\A v \in Vars : VarKept(stat, v, var[v])) /\ regs \in [RegNames -> Words] /\ phase # "idle"
      /\ stat.opcode = cur.form /\ cur.init = stat.need_init /\ MemKept(stat, cur)
      /\ \A v \in Vars : VarApart(v, var[v], cur.form, Len(cur.opnds))
  BY DEF Addressed, Typed, StatTyped, CurTyped, EndOperands, init_specific_register, EndImplied, InsertInsn, EndElem
<1>t. Typed'
  BY InsnTyped DEF Addressed
<1>1. ASSUME stat'.opcode = stat.opcode, stat'.need_init = stat.need_init,
             stat'.init_mem_addr = stat.init_mem_addr, stat'.has_mem_opnd = stat.has_mem_opnd,
             cur'.form = cur.form, cur'.opnds = cur.opnds, cur'.init = cur.init, var' = var
      PROVE  /\ (\A v \in Vars : VarKept(stat', v, var'[v]))
             /\ stat'.opcode = cur'.form /\ cur'.init = stat'.need_init /\ MemKept(stat', cur')
             /\ \A v \in Vars : VarApart(v, var'[v], cur'.form, Len(cur'.opnds))
  <2>1. MemKept(stat', cur')
    BY <1>0, <1>1, Zenon DEF MemKept
  <2>2. \A v \in Vars : VarKept(stat', v, var'[v])
    BY <1>0, <1>1 DEF VarKept
  <2> QED BY <1>0, <1>1, <2>1, <2>2
<1>2. CASE EndOperands
  <2>1. /\ stat' = [stat EXCEPT !.opi = Len(cur.opnds)] /\ phase' \in {"implied", "insert"}
        /\ UNCHANGED <<var, cur>>
    BY <1>2 DEF EndOperands
  <2>2. /\ stat'.opcode = stat.opcode /\ stat'.need_init = stat.need_init
        /\ stat'.init_mem_addr = stat.init_mem_addr /\ stat'.has_mem_opnd = stat.has_mem_opnd
    BY <1>0, <2>1, Zenon
  <2> QED BY <1>1, <1>t, <2>1, <2>2 DEF Addressed
<1>3. CASE init_specific_register
  <2> DEFINE r == cur.form.implied[cur.implied + 1]
             q == [opnd |-> Len(cur.opnds) + cur.implied, opi |-> stat.opi]
  <2>1. /\ stat' = [stat EXCEPT !.opi = IF r = "X" THEN @ ELSE 2]
        /\ cur' = [[cur EXCEPT !.reqs = @ \cup {q}] EXCEPT !.implied = @ + 1]
        /\ UNCHANGED <<phase, var>> /\ phase = "implied"
    BY <1>3 DEF init_specific_register, Request
  <2> HIDE DEF r, q
  <2>2. /\ stat'.opcode = stat.opcode /\ stat'.need_init = stat.need_init
        /\ stat'.init_mem_addr = stat.init_mem_addr /\ stat'.has_mem_opnd = stat.has_mem_opnd
    BY <1>0, <2>1, Zenon
  <2>3. cur'.form = cur.form /\ cur'.opnds = cur.opnds /\ cur'.init = cur.init
    BY <1>0, <2>1, Zenon
  <2> QED BY <1>1, <1>t, <2>1, <2>2, <2>3 DEF Addressed
<1>4. CASE EndImplied
  <2>1. phase' = "insert" /\ UNCHANGED <<stat, var, cur>>
    BY <1>4 DEF EndImplied
  <2> QED BY <1>1, <1>t, <2>1 DEF Addressed
<1>5. CASE InsertInsn
  <2>1. /\ phase' = "inserted" /\ regs' = IF stat.has_mem_opnd THEN Run(stat.init_mem_addr, regs) ELSE regs
        /\ UNCHANGED <<stat, var, cur>>
    BY <1>5 DEF InsertInsn
  <2>2. ASSUME NEW k \in 1..Len(cur.opnds), cur.opnds[k].kind = "mem"
        PROVE  EA(cur.opnds[k], regs') = cur.opnds[k].addr
    <3>1. SetsUp(stat.init_mem_addr, cur.opnds[k]) /\ (stat.init_mem_addr # << >> => stat.has_mem_opnd)
      BY <1>0, <2>2 DEF MemKept
    <3>2. regs \in [RegNames -> Int]
      BY <1>0, WordFacts
    <3>3. EA(cur.opnds[k], Run(stat.init_mem_addr, regs)) = cur.opnds[k].addr
      BY <3>1, <3>2 DEF SetsUp
    <3>4. Run(<< >>, regs) = regs
      BY <3>2 DEF Run
    <3>5. regs' = Run(stat.init_mem_addr, regs)
      BY <2>1, <3>1, <3>4
    <3> QED BY <3>3, <3>5
  <2> QED BY <1>1, <1>t, <2>1, <2>2 DEF Addressed
<1>6. CASE EndElem
  <2>1. stat' = [stat EXCEPT !.need_init = FALSE] /\ var' = var /\ phase' = "idle"
    BY <1>6 DEF EndElem
  <2>2. stat'.init_mem_addr = stat.init_mem_addr
    BY <1>0, <2>1, Zenon
  <2>3. \A v \in Vars : VarKept(stat', v, var'[v])
    BY <1>0, <2>1, <2>2 DEF VarKept
  <2> QED BY <1>t, <2>1, <2>3 DEF Addressed
<1> QED BY <1>2, <1>3, <1>4, <1>5, <1>6

\* The invariant is kept.
LEMMA AddressedAlways ==
  ASSUME TidyTemplates, OneAddress
  PROVE  Spec => []Addressed
<1>1. Init => Addressed
  BY InitAddressed
<1>2. Addressed /\ [Next]_vars => Addressed'
  <2>1. ASSUME Addressed, Next PROVE Addressed'
    BY <2>1, WalkAddressed, OperandAddressed, InsnAddressed DEF Next, Generate
  <2>2. ASSUME Addressed, UNCHANGED vars PROVE Addressed'
    <3>1. Typed'
      BY <2>2 DEF Addressed, Typed, vars
    <3> QED BY <2>2, <3>1 DEF Addressed, vars
  <2> QED BY <2>1, <2>2
<1> QED BY <1>1, <1>2, PTL DEF Spec

\* AddressesHold: when a generated instruction executes, its memory operand has the address drawn
\* for it by create_random_modrm, within its section and, for an SSE instruction, aligned, whatever
\* was loaded between the drawing and the instruction, and whichever elements before used the variable.
\* OneAddress is needed: a variable puts back only the flag has_mem_opnd, not init_mem_addr, so a memory
\* variable must not meet another memory operand, nor a register variable be used again beside one.
THEOREM AddressesAlwaysHold ==
  ASSUME TidyTemplates, OneAddress
  PROVE  Spec => []AddressesHold
<1>1. Spec => []Addressed
  BY AddressedAlways
<1>2. Addressed => AddressesHold
  <2> SUFFICES ASSUME Addressed, AtInsn, NEW o \in MemOpnds
               PROVE  /\ EA(o, regs) = o.addr
                      /\ o.addr >= Label(o.section) /\ o.addr + MaxMem <= Label(o.section) + SecSize
                      /\ cur.form.sse => EA(o, regs) % Align = 0
    BY Zenon DEF AddressesHold, AddressAtInsn, SSEAligned
  <2>1. PICK S : cur.opnds \in Seq(S)
    BY DEF Addressed, Typed, CurTyped
  <2>2. PICK k \in 1..Len(cur.opnds) : o = cur.opnds[k] /\ cur.opnds[k].kind = "mem"
    BY <2>1 DEF MemOpnds, ToSet
  <2>3. /\ EA(o, regs) = o.addr /\ SetsUp(stat.init_mem_addr, o) /\ (cur.form.sse => Multiple(o.addr))
    BY <2>2 DEF Addressed, AtInsn, MemKept
  <2>4. cur.form.sse => o.addr % Align = 0
    <3>1. Align \in Nat \ {0}
      BY OpndGenAssumption DEF OpndGenAssumption
    <3>2. Multiple(o.addr) => o.addr \in Nat
      BY <3>1 DEF Multiple
    <3> QED BY <2>3, <3>1, <3>2, MultipleMod
  <2> QED BY <2>3, <2>4 DEF SetsUp
<1> QED BY <1>1, <1>2, PTL

-----------------------------------------------------------------------------
(* Initial values.                                                         *)

\* What the knowledge of instructions is assumed to be: there is a value for every operand, given or
\* implied, and init_specific_register, which leaves the number of the operand at 2, is followed by
\* another one only where that is 2.
NumbersKept ==
  \A f \in Forms :
    /\ f.values \in Nat /\ Len(f.opnds) + Len(f.implied) <= f.values
    /\ Len(f.implied) <= 1 \/ (Len(f.opnds) = 1 /\ Len(f.implied) = 2 /\ f.implied[1] # "X")

\* r is a register of the address of an operand
InAddress(r, cu) ==
  \E k \in 1..Len(cu.opnds) : cu.opnds[k].kind = "mem" /\ r \in {cu.opnds[k].base, cu.opnds[k].index}

\* operand i, given or implied, is register r
IsOperand(r, cu, i) ==
  \/ i \in 1..Len(cu.opnds) /\ cu.opnds[i] = Reg(r)
  \/ \E k \in 1..cu.implied : cu.form.implied[k] = r /\ i = Len(cu.opnds) + k

\* r holds the value for the last operand that it is
LastLoaded(r, cu, rs) ==
  (\E i \in Nat : IsOperand(r, cu, i)) =>
    \E last \in Nat : /\ IsOperand(r, cu, last) /\ \A i \in Nat : IsOperand(r, cu, i) => i <= last
                      /\ rs[r] = Val(last - 1)

\* The values so far, of an instruction that is to have them.
Filled ==
  /\ \A k \in 1..Len(cur.opnds) : cur.opnds[k].kind = "mem" => mem = <<cur.opnds[k].addr, Val(k - 1)>>
  /\ \A r \in RegNames :
       ~InAddress(r, cur) /\ (phase \in {"insert", "inserted"} => r \notin ToSet(cur.form.lea)) => LastLoaded(r, cur, regs)
  /\ phase \in {"insert", "inserted"} => cur.implied = Len(cur.form.implied)

Numbered ==
  /\ \A q \in cur.reqs : q.opi = q.opnd /\ q.opi < cur.form.values
  /\ cur.implied <= Len(cur.form.implied)
  /\ phase = "opnds" => cur.implied = 0
  /\ phase # "opnds" => Len(cur.opnds) = Len(cur.form.opnds)
  /\ phase = "implied" =>
       cur.init /\ (cur.implied < Len(cur.form.implied) => stat.opi = Len(cur.opnds) + cur.implied)

Valued ==
  /\ Addressed
  /\ phase = "idle" => cur.reqs = {}
  /\ phase # "idle" => Numbered /\ (cur.init => Filled)

\* A register keeps its value while it is not loaded and no other operand.
LEMMA LastKept ==
  ASSUME NEW r, NEW cu, NEW rs, LastLoaded(r, cu, rs), NEW cv, NEW rt, rt[r] = rs[r],
         \A i \in Nat : IsOperand(r, cv, i) <=> IsOperand(r, cu, i)
  PROVE  LastLoaded(r, cv, rt)
BY Zenon DEF LastLoaded

\* A register that becomes an operand has the value loaded for that one.
LEMMA LastNew ==
  ASSUME NEW r, NEW cv, NEW rt, NEW n \in Nat, IsOperand(r, cv, n), rt[r] = Val(n - 1),
         \A i \in Nat : IsOperand(r, cv, i) => i <= n
  PROVE  LastLoaded(r, cv, rt)
BY Zenon DEF LastLoaded

\* What an operand that is drawn, or that of a variable, comes with.
LEMMA OperandIs ==
  ASSUME Addressed, gen_operand \/ gen_operand_new_var \/ gen_operand_var
  PROVE  \E o, code : \E requests \in BOOLEAN :
           /\ Generated(o, Len(cur.opnds), code, requests) /\ IsOpnd(o)
           /\ o.kind = "mem" => KindOf(Kind) \in MemKinds /\ SetsUp(code, o)
<1>0. /\ Typed /\ MoreOperands /\ StatTyped(stat)
      /\ \A v \in Vars : VarTyped(var[v]) /\ VarKept(stat, v, var[v])
  BY DEF Addressed, Typed, VarsTyped, gen_operand, gen_operand_new_var, gen_operand_var
<1>1. Kind \in Kinds /\ KindOf(Kind) \in OpndTypes /\ stat.opcode.sse \in BOOLEAN
  BY <1>0, KindIs
<1>2. CASE gen_operand
  <2>1. PICK d \in gen_operand_internal(Kind) :
          stat' = Drawn(d) /\ Generated(d.opnd, Len(cur.opnds), Drawn(d).init_mem_addr, TRUE)
    BY <1>2 DEF gen_operand
  <2>2. Kind \in OpndTypes /\ KindOf(Kind) = Kind
    BY <1>1, <1>2 DEF gen_operand, Kinds, KindOf
  <2>3. IsOpnd(d.opnd) /\ (d.opnd.kind = "mem" => Kind \in MemKinds /\ SetsUp(d.code, d.opnd))
    BY <1>1, <2>1, <2>2, OperandDrawn
  <2>4. d.opnd.kind = "mem" => Drawn(d).init_mem_addr = d.code
    BY <1>0, DrawnIs
  <2>5. d.opnd.kind = "mem" => KindOf(Kind) \in MemKinds /\ SetsUp(Drawn(d).init_mem_addr, d.opnd)
    BY <2>2, <2>3, <2>4
  <2> QED BY <2>1, <2>3, <2>5, Zenon
<1>3. CASE gen_operand_new_var
  <2>1. PICK d \in gen_operand_internal(KindOf(Kind)) : Generated(d.opnd, Len(cur.opnds), d.code, TRUE)
    BY <1>3 DEF gen_operand_new_var
  <2>2. IsOpnd(d.opnd) /\ (d.opnd.kind = "mem" => KindOf(Kind) \in MemKinds /\ SetsUp(d.code, d.opnd))
    BY <1>1, <2>1, OperandDrawn
  <2> QED BY <2>1, <2>2, Zenon
<1>4. CASE gen_operand_var
  <2> DEFINE va == var[Kind]
  <2>1. /\ Generated(va.opnd, Len(cur.opnds), va.init_mem_addr, va.opnd.kind # "imm") /\ va.valid /\ Kind \in Vars
    BY <1>4 DEF gen_operand_var
  <2>2. VarTyped(va) /\ VarKept(stat, Kind, va)
    BY <1>0, <2>1
  <2> HIDE DEF va
  <2>3. IsOpnd(va.opnd) /\ (va.opnd.kind = "mem" => KindOf(Kind) \in MemKinds /\ SetsUp(va.init_mem_addr, va.opnd))
    BY <2>1, <2>2 DEF VarTyped, VarKept
  <2>4. (va.opnd.kind # "imm") \in BOOLEAN
    OBVIOUS
  <2> QED BY <2>1, <2>3, <2>4, Zenon
<1> QED BY <1>2, <1>3, <1>4

\* Registers of an operand other than r, or of an address without r, leave r alone.
LEMMA OperandLoads ==
  ASSUME NEW o, IsOpnd(o), NEW code, o.kind = "mem" => SetsUp(code, o), NEW r \in RegNames, NEW k,
         o.kind = "mem" => r \notin {o.base, o.index},
         NEW rs \in [RegNames -> Words], NEW rt,
         /\ o.kind = "reg" => rt = [rs EXCEPT ![o.reg] = Val(k)]
         /\ o.kind = "mem" => rt = Run(code, rs)
         /\ o.kind \notin {"reg", "mem"} => rt = rs
  PROVE  rt[r] = IF o = Reg(r) THEN Val(k) ELSE rs[r]
<1>1. CASE o.kind = "reg"
  <2>1. PICK s \in RegNames : o = Reg(s) /\ o.reg = s
    BY <1>1, OpndFacts
  <2>2. o = Reg(r) <=> s = r
    BY <2>1 DEF Reg
  <2>3. rt = [rs EXCEPT ![s] = Val(k)]
    BY <1>1, <2>1
  <2> QED BY <2>2, <2>3
<1>2. CASE o.kind = "mem"
  <2>1. \A j \in DOMAIN code : code[j][1] # r
    BY <1>2 DEF SetsUp
  <2>2. Run(code, rs)[r] = rs[r]
    BY <2>1, RunKeeps
  <2>3. o # Reg(r)
    BY <1>2 DEF Reg
  <2> QED BY <1>2, <2>2, <2>3
<1>3. CASE o.kind \notin {"reg", "mem"}
  BY <1>3 DEF Reg
<1> QED BY <1>1, <1>2, <1>3

\* An operand that is to have a value gets it, and no other loses its own to it, but for those that
\* the address needs.
LEMMA OperandValued ==
  ASSUME OneAddress, NumbersKept, Valued, gen_operand \/ gen_operand_new_var \/ gen_operand_var
  PROVE  Valued'
<1>0. /\ phase = "opnds" /\ phase' = "opnds" /\ MoreOperands /\ Typed /\ StatTyped(stat)
      /\ cur.form \in Forms /\ MemKept(stat, cur) /\ CurTyped(phase, stat, cur)
      /\ cur.init = stat.need_init /\ regs \in [RegNames -> Words]
      /\ DOMAIN cur = {"form", "opnds", "init", "reqs", "implied"} /\ Addressed
      /\ Numbered /\ (cur.init => Filled) /\ cur.implied = 0
  BY DEF gen_operand, gen_operand_new_var, gen_operand_var, MoreOperands, Valued, Numbered, Addressed, Typed, CurTyped
<1>a. Addressed'
  BY OperandAddressed DEF Valued
<1>1. PICK o, code : \E requests \in BOOLEAN :
        /\ Generated(o, Len(cur.opnds), code, requests) /\ IsOpnd(o)
        /\ o.kind = "mem" => KindOf(Kind) \in MemKinds /\ SetsUp(code, o)
  BY <1>0, OperandIs
<1>r. PICK requests \in BOOLEAN :
        /\ Generated(o, Len(cur.opnds), code, requests) /\ IsOpnd(o)
        /\ o.kind = "mem" => KindOf(Kind) \in MemKinds /\ SetsUp(code, o)
  BY <1>1
<1> DEFINE n == Len(cur.opnds)
<1>2. n + 1 \in 1..Len(cur.form.opnds) /\ n \in Nat /\ Kind = cur.form.opnds[n + 1] /\ n < Len(cur.form.opnds)
  BY <1>0, KindIs DEF Kind, MoreOperands
<1>3. /\ DOMAIN cur' = DOMAIN cur /\ cur'.form = cur.form /\ cur'.init = cur.init
      /\ cur'.implied = cur.implied /\ cur'.opnds = Append(cur.opnds, o)
      /\ cur'.reqs = cur.reqs \cup (IF stat.need_init /\ requests THEN {[opnd |-> n, opi |-> n]} ELSE {})
      /\ stat.need_init =>
           /\ o.kind = "reg" => regs' = [regs EXCEPT ![o.reg] = Val(n)]
           /\ o.kind = "mem" => regs' = Run(code, regs) /\ mem' = <<EA(o, Run(code, regs)), Val(n)>>
           /\ o.kind \notin {"reg", "mem"} => regs' = regs
           /\ o.kind # "mem" => mem' = mem
  BY <1>0, <1>r, GeneratedIs
<1>4. /\ Len(cur'.opnds) = n + 1 /\ cur'.opnds[n + 1] = o /\ \A k \in 1..n : cur'.opnds[k] = cur.opnds[k]
  BY <1>0, <1>1, <1>2, <1>3, CurGrows
<1>m. o.kind = "mem" => \A k \in 1..n : cur.opnds[k].kind # "mem"
  BY <1>0, <1>1, <1>2, OneMem
<1> HIDE DEF n
<1>5. \A k \in 1..(n + 1) : k \in 1..n \/ k = n + 1
  BY <1>2
<1>6. \A k \in 1..n : k \in 1..(n + 1)
  BY <1>2
<1>7. n + 1 \in 1..(n + 1) /\ (n + 1) - 1 = n
  BY <1>2
<1>8. Numbered'
  <2>1. \A q \in cur'.reqs : q.opi = q.opnd /\ q.opi < cur'.form.values
    <3>1. cur.form.values \in Nat /\ Len(cur.form.opnds) <= cur.form.values
      <4>1. /\ cur.form.values \in Nat /\ Len(cur.form.opnds) + Len(cur.form.implied) <= cur.form.values
        BY <1>0 DEF NumbersKept
      <4>2. Len(cur.form.opnds) \in Nat /\ Len(cur.form.implied) \in Nat
        BY <1>0, FormFacts
      <4>3. \A x, y, z \in Nat : x + y <= z => x <= z
        OBVIOUS
      <4> QED BY <4>1, <4>2, <4>3, Zenon
    <3>2. n < cur.form.values
      <4>1. \A x, y, z \in Nat : x < y /\ y <= z => x < z
        OBVIOUS
      <4>2. Len(cur.form.opnds) \in Nat
        BY <1>0, FormFacts
      <4> QED BY <1>2, <3>1, <4>1, <4>2, Zenon
    <3>3. ASSUME NEW q, q = [opnd |-> n, opi |-> n]
          PROVE  q.opi = q.opnd /\ q.opi < cur.form.values
      BY <3>2, <3>3
    <3>4. \A q \in cur.reqs : q.opi = q.opnd /\ q.opi < cur.form.values
      BY <1>0 DEF Numbered
    <3>5. \A q \in cur'.reqs : q \in cur.reqs \/ q = [opnd |-> n, opi |-> n]
      BY <1>3
    <3> QED BY <1>3, <3>3, <3>4, <3>5, Zenon
  <2> QED BY <1>0, <1>3, <2>1 DEF Numbered
<1>9. ASSUME cur'.init
      PROVE  Filled'
  <2>1. stat.need_init /\ Filled
    BY <1>0, <1>3, <1>9
  <2>2. ASSUME NEW k \in 1..Len(cur'.opnds), cur'.opnds[k].kind = "mem"
        PROVE  mem' = <<cur'.opnds[k].addr, Val(k - 1)>>
    <3>1. CASE k = n + 1
      <4>1. o.kind = "mem" /\ cur'.opnds[k] = o
        BY <1>4, <2>2, <3>1
      <4>2. EA(o, Run(code, regs)) = o.addr
        <5>1. regs \in [RegNames -> Int]
          BY <1>0, WordFacts
        <5> QED BY <1>1, <4>1, <5>1 DEF SetsUp
      <4> QED BY <1>3, <1>7, <2>1, <3>1, <4>1, <4>2
    <3>2. CASE k \in 1..n
      <4>1. cur'.opnds[k] = cur.opnds[k] /\ cur.opnds[k].kind = "mem"
        BY <1>4, <2>2, <3>2
      <4>2. mem = <<cur.opnds[k].addr, Val(k - 1)>>
        BY <2>1, <3>2, <4>1 DEF Filled, n
      <4>3. o.kind # "mem"
        BY <1>m, <3>2, <4>1
      <4> QED BY <1>3, <2>1, <4>1, <4>2, <4>3
    <3> QED BY <1>4, <1>5, <2>2, <3>1, <3>2
  <2>3. ASSUME NEW r \in RegNames, ~InAddress(r, cur')
        PROVE  LastLoaded(r, cur', regs')
    <3>1. \A i : IsOperand(r, cur', i) <=> (i \in 1..n /\ cur.opnds[i] = Reg(r)) \/ (i = n + 1 /\ o = Reg(r))
      <4>1. 1..cur'.implied = {}
        BY <1>0, <1>3
      <4>2. \A i : IsOperand(r, cur', i) <=> i \in 1..(n + 1) /\ cur'.opnds[i] = Reg(r)
        BY <1>4, <4>1 DEF IsOperand
      <4> QED BY <1>4, <1>5, <1>6, <1>7, <4>2, Zenon
    <3>2. \A i : IsOperand(r, cur, i) <=> i \in 1..n /\ cur.opnds[i] = Reg(r)
      <4>1. 1..cur.implied = {}
        BY <1>0
      <4> QED BY <4>1 DEF IsOperand, n
    <3>3. ~InAddress(r, cur)
      <4>1. InAddress(r, cur) => InAddress(r, cur')
        BY <1>4, <1>6, Zenon DEF InAddress, n
      <4> QED BY <2>3, <4>1
    <3>4. LastLoaded(r, cur, regs)
      BY <1>0, <2>1, <3>3 DEF Filled
    <3>5. o.kind = "mem" => r \notin {o.base, o.index}
      BY <1>4, <1>7, <2>3 DEF InAddress
    <3>6. regs'[r] = IF o = Reg(r) THEN Val(n) ELSE regs[r]
      <4>1. /\ o.kind = "reg" => regs' = [regs EXCEPT ![o.reg] = Val(n)]
            /\ o.kind = "mem" => regs' = Run(code, regs)
            /\ o.kind \notin {"reg", "mem"} => regs' = regs
        BY <1>3, <2>1
      <4>2. IsOpnd(o) /\ (o.kind = "mem" => SetsUp(code, o)) /\ regs \in [RegNames -> Words]
        BY <1>0, <1>1
      <4> QED BY <3>5, <4>1, <4>2, OperandLoads
    <3>7. CASE o = Reg(r)
      <4>1. IsOperand(r, cur', n + 1) /\ regs'[r] = Val((n + 1) - 1) /\ n + 1 \in Nat
        BY <1>2, <1>7, <3>1, <3>6, <3>7
      <4>2. \A i \in Nat : IsOperand(r, cur', i) => i <= n + 1
        <5>1. \A i \in 1..n : i <= n + 1
          BY <1>2
        <5> QED BY <1>2, <3>1, <5>1
      <4> QED BY <4>1, <4>2, LastNew
    <3>8. CASE o # Reg(r)
      <4>1. \A i \in Nat : IsOperand(r, cur', i) <=> IsOperand(r, cur, i)
        BY <3>1, <3>2, <3>8
      <4> QED BY <3>4, <3>6, <3>8, <4>1, LastKept
    <3> QED BY <3>7, <3>8
  <2> QED BY <1>0, <2>2, <2>3 DEF Filled
<1> QED BY <1>0, <1>a, <1>8, <1>9 DEF Valued

\* An element starts with no value requested.
LEMMA WalkValued ==
  ASSUME TidyTemplates, OneAddress, Valued,
         (\E f \in Forms : (\E init \in BOOLEAN : WalkElem(f, init)) \/ walkSelBlk(f))
         \/ BeginLoop \/ EndLoop \/ blk_invalid_var_all
  PROVE  Valued'
<1>a. Addressed'
  BY WalkAddressed DEF Valued
<1>1. ASSUME NEW form \in Forms, NEW init \in BOOLEAN, WalkElem(form, init) \/ walkSelBlk(form)
      PROVE  Valued'
  <2>1. /\ phase' = "opnds" /\ cur'.form = form /\ cur'.opnds = << >> /\ cur'.reqs = {} /\ cur'.implied = 0
    BY <1>1 DEF WalkElem, walkSelBlk, Idle
  <2>2. Numbered'
    <3>1. 0 <= Len(form.implied)
      <4>1. form.implied \in Seq(RegNames)
        BY FormFacts
      <4> QED BY <4>1
    <3> QED BY <2>1, <3>1 DEF Numbered
  <2>3. Filled'
    <3>1. 1..Len(cur'.opnds) = {} /\ 1..cur'.implied = {}
      BY <2>1
    <3>2. \A r \in RegNames : LastLoaded(r, cur', regs')
      BY <3>1 DEF LastLoaded, IsOperand
    <3> QED BY <2>1, <3>1, <3>2 DEF Filled
  <2> QED BY <1>a, <2>1, <2>2, <2>3 DEF Valued
<1>2. ASSUME BeginLoop \/ EndLoop \/ blk_invalid_var_all
      PROVE  Valued'
  <2>1. phase = "idle" /\ phase' = "idle" /\ cur' = cur
    BY <1>2 DEF BeginLoop, EndLoop, blk_invalid_var_all, WalkLeft
  <2> QED BY <1>a, <2>1 DEF Valued
<1> QED BY <1>1, <1>2

\* Implied operands get the values that follow; neither they nor what sets up memory operands
\* loads another operand.
LEMMA InsnValued ==
  ASSUME OneAddress, NumbersKept, Valued, EndOperands \/ init_specific_register \/ EndImplied \/ InsertInsn \/ EndElem
  PROVE  Valued'
<1>0. /\ DOMAIN stat = {"opcode", "need_init", "opi", "has_mem_opnd", "init_mem_addr"}
      /\ DOMAIN cur = {"form", "opnds", "init", "reqs", "implied"} /\ Addressed
      /\ regs \in [RegNames -> Words] /\ phase # "idle" /\ cur.form \in Forms /\ cur.implied \in Nat
      /\ cur.init = stat.need_init /\ MemKept(stat, cur) /\ Numbered /\ (cur.init => Filled)
  BY DEF Valued, Addressed, Typed, StatTyped, CurTyped, EndOperands, init_specific_register, EndImplied, InsertInsn, EndElem
<1>a. Addressed'
  BY InsnAddressed DEF Valued
<1>n. Len(cur.opnds) \in Nat
  <2>1. PICK S : cur.opnds \in Seq(S)
    BY <1>0 DEF Addressed, Typed, CurTyped
  <2> QED BY <2>1
<1>f. Len(cur.form.opnds) \in Nat /\ Len(cur.form.implied) \in Nat /\ cur.form.values \in Nat
      /\ \A k \in 1..Len(cur.form.implied) : cur.form.implied[k] \in RegNames
  <2>1. cur.form.opnds \in Seq(Kinds) /\ cur.form.implied \in Seq(RegNames)
    BY <1>0, FormFacts
  <2>2. cur.form.values \in Nat
    BY <1>0 DEF NumbersKept
  <2> QED BY <1>0, <2>1, <2>2, FormFacts
<1>1. CASE EndOperands
  <2>1. /\ phase = "opnds" /\ stat' = [stat EXCEPT !.opi = Len(cur.opnds)] /\ Len(cur.opnds) = Len(cur.form.opnds)
        /\ phase' = (IF stat.need_init THEN "implied" ELSE "insert")
        /\ UNCHANGED <<cur, regs, mem>>
    BY <1>1 DEF EndOperands
  <2>2. stat'.opi = Len(cur.opnds)
    BY <1>0, <2>1, Zenon
  <2>3. Len(cur.opnds) + 0 = Len(cur.opnds)
    BY <1>n
  <2>4. Numbered'
    BY <1>0, <2>1, <2>2, <2>3 DEF Numbered
  <2>5. cur.init => phase' = "implied"
    BY <1>0, <2>1
  <2>6. cur.init => Filled'
    BY <1>0, <2>1, <2>5 DEF Filled
  <2> QED BY <1>a, <2>1, <2>4, <2>6 DEF Valued
<1>2. CASE init_specific_register
  <2> DEFINE m == cur.implied
             n == Len(cur.opnds)
             r == cur.form.implied[m + 1]
             q == [opnd |-> n + m, opi |-> stat.opi]
  <2>1. /\ phase = "implied" /\ m < Len(cur.form.implied)
        /\ regs' = [regs EXCEPT ![r] = Val(stat.opi)]
        /\ stat' = [stat EXCEPT !.opi = IF r = "X" THEN @ ELSE 2]
        /\ cur' = [[cur EXCEPT !.reqs = @ \cup {q}] EXCEPT !.implied = @ + 1]
        /\ UNCHANGED <<phase, mem>>
    BY <1>2 DEF init_specific_register, Request
  <2>2. /\ m + 1 \in 1..Len(cur.form.implied) /\ m \in Nat /\ n \in Nat /\ n = Len(cur.form.opnds)
        /\ stat.opi = n + m /\ cur.init /\ Filled
    BY <1>0, <1>f, <1>n, <2>1 DEF Numbered
  <2>3. r \in RegNames
    BY <1>f, <2>2
  <2> HIDE DEF r, q
  <2>4. stat'.opi = IF r = "X" THEN stat.opi ELSE 2
    BY <1>0, <2>1, Zenon
  <2>5. /\ cur'.form = cur.form /\ cur'.opnds = cur.opnds /\ cur'.init = cur.init /\ cur'.reqs = cur.reqs \cup {q}
        /\ cur'.implied = m + 1
    BY <1>0, <2>1, Zenon
  <2>6. /\ Len(cur.form.opnds) + Len(cur.form.implied) <= cur.form.values
        /\ Len(cur.form.implied) <= 1 \/ (Len(cur.form.opnds) = 1 /\ Len(cur.form.implied) = 2 /\ cur.form.implied[1] # "X")
    BY <1>0 DEF NumbersKept
  <2>r. r = cur.form.implied[m + 1]
    BY DEF r
  <2>q. q.opnd = n + m /\ q.opi = stat.opi
    BY DEF q
  <2> HIDE DEF m, n
  <2>7. Numbered'
    <3>1. q.opi = q.opnd /\ q.opi < cur.form.values
      <4>1. \A x, y, i, v \in Nat : x + i <= v /\ y < i => x + y < v
        OBVIOUS
      <4>2. n + m < cur.form.values
        BY <1>f, <2>1, <2>2, <2>6, <4>1
      <4> QED BY <2>2, <2>q, <4>2
    <3>2. \A p \in cur'.reqs : p.opi = p.opnd /\ p.opi < cur.form.values
      <4>1. \A p \in cur.reqs : p.opi = p.opnd /\ p.opi < cur.form.values
        BY <1>0 DEF Numbered
      <4>2. \A p \in cur'.reqs : p \in cur.reqs \/ p = q
        BY <2>5
      <4> QED BY <3>1, <4>1, <4>2, Zenon
    <3>3. cur'.implied <= Len(cur'.form.implied)
      BY <1>f, <2>1, <2>2, <2>5
    <3>4. ASSUME cur'.implied < Len(cur'.form.implied)
          PROVE  stat'.opi = Len(cur'.opnds) + cur'.implied
      <4>1. m + 1 < Len(cur.form.implied)
        BY <2>5, <3>4
      <4>2. Len(cur.form.implied) = 2 /\ n = 1 /\ cur.form.implied[1] # "X"
        BY <1>f, <2>2, <2>6, <4>1
      <4>3. m = 0
        BY <2>2, <4>1, <4>2
      <4>4. r # "X"
        BY <2>r, <4>2, <4>3
      <4>5. stat'.opi = 2 /\ Len(cur'.opnds) = 1 /\ cur'.implied = 1
        BY <2>4, <2>5, <4>2, <4>3, <4>4 DEF n
      <4> QED BY <4>5
    <3>5. phase' = "implied" /\ cur'.init /\ Len(cur'.opnds) = Len(cur'.form.opnds)
      BY <2>1, <2>2, <2>5 DEF n
    <3> QED BY <2>5, <3>2, <3>3, <3>4, <3>5 DEF Numbered
  <2>8. Filled'
    <3>1. \A s : InAddress(s, cur') <=> InAddress(s, cur)
      BY <2>5 DEF InAddress
    <3>2. ASSUME NEW s \in RegNames, ~InAddress(s, cur')
          PROVE  LastLoaded(s, cur', regs')
      <4>1. LastLoaded(s, cur, regs)
        BY <2>1, <2>2, <3>1, <3>2 DEF Filled
      <4>2. \A i : IsOperand(s, cur', i) <=> IsOperand(s, cur, i) \/ (s = r /\ i = n + (m + 1))
        <5>1. \A k \in 1..(m + 1) : k \in 1..m \/ k = m + 1
          BY <2>2
        <5>2. (\A k \in 1..m : k \in 1..(m + 1)) /\ m + 1 \in 1..(m + 1)
          BY <2>2
        <5>3. \A i : IsOperand(s, cur, i) <=>
                       \/ i \in 1..n /\ cur.opnds[i] = Reg(s)
                       \/ \E k \in 1..m : cur.form.implied[k] = s /\ i = n + k
          BY DEF IsOperand, n, m
        <5>4. \A i : IsOperand(s, cur', i) <=>
                       \/ i \in 1..n /\ cur.opnds[i] = Reg(s)
                       \/ \E k \in 1..(m + 1) : cur.form.implied[k] = s /\ i = n + k
          BY <2>5 DEF IsOperand, n
        <5> QED BY <2>r, <5>1, <5>2, <5>3, <5>4, Zenon
      <4>3. CASE s = r
        <5>0. \A x, y \in Nat : /\ x + (y + 1) \in Nat /\ (x + (y + 1)) - 1 = x + y
                              /\ \A i \in 1..x : i <= x + (y + 1)
          OBVIOUS
        <5>1. IsOperand(s, cur', n + (m + 1)) /\ n + (m + 1) \in Nat /\ (n + (m + 1)) - 1 = n + m
          BY <2>2, <4>2, <4>3, <5>0, Zenon
        <5>2. regs'[s] = Val((n + (m + 1)) - 1)
          BY <1>0, <2>1, <2>2, <2>3, <4>3, <5>1
        <5>3. \A i \in Nat : IsOperand(s, cur', i) => i <= n + (m + 1)
          <6>1. \A i \in Nat : IsOperand(s, cur, i) => i <= n + (m + 1)
            <7>1. \A i \in 1..n : i <= n + (m + 1)
              BY <2>2, <5>0, Zenon
            <7>2. \A k \in 1..m : n + k <= n + (m + 1)
              BY <2>2
            <7> QED BY <7>1, <7>2, Zenon DEF IsOperand, n, m
          <6>2. n + (m + 1) <= n + (m + 1)
            BY <2>2
          <6> QED BY <4>2, <6>1, <6>2, Zenon
        <5> QED BY <5>1, <5>2, <5>3, LastNew
      <4>4. CASE s # r
        <5>1. regs'[s] = regs[s]
          BY <1>0, <2>1, <2>3, <4>4
        <5>2. \A i \in Nat : IsOperand(s, cur', i) <=> IsOperand(s, cur, i)
          BY <4>2, <4>4
        <5> QED BY <4>1, <5>1, <5>2, LastKept
      <4> QED BY <4>3, <4>4
    <3>3. \A k \in 1..Len(cur'.opnds) : cur'.opnds[k].kind = "mem" => mem' = <<cur'.opnds[k].addr, Val(k - 1)>>
      BY <2>1, <2>2, <2>5 DEF Filled
    <3> QED BY <2>1, <3>2, <3>3 DEF Filled
  <2> QED BY <1>a, <2>1, <2>7, <2>8 DEF Valued
<1>3. CASE EndImplied
  <2> DEFINE code == [k \in DOMAIN cur.form.lea |-> <<cur.form.lea[k], Label(k)>>]
  <2>1. /\ phase = "implied" /\ cur.implied = Len(cur.form.implied) /\ regs' = Run(code, regs) /\ phase' = "insert"
        /\ UNCHANGED <<stat, cur, mem>>
    BY <1>3 DEF EndImplied
  <2>2. \A k \in DOMAIN code : code[k][1] = cur.form.lea[k] /\ k \in DOMAIN cur.form.lea
    BY <1>0, LeaCode
  <2> HIDE DEF code
  <2>3. Numbered'
    BY <1>0, <2>1 DEF Numbered
  <2>4. ASSUME cur.init
        PROVE  Filled'
    <3>1. ASSUME NEW r \in RegNames, ~InAddress(r, cur), r \notin ToSet(cur.form.lea)
          PROVE  LastLoaded(r, cur, regs')
      <4>1. LastLoaded(r, cur, regs)
        BY <1>0, <2>1, <2>4, <3>1 DEF Filled
      <4>2. \A k \in DOMAIN code : code[k][1] # r
        BY <2>2, <3>1 DEF ToSet
      <4>3. regs'[r] = regs[r]
        BY <1>0, <2>1, <4>2, RunKeeps
      <4> QED BY <4>1, <4>3, LastKept, Zenon
    <3> QED BY <1>0, <2>1, <2>4, <3>1 DEF Filled
  <2> QED BY <1>a, <2>1, <2>3, <2>4 DEF Valued
<1>4. CASE InsertInsn
  <2>1. /\ phase = "insert" /\ phase' = "inserted"
        /\ regs' = IF stat.has_mem_opnd THEN Run(stat.init_mem_addr, regs) ELSE regs
        /\ UNCHANGED <<stat, cur, mem>>
    BY <1>4 DEF InsertInsn
  <2>2. Numbered'
    BY <1>0, <2>1 DEF Numbered
  <2>3. ASSUME cur.init
        PROVE  Filled'
    <3>1. ASSUME NEW r \in RegNames, ~InAddress(r, cur), r \notin ToSet(cur.form.lea)
          PROVE  LastLoaded(r, cur, regs')
      <4>1. LastLoaded(r, cur, regs)
        BY <1>0, <2>1, <2>3, <3>1 DEF Filled
      <4>2. regs'[r] = regs[r]
        <5>1. CASE stat.has_mem_opnd
          <6>1. PICK k \in 1..Len(cur.opnds) : cur.opnds[k].kind = "mem" /\ SetsUp(stat.init_mem_addr, cur.opnds[k])
            BY <1>0, <5>1 DEF MemKept
          <6>2. r \notin {cur.opnds[k].base, cur.opnds[k].index}
            BY <3>1, <6>1 DEF InAddress
          <6>3. \A j \in DOMAIN stat.init_mem_addr : stat.init_mem_addr[j][1] # r
            BY <6>1, <6>2 DEF SetsUp
          <6> QED BY <1>0, <2>1, <5>1, <6>3, RunKeeps
        <5> QED BY <2>1, <5>1
      <4> QED BY <4>1, <4>2, LastKept, Zenon
    <3> QED BY <1>0, <2>1, <2>3, <3>1 DEF Filled
  <2> QED BY <1>a, <2>1, <2>2, <2>3 DEF Valued
<1>5. CASE EndElem
  <2>1. phase' = "idle" /\ cur'.reqs = {}
    BY <1>5 DEF EndElem, Idle
  <2> QED BY <1>a, <2>1 DEF Valued
<1> QED BY <1>1, <1>2, <1>3, <1>4, <1>5

\* The invariant is kept.
LEMMA ValuedAlways ==
  ASSUME TidyTemplates, OneAddress, NumbersKept
  PROVE  Spec => []Valued
<1>1. Init => Valued
  <2>1. Init => phase = "idle" /\ cur.reqs = {}
    BY DEF Init, Idle
  <2> QED BY <2>1, InitAddressed DEF Valued
<1>2. Valued /\ [Next]_vars => Valued'
  <2>1. ASSUME Valued, Next PROVE Valued'
    BY <2>1, WalkValued, OperandValued, InsnValued DEF Next, Generate
  <2>2. ASSUME Valued, UNCHANGED vars PROVE Valued'
    <3>1. /\ phase' = phase /\ stat' = stat /\ var' = var /\ cur' = cur /\ regs' = regs /\ mem' = mem
          /\ elems' = elems /\ lock_reg_cases' = lock_reg_cases /\ looping' = looping
      BY <2>2 DEF vars
    <3>2. Typed'
      BY <2>2, <3>1 DEF Valued, Addressed, Typed
    <3>3. Addressed'
      BY <2>2, <3>1, <3>2 DEF Valued, Addressed
    <3>4. phase # "idle" => Numbered'
      BY <2>2, <3>1 DEF Valued, Numbered
    <3>5. phase # "idle" /\ cur.init => Filled'
      BY <2>2, <3>1 DEF Valued, Filled
    <3> QED BY <2>2, <3>1, <3>3, <3>4, <3>5 DEF Valued
  <2> QED BY <2>1, <2>2
<1> QED BY <1>1, <1>2, PTL DEF Spec

\* OwnValue: request_trv_node and request_val_node, which take the operand number from the state, are
\* called with the number of the operand, one that its knowledge has, although the instructions
\* generated for initial values move that number.
THEOREM ValuesByNumber ==
  ASSUME TidyTemplates, OneAddress, NumbersKept
  PROVE  Spec => []OwnValue
<1>1. Spec => []Valued
  BY ValuedAlways
<1>2. Valued => OwnValue
  BY Zenon DEF Valued, Numbered, OwnValue
<1> QED BY <1>1, <1>2, PTL

\* ValuesAtInsn: when an instruction that is to have initial values executes, its memory operand and
\* its registers hold them, each register the one for the last operand it is, except for those
\* loaded with addresses in front of it (init_opnd, init_implied_operands, one_insn_gen).
THEOREM ValuesArrive ==
  ASSUME TidyTemplates, OneAddress, NumbersKept
  PROVE  Spec => []ValuesAtInsn
<1>1. Spec => []Valued
  BY ValuedAlways
<1>2. Valued => ValuesAtInsn
  <2> SUFFICES ASSUME Valued, AtInsn, cur.init PROVE
        /\ \A i \in DOMAIN cur.opnds : cur.opnds[i].kind = "mem" => mem = <<cur.opnds[i].addr, Val(i - 1)>>
        /\ \A r \in (GPRs \cup {"X"}) \ (AddressRegs \cup ToSet(cur.form.lea)) :
             LET opnds == {i \in DOMAIN cur.opnds : cur.opnds[i] = Reg(r)}
                 implied == {Len(cur.opnds) + k : k \in {k \in DOMAIN cur.form.implied :
                                                           cur.form.implied[k] = r}}
                 all == opnds \cup implied
             IN all # {} => \E last \in all : (\A i \in all : i <= last) /\ regs[r] = Val(last - 1)
    BY Zenon DEF ValuesAtInsn
  <2>1. PICK S : cur.opnds \in Seq(S)
    BY DEF Valued, Addressed, Typed, CurTyped
  <2>2. phase = "inserted" /\ Filled /\ cur.implied = Len(cur.form.implied) /\ cur.form \in Forms
    BY DEF AtInsn, Valued, Filled, Addressed, Typed, CurTyped
  <2>3. DOMAIN cur.opnds = 1..Len(cur.opnds) /\ Len(cur.opnds) \in Nat /\ DOMAIN cur.form.implied = 1..cur.implied
        /\ cur.implied \in Nat
    <3>1. cur.form.implied \in Seq(RegNames)
      BY <2>2, FormFacts
    <3> QED BY <2>1, <2>2, <3>1
  <2>4. \A i \in DOMAIN cur.opnds : cur.opnds[i].kind = "mem" => mem = <<cur.opnds[i].addr, Val(i - 1)>>
    BY <2>2, <2>3 DEF Filled
  <2>5. ASSUME NEW r \in (GPRs \cup {"X"}) \ (AddressRegs \cup ToSet(cur.form.lea))
        PROVE  LET opnds == {i \in DOMAIN cur.opnds : cur.opnds[i] = Reg(r)}
                   implied == {Len(cur.opnds) + k : k \in {k \in DOMAIN cur.form.implied :
                                                             cur.form.implied[k] = r}}
                   all == opnds \cup implied
               IN all # {} => \E last \in all : (\A i \in all : i <= last) /\ regs[r] = Val(last - 1)
    <3> DEFINE opnds == {i \in DOMAIN cur.opnds : cur.opnds[i] = Reg(r)}
               implied == {Len(cur.opnds) + k : k \in {k \in DOMAIN cur.form.implied : cur.form.implied[k] = r}}
               all == opnds \cup implied
    <3>1. r \in RegNames /\ r \notin ToSet(cur.form.lea)
      BY DEF RegNames
    <3>2. ~InAddress(r, cur)
      <4> SUFFICES ASSUME NEW k \in 1..Len(cur.opnds), cur.opnds[k].kind = "mem",
                          r \in {cur.opnds[k].base, cur.opnds[k].index}
                   PROVE  FALSE
        BY DEF InAddress
      <4>1. cur.opnds[k] \in MemOpnds
        BY <2>3 DEF MemOpnds, ToSet
      <4>2. r \in AddressRegs
        BY <4>1 DEF AddressRegs
      <4> QED BY <4>2
    <3>3. LastLoaded(r, cur, regs)
      BY <2>2, <3>1, <3>2 DEF Filled
    <3>4. \A i : i \in all <=> IsOperand(r, cur, i)
      BY <2>3 DEF IsOperand
    <3>5. all \subseteq Nat
      <4>1. \A i \in 1..Len(cur.opnds) : i \in Nat
        BY <2>3
      <4>2. \A k \in 1..cur.implied : Len(cur.opnds) + k \in Nat
        BY <2>3
      <4> QED BY <2>3, <4>1, <4>2
    <3> HIDE DEF all
    <3>6. all # {} => \E last \in all : (\A i \in all : i <= last) /\ regs[r] = Val(last - 1)
      <4>1. all # {} => \E i \in Nat : IsOperand(r, cur, i)
        BY <3>4, <3>5
      <4> QED BY <3>3, <3>4, <3>5, <4>1, Zenon DEF LastLoaded
    <3> QED BY <3>6 DEF all
  <2> QED BY <2>4, <2>5
<1> QED BY <1>1, <1>2, PTL
=============================================================================

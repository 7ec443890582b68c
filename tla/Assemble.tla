------------------------------ MODULE Assemble ------------------------------
(***************************************************************************)
(* From the text of an instruction to its bytes: the operand parser of     *)
(* engine/generator.c with the sums of engine/eval.c, and                  *)
(* engine/assemble.c.  A text is a sequence of prefixes, an opcode and     *)
(* operands; an address is a sum of registers, each with a multiplier (0   *)
(* if none is written) and a number.                                       *)
(***************************************************************************)
EXTENDS InsnTable

nasm_instructions(opcode) == SelectSeq(Templates, LAMBDA t : t.opcode = opcode)

-----------------------------------------------------------------------------
(* The parser.                                                             *)

Slots == <<"WAIT", "REP", "LOCK", "OSIZE", "ASIZE">>
prefix_slot == [WAIT |-> "WAIT", REP |-> "REP", REPE |-> "REP", REPNE |-> "REP", LOCK |-> "LOCK",
                O16 |-> "OSIZE", O32 |-> "OSIZE", A16 |-> "ASIZE", A32 |-> "ASIZE"]
NoPrefixes == [s \in ToSet(Slots) |-> "none"]

\* Registers of addresses, in the order of reg_enum.
EARegs == <<"AX", "BP", "BX", "CX", "DI", "DX", "EAX", "EBP", "EBX", "ECX", "EDI", "EDX", "ESI", "ESP", "SI", "SP">>
Terms == [r \in ToSet(EARegs) |-> 0]

\* expr6: a register that comes first is to be the base.
MakeBase(hint, reg) == IF hint.type = "NOHINT" THEN [type |-> "MAKEBASE", base |-> reg] ELSE hint

scalar_mult(hint, reg) ==
  IF hint.type = "MAKEBASE" /\ hint.base = reg THEN [hint EXCEPT !.type = "NOTBASE"] ELSE hint

add_vectors(e, reg, mul, hint) ==
  [vec |-> [e.vec EXCEPT ![reg] = @ + mul],
   hint |-> IF e.vec[reg] # 0 THEN [hint EXCEPT !.type = "SUMMED"] ELSE hint]

evaluate(terms) ==
  FoldLeft(LAMBDA e, t : LET h == MakeBase(e.hint, t.reg)
                         IN IF t.mul = 0 THEN add_vectors(e, t.reg, 1, h)
                            ELSE add_vectors(e, t.reg, t.mul, scalar_mult(h, t.reg)),
           [vec |-> Terms, hint |-> [type |-> "NOHINT", base |-> "none"]], terms)

NoOperand == [type |-> {}, basereg |-> "none", indexreg |-> "none", scale |-> 0, offset |-> Zero, disp_size |-> 0,
              hintbase |-> "none", hinttype |-> "NOHINT", ok |-> TRUE]

parse_mref(vec) ==
  FoldLeft(LAMBDA op, r :
             CASE vec[r] = 0 -> op
               [] vec[r] = 1 /\ op.basereg = "none" -> [op EXCEPT !.basereg = r]
               [] vec[r] # 0 /\ ~(vec[r] = 1 /\ op.basereg = "none") /\ op.indexreg = "none"
                    -> [op EXCEPT !.indexreg = r, !.scale = vec[r]]
               [] OTHER -> [op EXCEPT !.ok = FALSE],
           NoOperand, EARegs)

mref_set_optype(op) ==
  MEMORY_ANY \cup IF op.basereg = "none" /\ op.indexreg = "none" THEN MEM_OFFS ELSE {}

Sized(size) == IF size = "" THEN {} ELSE {size}

\* One round of the operand loop.
operand(o) ==
  CASE o.kind = "reg" -> [NoOperand EXCEPT !.type = (IF o.to THEN {"TO"} ELSE {}) \cup nasm_reg_flags[o.reg],
                                           !.basereg = o.reg]
    [] o.kind = "imm" -> [NoOperand EXCEPT !.type = Sized(o.size) \cup IMMEDIATE, !.offset = Value(o.num)]
    [] o.kind = "mem" ->
         LET e == evaluate(o.terms)
             op == parse_mref(e.vec)
         IN [op EXCEPT !.type = Sized(o.size) \cup mref_set_optype(op), !.offset = Value(o.num), !.disp_size = o.disp_size,
                       !.hintbase = e.hint.base, !.hinttype = e.hint.type]

\* At most one prefix is read.
one_insn_gen(text) ==
  [ok |-> Len(text.prefixes) <= 1 /\ \A i \in DOMAIN text.opnds : operand(text.opnds[i]).ok,
   prefixes |-> FoldLeft(LAMBDA p, x : [p EXCEPT ![prefix_slot[x]] = x], NoPrefixes, text.prefixes),
   opcode |-> text.opcode,
   oprs |-> [i \in DOMAIN text.opnds |-> operand(text.opnds[i])],
   addr_size |-> 32, error |-> FALSE, rex |-> {}]

-----------------------------------------------------------------------------
(* Address size; an impossible combination is reported and assembled.      *)

RegBits(reg) == IF reg = "none" THEN {} ELSE nasm_reg_flags[reg] \cap {"16", "32"}

\* Address sizes that an operand asks for.
AddressBits(op) ==
  RegBits(op.basereg) \cup RegBits(op.indexreg)
  \cup IF op.basereg = "none" /\ op.indexreg = "none"
       THEN CASE op.disp_size = 16 -> {"16"} [] op.disp_size = 32 -> {"32"} [] OTHER -> {}
       ELSE {}

add_asp(ins) ==
  LET asked == CASE ins.prefixes["ASIZE"] = "A16" -> {"16"} [] ins.prefixes["ASIZE"] = "A32" -> {"32"}
                 [] OTHER -> {"16", "32"}
      mems == {i \in DOMAIN ins.oprs : is_class(MEMORY, ins.oprs[i].type)}
      needed == UNION {AddressBits(ins.oprs[i]) : i \in mems}
      valid == {s \in asked : needed \subseteq {s}}
      pfx == "32" \notin valid /\ "16" \in valid
      size == IF pfx THEN 16 ELSE 32
      strip(op) == IF is_class(MEM_OFFS, op.type) /\ op.disp_size \notin {0, size}
                   THEN [op EXCEPT !.type = @ \ (MEM_OFFS \ MEMORY)] ELSE op
  IN [ins EXCEPT !.oprs = [i \in DOMAIN @ |-> strip(@[i])], !.error = (valid = {}), !.addr_size = size, !.prefixes["ASIZE"] = IF pfx THEN "A16" ELSE @]

-----------------------------------------------------------------------------
(* Templates.                                                              *)

\* The size an S flag stands for, by operand; AR2 stands for the fourth operand.
SizeFlags == [SB |-> "8", SW |-> "16", SD |-> "32", SQ |-> "64", SO |-> "128", SIZE |-> "32"]
asize(t) == {SizeFlags[f] : f \in t.flags \cap DOMAIN SizeFlags}
itemp_arg(t) == CASE "AR0" \in t.flags -> {1} [] "AR1" \in t.flags -> {2} [] "AR2" \in t.flags -> {4}
                  [] OTHER -> 1..4

OprSize(t, ins, i) ==
  LET given == ins.oprs[i].type \cap SIZE_MASK
  IN IF given # {} \/ i \notin itemp_arg(t) THEN given ELSE asize(t)

\* Sizes allowed for an operand whose size the template leaves open.
AllowedSize(t, i) ==
  LET n == IF "SM2" \in t.flags THEN 2 ELSE Len(t.opd)
      first == {k \in 1..n : t.opd[k] \cap SIZE_MASK # {} /\ \A l \in 1..(k - 1) : t.opd[l] \cap SIZE_MASK = {}}
  IN IF t.flags \cap {"SM", "SM2"} # {} /\ first # {} /\ i <= n
     THEN UNION {t.opd[k] \cap SIZE_MASK : k \in first}
     ELSE IF i \in itemp_arg(t) THEN asize(t) ELSE {}

matches(t, ins) ==
  LET ops == DOMAIN t.opd
      want(i) == t.opd[i] \cap SIZE_MASK
      type(i) == ins.oprs[i].type
      wrong(i) == \/ (type(i) \cap {"TO"}) \ t.opd[i] # {}
                  \/ (t.opd[i] \ SIZE_MASK) \ type(i) # {}
                  \/ want(i) # {} /\ OprSize(t, ins, i) \notin {{}, want(i)}
      missing(i) == want(i) # {} /\ OprSize(t, ins, i) = {} /\ ~is_class({"REGISTER"}, type(i))
      extra(i) == want(i) = {} /\ (type(i) \cap SIZE_MASK) \ AllowedSize(t, i) # {}
  IN IF Len(t.opd) # Len(ins.oprs) THEN "INVALOP"
     ELSE IF \E i \in ops : wrong(i) THEN "INVALOP"
     ELSE IF \E i \in ops : missing(i) THEN "OPSIZEMISSING"
     ELSE IF \E i \in ops : extra(i) THEN "OPSIZEMISMATCH"
     ELSE IF "LONG" \in t.flags THEN "BADMODE" ELSE "GOOD"

FirstGood(ts, ins) ==
  LET good == {k \in DOMAIN ts : matches(ts[k], ins) = "GOOD"}
  IN IF good = {} THEN << >> ELSE <<ts[CHOOSE k \in good : \A l \in good : k <= l]>>

\* The sizes of the templates that lack nothing but a size.
Fuzzy(ts, ins, i) ==
  (ins.oprs[i].type \cap SIZE_MASK)
  \cup UNION {ts[k].opd[i] \cap SIZE_MASK :
              k \in {l \in DOMAIN ts : matches(ts[l], ins) = "OPSIZEMISSING" /\ "SX" \notin ts[l].flags}}

\* The instruction with the sizes found, and the template, if there is one of ts.
MatchAmong(ts, ins) ==
  LET open == {i \in DOMAIN ins.oprs : ~is_class({"REGISTER"}, ins.oprs[i].type)}
      guess == [ins EXCEPT !.oprs = [i \in DOMAIN ins.oprs |->
                  IF i \in open THEN [ins.oprs[i] EXCEPT !.type = @ \cup Fuzzy(ts, ins, i)] ELSE ins.oprs[i]]]
  IN IF FirstGood(ts, ins) # << >> THEN [ins |-> ins, temp |-> FirstGood(ts, ins)]
     ELSE IF \E i \in open : Cardinality(Fuzzy(ts, ins, i)) > 1 THEN [ins |-> ins, temp |-> << >>]
     ELSE [ins |-> guess, temp |-> FirstGood(ts, guess)]

find_match(ins) == MatchAmong(nasm_instructions(ins.opcode), ins)

-----------------------------------------------------------------------------
(* Effective addresses.                                                    *)

EA(mod, reg, rm, sib, disp) ==
  [ok |-> TRUE, modrm |-> mod * 64 + (reg % 8) * 8 + rm, sib |-> sib, disp |-> disp]
EA_INVALID == [ok |-> FALSE, modrm |-> 0, sib |-> << >>, disp |-> << >>]

\* Fault: 128 counts as a signed byte.
IS_MOD_01_128(o) == o = SignExt(Low(o, 1)) \/ o = <<128, 0, 0, 0>>

IS_MOD_01(o) == o = SignExt(Low(o, 1))

Mod(o, base_ebp) == IF o = Zero /\ ~base_ebp THEN 0 ELSE IF IS_MOD_01(o) THEN 1 ELSE 2

\* Bytes of displacement.
DispLen(mod, full) == IF mod = 2 THEN full ELSE mod

process_ea_16(op, rfield) ==
  LET o == SignExt(Low(op.offset, 2))
      one == {op.basereg, op.indexreg} \ {"none"}
      rms == <<{"BX", "SI"}, {"BX", "DI"}, {"BP", "SI"}, {"BP", "DI"}, {"SI"}, {"DI"}, {"BP"}, {"BX"}>>
      rm == CHOOSE n \in 0..7 : rms[n + 1] = one
      mod == Mod(o, one = {"BP"})
  IN IF op.disp_size = 32 \/ one \notin ToSet(rms) \/ (op.indexreg # "none" /\ op.scale # 1) THEN EA_INVALID
     ELSE EA(mod, rfield, rm, << >>, Low(op.offset, DispLen(mod, 2)))

\* Fault: ESP stays where it is.
SwapESP_Not(x) == x

\* swap ESP into base if scale is 1
SwapESP(x) == IF x.s = 1 /\ x.i = "ESP" THEN [x EXCEPT !.b = x.i, !.i = x.b] ELSE x

\* Base, index and scale, from the registers as they were written.
Arrange(op) ==
  LET b == op.basereg  i == op.indexreg  s == op.scale  hb == op.hintbase  ht == op.hinttype
      x1 == [b |-> b, i |-> i, s |-> s]
      \* swap if hints say so
      x2 == IF s = 1 /\ b # i /\ b # "none" /\ i # "none"
               /\ ((hb = b /\ ht = "NOTBASE") \/ (hb = i /\ ht = "MAKEBASE"))
            THEN [x1 EXCEPT !.b = i, !.i = b] ELSE x1
      \* make single reg base, unless hint
      x3 == IF x2.b = "none" /\ s = 1 /\ ~(hb = i /\ ht = "NOTBASE") THEN [x2 EXCEPT !.b = x2.i, !.i = "none"] ELSE x2
      \* convert 3*EAX to EAX+2*EAX
      x4 == IF ((s = 2 /\ x3.i # "ESP") \/ s \in {3, 5, 9}) /\ x3.b = "none"
            THEN [b |-> x3.i, i |-> x3.i, s |-> s - 1] ELSE x3
  IN SwapESP(x4)

NeedsSIB(x) == x.i # "none" \/ x.b = "ESP"

ScaleBits == [s \in {1, 2, 4, 8} |-> CASE s = 1 -> 0 [] s = 2 -> 1 [] s = 4 -> 2 [] s = 8 -> 3]

\* of the registers x
Encode32(op, rfield, x) ==
  LET mod == IF x.b = "none" THEN 0 ELSE Mod(op.offset, x.b = "EBP")
      base == IF x.b = "none" THEN 5 ELSE nasm_regvals[x.b]
      disp == Low(op.offset, IF x.b = "none" THEN 4 ELSE DispLen(mod, 4))
      index == IF x.i = "none" THEN 4 ELSE nasm_regvals[x.i]
      scale == IF x.i = "none" THEN 1 ELSE x.s
  IN IF op.disp_size = 16 \/ x.i = "ESP" \/ scale \notin DOMAIN ScaleBits \/ ~(RegBits(x.b) \cup RegBits(x.i) \subseteq {"32"}) THEN EA_INVALID
     ELSE IF NeedsSIB(x) THEN EA(mod, rfield, 4, <<ScaleBits[scale] * 64 + index * 8 + base>>, disp)
     ELSE EA(mod, rfield, base, << >>, disp)

process_ea_32(op, rfield) == Encode32(op, rfield, Arrange(op))

process_ea_reg(op, rfield) ==
  IF is_class(REG_EA, nasm_reg_flags[op.basereg]) THEN EA(3, rfield, nasm_regvals[op.basereg], << >>, << >>)
  ELSE EA_INVALID

process_ea_offs(op, rfield, addr_size) ==
  IF addr_size = 16 THEN EA(0, rfield, 6, << >>, Low(op.offset, 2)) ELSE EA(0, rfield, 5, << >>, op.offset)

process_ea(op, rfield, addr_size) ==
  IF is_class({"REGISTER"}, op.type) THEN process_ea_reg(op, rfield)
  ELSE IF op.basereg = "none" /\ op.indexreg = "none" THEN process_ea_offs(op, rfield, addr_size)
  ELSE IF "32" \notin RegBits(op.basereg) \cup RegBits(op.indexreg) THEN process_ea_16(op, rfield)
  ELSE IF addr_size = 32 THEN process_ea_32(op, rfield) ELSE EA_INVALID

EASize(ea) == 1 + Len(ea.sib) + Len(ea.disp)
EAOf(ins, c) ==
  process_ea(ins.oprs[c.j], IF c.c = "/r" THEN nasm_regvals[ins.oprs[c.i].basereg] ELSE c.b, ins.addr_size)

-----------------------------------------------------------------------------
(* Prefixes, length and bytes.                                             *)

PrefixByte == [WAIT |-> <<155>>, LOCK |-> <<240>>, REPNE |-> <<242>>, REPE |-> <<243>>, REP |-> <<243>>,
               A16 |-> <<103>>, A32 |-> << >>, O16 |-> <<102>>, O32 |-> << >>, none |-> << >>]
emit_prefix(prefixes) == FlattenSeq([k \in DOMAIN Slots |-> PrefixByte[prefixes[Slots[k]]]])

\* Bytes of an immediate.
ImmLen(c, ins) ==
  CASE c \in {"ib", "ib,u", "ib,s"} -> 1 [] c = "iw" -> 2 [] c = "id" -> 4
    [] c = "iwdq" -> ins.addr_size \div 8

\* What a code adds to the length.
CodeLen(c, ins) ==
  CASE c.c \in {"lit", "+r", "prefix66", "prefixf2", "prefixf3"} -> 1
    [] c.c \in imm_codes -> ImmLen(c.c, ins)
    [] c.c \in {"/r", "/n"} -> EASize(EAOf(ins, c))
    [] OTHER -> 0

SetPrefix(ins, slot, p) == IF ins.prefixes[slot] = "none" THEN [ins EXCEPT !.prefixes[slot] = p] ELSE ins

\* CR8 is reached with a LOCK prefix as REX.R.
RexOf(ins, c) ==
  CASE c.c = "rex.l" -> {"L"}
    [] c.c = "/r" -> IF nasm_regvals[ins.oprs[c.i].basereg] >= 8 THEN {"R"} ELSE {}
    [] OTHER -> {}

calcsize_step(acc, c) ==
  LET ins == CASE c.c = "o16" -> SetPrefix(acc.ins, "OSIZE", "O16")
               [] c.c = "o32" -> SetPrefix(acc.ins, "OSIZE", "O32")
               [] c.c = "wait" -> SetPrefix(acc.ins, "WAIT", "WAIT")
               [] OTHER -> acc.ins
  IN [ins |-> [ins EXCEPT !.rex = @ \cup RexOf(ins, c),
                          !.ok = @ /\ (c.c \in {"/r", "/n"} => EAOf(ins, c).ok)],
      length |-> acc.length + CodeLen(c, ins)]

\* Fault: the prefixes are those of the text.
PrefixLen_Text(before, after) == Len(emit_prefix(before.prefixes))

PrefixLen(before, after) == Len(emit_prefix(after.prefixes))

\* The instruction with the prefixes it needs, and its length: w is what its codes have come to.
Counted(ins, w) ==
  LET lock_as_rex == {"R", "L"} \subseteq w.ins.rex
  IN [ins |-> [w.ins EXCEPT !.ok = @ /\ ("R" \in w.ins.rex => lock_as_rex),
                            !.error = @ \/ (lock_as_rex /\ ins.prefixes["LOCK"] # "none")],
      length |-> w.length + (IF lock_as_rex THEN 1 ELSE 0) + PrefixLen(ins, w.ins)]

calcsize(ins, t) == Counted(ins, FoldLeft(calcsize_step, [ins |-> ins, length |-> 0], t.code))

gencode_imm(c, ins) == Low(ins.oprs[c.i].offset, ImmLen(c.c, ins))
gencode_ea(ea) == <<ea.modrm>> \o ea.sib \o ea.disp

\* The bytes a code stands for.
CodeBytes(c, ins) ==
  CASE c.c = "lit" -> <<c.b>>
    [] c.c = "+r" -> <<c.b + (nasm_regvals[ins.oprs[c.i].basereg] % 8)>>
    [] c.c \in imm_codes -> gencode_imm(c, ins)
    [] c.c = "prefix66" -> <<102>> [] c.c = "prefixf2" -> <<242>> [] c.c = "prefixf3" -> <<243>>
    [] c.c = "rex.l" -> IF "R" \in ins.rex THEN <<240>> ELSE << >>
    [] c.c \in {"/r", "/n"} -> gencode_ea(EAOf(ins, c))
    [] OTHER -> << >>

gencode(ins, t) == emit_prefix(ins.prefixes) \o FlattenSeq([k \in DOMAIN t.code |-> CodeBytes(t.code[k], ins)])
=============================================================================

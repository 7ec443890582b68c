------------------------------- MODULE Disasm -------------------------------
(***************************************************************************)
(* From the bytes of an instruction to its text: disasm/disasm.c in 32-bit *)
(* mode.  All lines of insns.dat that fit the bytes are candidates; the    *)
(* one with the fewest prefixes left over is printed, among equals one the *)
(* preferred vendor has, among equals the first.                           *)
(***************************************************************************)
EXTENDS InsnTable

\* The buffer is zero behind the instruction.
At(data, k) == IF k <= Len(data) THEN data[k] ELSE 0
Bytes(data, k, n) == [i \in 1..n |-> At(data, k + i - 1)]

-----------------------------------------------------------------------------
(* Prefixes.                                                               *)

PrefixBytes == {242, 243, 155, 240, 102, 103}

\* The prefix bytes at the beginning: how many, and what they say.  The bytes that
\* start VEX, EVEX and XOP instructions do so only before a byte of 192 or more.
scan_prefixes(data) ==
  LET n == CHOOSE k \in 0..Len(data) :
             /\ \A i \in 1..k : data[i] \in PrefixBytes
             /\ k < Len(data) => data[k + 1] \notin PrefixBytes
      seen == {data[i] : i \in 1..n}
      reps == SelectSeq(SubSeq(data, 1, n), LAMBDA b : b \in {242, 243})
      next == At(data, n + 1)
  IN [n |-> n, rep |-> IF reps = << >> THEN 0 ELSE Last(reps), wait |-> 155 \in seen, lock |-> 240 \in seen,
      osp |-> 102 \in seen, asp |-> 103 \in seen,
      osize |-> IF 102 \in seen THEN 16 ELSE 32, asize |-> IF 103 \in seen THEN 16 ELSE 32,
      vex |-> next \in {196, 197, 98} /\ At(data, n + 2) >= 192,
      any |-> n < Len(data)]

-----------------------------------------------------------------------------
(* Operands.                                                               *)

NoOpr == [rmreg |-> FALSE, reg |-> 0, base |-> "none", index |-> "none", scale |-> 1,
          disp |-> 0, disp_size |-> 0, offset |-> Zero, signed |-> FALSE]

Sib(b) == [scale |-> 2 ^ (b \div 64), index |-> (b \div 8) % 8, base |-> b % 8]

\* An address with its displacement, and where the data goes on.
WithDisp(o, data, k, n) ==
  [opr |-> [o EXCEPT !.disp = n, !.offset = SignExt(Bytes(data, k, n))], next |-> k + n]

do_ea_16(o, mod, rm, data, k) ==
  LET base == <<"BX", "BX", "BP", "BP", "SI", "DI", "BP", "BX">>[rm + 1]
      index == <<"SI", "DI", "SI", "DI", "none", "none", "none", "none">>[rm + 1]
  IN IF rm = 6 /\ mod = 0 THEN WithDisp([o EXCEPT !.disp_size = 16], data, k, 2)
     ELSE LET m == [o EXCEPT !.base = base, !.index = index] IN WithDisp(m, data, k, mod)

do_ea_32(o, mod, rm, data, k) ==
  LET sib == Sib(At(data, k))
      size == CASE mod = 0 -> 0 [] mod = 1 -> 1 [] mod = 2 -> 4
      m == IF rm # 4 THEN [o EXCEPT !.base = nasm_rd_reg32[rm + 1]]
           ELSE [o EXCEPT !.scale = sib.scale, !.base = nasm_rd_reg32[sib.base + 1],
                          !.index = IF sib.index = 4 THEN "none" ELSE nasm_rd_reg32[sib.index + 1]]
      k2 == IF rm = 4 THEN k + 1 ELSE k
  IN IF mod = 0 /\ (rm = 5 \/ (rm = 4 /\ sib.base = 5)) 
     THEN WithDisp([m EXCEPT !.base = "none", !.disp_size = IF rm = 5 THEN 32 ELSE 0], data, k2, 4)
     ELSE WithDisp(m, data, k2, size)

do_ea(o, modrm, asize, data, k) ==
  LET mod == modrm \div 64  rm == modrm % 8
  IN IF mod = 3 THEN [opr |-> [o EXCEPT !.rmreg = TRUE, !.reg = rm], next |-> k]
     ELSE IF asize = 16 THEN do_ea_16(o, mod, rm, data, k) ELSE do_ea_32(o, mod, rm, data, k)

SpecificRegs == <<"AL", "AX", "EAX", "DL", "DX", "EDX", "CL", "CX", "ECX", "ST0", "XMM0",
                  "ES", "CS", "SS", "DS", "FS", "GS">>
ClassRegs == <<<<REG_GPR \cup {"8"}, nasm_rd_reg8>>, <<REG_GPR \cup {"16"}, nasm_rd_reg16>>,
               <<REG_GPR \cup {"32"}, nasm_rd_reg32>>, <<REG_SREG, nasm_rd_sreg>>, <<REG_CREG, nasm_rd_creg>>,
               <<FPUREG, nasm_rd_fpureg>>, <<RM_MMX \cup {"REGISTER"}, nasm_rd_mmxreg>>,
               <<{"XMM", "REGMEM", "REGISTER"}, nasm_rd_xmmreg>>>>

\* The register an operand of a template names, "none" if it cannot be one.
whichreg(flags, regval) ==
  LET rf == flags \cup {"REGISTER"}
      specific == SelectSeq(SpecificRegs, LAMBDA r : nasm_reg_flags[r] \subseteq rf)
      class == SelectSeq(ClassRegs, LAMBDA c : c[1] \subseteq rf)
  IN IF flags \cap REG_EA = {} THEN "none"
     ELSE IF specific # << >> THEN specific[1]
     ELSE IF class # << >> /\ regval < Len(class[1][2]) THEN class[1][2][regval + 1] ELSE "none"

-----------------------------------------------------------------------------
(* One template.                                                           *)

\* What one byte code does with the data: acc.ok says whether it still fits.
match_imm(acc, c, data, asize) ==
  LET n == CASE c.c \in {"ib", "ib,u", "ib,s"} -> 1 [] c.c = "iw" -> 2 [] c.c = "id" -> 4
             [] c.c = "iwdq" -> asize \div 8
      b == Bytes(data, acc.k, n)
  IN [acc EXCEPT !.k = @ + n, !.oprs[c.i].offset = IF c.c = "ib,s" THEN SignExt(b) ELSE ZeroExt(b),
                 !.oprs[c.i].signed = (c.c = "ib,s"),
                 !.oprs[c.i].disp_size = IF c.c = "iwdq" /\ asize = 16 THEN 16 ELSE 0]

\* /r: a register and an address or register.
match_ea(acc, c, data, asize) ==
  LET modrm == At(data, acc.k)
      ea == do_ea(acc.oprs[c.j], modrm, asize, data, acc.k + 1)
  IN [acc EXCEPT !.oprs = [@ EXCEPT ![c.j] = ea.opr, ![c.i].rmreg = TRUE,
                                    ![c.i].reg = ((modrm \div 8) % 8) + IF acc.rexr THEN 8 ELSE 0],
                 !.k = ea.next]

\* /0 to /7: the spare field is part of the code.
match_spare(acc, c, data, asize) ==
  LET modrm == At(data, acc.k)
      ea == do_ea(acc.oprs[c.j], modrm, asize, data, acc.k + 1)
  IN [acc EXCEPT !.oprs[c.j] = ea.opr, !.k = ea.next, !.ok = @ /\ ((modrm \div 8) % 8) = c.b]

match_byte(acc, c, data) ==
  LET d == At(data, acc.k)
  IN IF c.c = "lit" THEN [acc EXCEPT !.k = @ + 1, !.ok = @ /\ d = c.b]
     ELSE [acc EXCEPT !.k = @ + 1, !.ok = @ /\ d \in c.b..(c.b + 7),
                      !.oprs[c.i].reg = d - c.b, !.oprs[c.i].rmreg = TRUE]

NoPrefix(p) == ~p.osp /\ p.rep = 0

match_prefix(acc, c, p) ==
  CASE c.c = "o16" -> [acc EXCEPT !.ok = @ /\ acc.osize = 16, !.oused = TRUE]
    [] c.c = "o32" -> [acc EXCEPT !.ok = @ /\ acc.osize = 32, !.oused = TRUE]
    [] c.c = "o64nw" -> [acc EXCEPT !.osize = 64, !.oused = TRUE]
    [] c.c = "nof3" -> [acc EXCEPT !.ok = @ /\ p.rep # 243]
    [] c.c = "prefixf2" -> [acc EXCEPT !.ok = @ /\ p.rep = 242, !.drep = "none"]
    [] c.c = "prefixf3" -> [acc EXCEPT !.ok = @ /\ p.rep = 243, !.drep = "none"]
    [] c.c = "rex.l" -> [acc EXCEPT !.rexr = acc.lock, !.lock = FALSE]
    [] c.c = "repe" -> [acc EXCEPT !.drep = IF @ = "REP" THEN "REPE" ELSE @]
    [] c.c = "wait" -> [acc EXCEPT !.ok = @ /\ p.wait, !.dwait = FALSE]
    [] c.c = "np" -> [acc EXCEPT !.ok = @ /\ NoPrefix(p)]
    [] c.c = "prefix66" -> [acc EXCEPT !.ok = @ /\ p.osp /\ p.rep = 0, !.oused = TRUE]
    [] OTHER -> acc

Rep == [b \in {0, 242, 243} |-> CASE b = 0 -> "none" [] b = 242 -> "REPNE" [] b = 243 -> "REP"]

\* The prefixes that the template leaves over, in the order of the slots.
LeftOver(acc, t, p) ==
  (IF acc.dwait THEN <<"WAIT">> ELSE << >>) \o (IF acc.drep # "none" THEN <<acc.drep>> ELSE << >>)
  \o (IF acc.lock THEN <<"LOCK">> ELSE << >>)
  \o (IF ~acc.oused /\ acc.osize = 16 THEN <<"O16">> ELSE << >>)
  \o (IF t.opd = << >> /\ p.asize = 16 THEN <<"A16">> ELSE << >>)

\* A template against the bytes from k on.
disasm_matches(t, data, k, p) ==
  LET start == [ok |-> "LONG" \notin t.flags, k |-> k, oprs |-> [i \in DOMAIN t.opd |-> NoOpr],
                osize |-> p.osize, oused |-> FALSE, drep |-> Rep[p.rep], dwait |-> p.wait, lock |-> p.lock,
                rexr |-> FALSE]
      end == FoldLeft(LAMBDA acc, c :
                        IF c.c \in imm_codes THEN match_imm(acc, c, data, p.asize)
                        ELSE IF c.c = "/r" THEN match_ea(acc, c, data, p.asize)
                        ELSE IF c.c = "/n" THEN match_spare(acc, c, data, p.asize)
                        ELSE IF c.c \in {"lit", "+r"} THEN match_byte(acc, c, data)
                        ELSE match_prefix(acc, c, p),
                      start, t.code)
  IN [works |-> end.ok, length |-> end.k - k, oprs |-> end.oprs, prefixes |-> LeftOver(end, t, p), temp |-> t]

-----------------------------------------------------------------------------
(* The best template.                                                      *)

AsRegister(flags, o) == flags \cap {"REGISTER", "FPU"} # {} \/ o.rmreg

TypesMatch(m) ==
  \A i \in DOMAIN m.oprs : LET opd == m.temp.opd[i]  o == m.oprs[i] IN
    /\ ~(o.rmreg /\ is_class(MEMORY, opd))
    /\ ~(~o.rmreg /\ is_class(REG_EA, opd) /\ opd \cap REG_SMASK = {})
    /\ AsRegister(opd, o) => whichreg(opd, o.reg) # "none"

\* iflag_pfmask xor prefer, as a number: the bit of AMD is above that of CYRIX.
Goodness(t, prefer) ==
  (IF ("CYRIX" \in t.flags) # ("CYRIX" \in prefer) THEN 1 ELSE 0)
  + (IF ("AMD" \in t.flags) # ("AMD" \in prefer) THEN 2 ELSE 0)

Better(m, best, prefer) ==
  \/ Len(m.prefixes) < Len(best.prefixes)
  \/ Len(m.prefixes) = Len(best.prefixes) /\ Goodness(m.temp, prefer) < Goodness(best.temp, prefer)

\* The templates whose first byte a byte can be.
StartBytes(t) == LET c == SelectSeq(t.code, LAMBDA d : d.c \in {"lit", "+r"})[1]
                 IN IF c.c = "lit" THEN {c.b} ELSE c.b..(c.b + 7)
itable == [b \in 0..255 |-> SelectSeq(Templates, LAMBDA t : b \in StartBytes(t))]

Candidates(data, p) ==
  LET ts == IF p.vex \/ ~p.any THEN << >> ELSE itable[At(data, p.n + 1)] IN
  SelectSeq([n \in DOMAIN ts |-> disasm_matches(ts[n], data, p.n + 1, p)],
            LAMBDA m : m.works /\ "ND" \notin m.temp.flags /\ m.length > 0 /\ TypesMatch(m))

\* The best candidate as a sequence of length 1, or none.
Best(candidates, prefer) ==
  FoldLeft(LAMBDA best, m : IF best = << >> THEN <<m>> ELSE IF Better(m, best[1], prefer) THEN <<m>> ELSE best,
           << >>, candidates)

-----------------------------------------------------------------------------
(* The text.                                                               *)

SizeName(flags) == LET n == flags \cap SIZE_MASK IN IF n = {} THEN "" ELSE CHOOSE s \in n : TRUE

\* Fault: the sign of a byte displacement is lost.
SignedNum_Unsigned(v, n) == Num(FALSE, ZeroExt(Low(v, n)))

\* A number of n bytes, negative ones with their sign.
SignedNum(v, n) ==
  IF Negative(Low(v, n)) THEN Num(TRUE, ZeroExt(Neg(Low(v, n)))) ELSE Num(FALSE, ZeroExt(Low(v, n)))

ImmText(flags, o) ==
  [kind |-> "imm", size |-> SizeName(flags),
   num |-> IF is_class(UNITY, flags) THEN Num(FALSE, ZeroExt(<<1>>))
           ELSE IF o.signed /\ "8" \in flags THEN SignedNum(o.offset, 4) ELSE Num(FALSE, o.offset)]

\* An address without registers is printed as it is.
MemText(flags, o) ==
  LET base == IF o.base = "none" THEN << >> ELSE <<[reg |-> o.base, mul |-> 0]>>
      index == IF o.index = "none" THEN << >> ELSE <<[reg |-> o.index, mul |-> IF o.scale > 1 THEN o.scale ELSE 0]>>
      num == IF base \o index = << >> THEN Num(FALSE, ZeroExt(Low(o.offset, o.disp)))
             ELSE SignedNum(o.offset, o.disp)
  IN [kind |-> "mem", size |-> SizeName(flags), disp_size |-> o.disp_size, terms |-> base \o index, num |-> num]

OperandText(flags, o) ==
  IF AsRegister(flags, o) THEN [kind |-> "reg", reg |-> whichreg(flags, o.reg), to |-> "TO" \in flags]
  ELSE IF "IMMEDIATE" \in flags THEN ImmText(flags, o)
  ELSE IF is_class(MEM_OFFS, flags)
       THEN [kind |-> "mem", size |-> "", disp_size |-> o.disp_size, terms |-> << >>, num |-> Num(FALSE, o.offset)]
  ELSE MemText(flags, o)

PrintInsn(m) ==
  [prefixes |-> m.prefixes, opcode |-> m.temp.opcode,
   opnds |-> [i \in DOMAIN m.oprs |-> OperandText(m.temp.opd[i], m.oprs[i])]]
=============================================================================

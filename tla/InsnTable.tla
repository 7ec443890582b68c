----------------------------- MODULE InsnTable -----------------------------
(***************************************************************************)
(* What the assembler and the disassembler share: numbers, registers,      *)
(* operand types and the byte codes that x86/insns.pl compiles from        *)
(* insns.dat.  Flags are named bits, one name for each bit; S0 to S6 are   *)
(* the subclass bits, whose meaning depends on the class.  32-bit code     *)
(* without VEX, vector-SIB, relative or segment operands.                  *)
(***************************************************************************)
EXTENDS Integers, FiniteSets, SequencesExt

CONSTANT InsnsDat       \* lines of insns.dat, in order: opcode, operands, order, codes, flags

-----------------------------------------------------------------------------
(* Numbers: four bytes, the low one first.                                 *)

Low(v, n) == SubSeq(v, 1, n)
Extend(b, high) == [i \in 1..4 |-> IF i <= Len(b) THEN b[i] ELSE high]
ZeroExt(b) == Extend(b, 0)
Negative(b) == b # << >> /\ Last(b) >= 128
SignExt(b) == Extend(b, IF Negative(b) THEN 255 ELSE 0)

Zero == ZeroExt(<< >>)
Neg(v) == LET nz == {i \in DOMAIN v : v[i] # 0} IN
          [i \in DOMAIN v |-> IF \A k \in nz : i < k THEN 0
                              ELSE IF \A k \in nz : i <= k THEN 256 - v[i] ELSE 255 - v[i]]

\* Numbers as they are written: a sign and a magnitude.
Num(neg, mag) == [neg |-> neg, mag |-> mag]
Value(num) == IF num.neg THEN Neg(num.mag) ELSE num.mag

-----------------------------------------------------------------------------
(* Registers.                                                              *)

nasm_rd_reg8   == <<"AL", "CL", "DL", "BL", "AH", "CH", "DH", "BH">>
nasm_rd_reg16  == <<"AX", "CX", "DX", "BX", "SP", "BP", "SI", "DI">>
nasm_rd_reg32  == <<"EAX", "ECX", "EDX", "EBX", "ESP", "EBP", "ESI", "EDI">>
nasm_rd_sreg   == <<"ES", "CS", "SS", "DS", "FS", "GS">>
nasm_rd_creg   == <<"CR0", "CR1", "CR2", "CR3", "CR4", "CR5", "CR6", "CR7", "CR8">>
nasm_rd_fpureg == <<"ST0", "ST1", "ST2", "ST3", "ST4", "ST5", "ST6", "ST7">>
nasm_rd_mmxreg == <<"MM0", "MM1", "MM2", "MM3", "MM4", "MM5", "MM6", "MM7">>
nasm_rd_xmmreg == <<"XMM0", "XMM1", "XMM2", "XMM3", "XMM4", "XMM5", "XMM6", "XMM7">>

REG_EA  == {"REGMEM", "REGISTER"}
RM_GPR  == {"GPR", "REGMEM"}
REG_GPR == RM_GPR \cup {"REGISTER"}
RM_MMX  == {"MMX", "REGMEM"}
RM_XMM_L16 == {"XMM", "REGMEM", "S6"}
FPUREG  == {"FPU", "REGISTER"}
MEMORY  == {"MEM", "REGMEM"}
MEM_OFFS == MEMORY \cup {"S1"}
MEMORY_ANY == MEMORY \cup RM_GPR \cup RM_MMX \cup RM_XMM_L16 \cup {"YMM", "ZMM", "OPMASK", "BND"}
IMMEDIATE == {"IMMEDIATE"}
UNITY   == IMMEDIATE \cup {"S0"}
SIZE_MASK == {"8", "16", "32", "64", "80", "128"}
REG_SMASK == {"S0", "S1", "S2", "S3", "S4", "S5", "S6"}
REG_CREG == {"S1", "CDT", "32", "REGISTER"}
REG_SREG == {"SREG", "16", "REGISTER"}

\* Subclass bits of the 8-, 16- and 32-bit registers by position in their class.
GprSub(size, v) ==
  CASE v = 0 -> {"S1"} [] v = 1 -> {"S5", "S2"} [] v = 2 -> {"S5", "S3"} [] v = 3 -> {"S5"}
    [] OTHER -> IF size = "8" THEN {"S5", "S4"} ELSE {"S5"}
SregSub == <<{"S0", "S2"}, {"S1", "S2"}, {"S0", "S3"}, {"S1", "S3"}, {"S0", "S4"}, {"S1", "S4"}>>

Named(array, flags(_)) == [i \in DOMAIN array |-> [reg |-> array[i], val |-> i - 1, flags |-> flags(i - 1)]]
regs_dat ==
  Named(nasm_rd_reg8, LAMBDA v : REG_GPR \cup {"8"} \cup GprSub("8", v))
  \o Named(nasm_rd_reg16, LAMBDA v : REG_GPR \cup {"16"} \cup GprSub("16", v))
  \o Named(nasm_rd_reg32, LAMBDA v : REG_GPR \cup {"32"} \cup GprSub("32", v))
  \o Named(nasm_rd_sreg, LAMBDA v : REG_SREG \cup SregSub[v + 1])
  \o Named(nasm_rd_creg, LAMBDA v : REG_CREG)
  \o Named(nasm_rd_fpureg, LAMBDA v : FPUREG \cup IF v = 0 THEN {"S1"} ELSE {})
  \o Named(nasm_rd_mmxreg, LAMBDA v : RM_MMX \cup {"REGISTER"})
  \o Named(nasm_rd_xmmreg, LAMBDA v : RM_XMM_L16 \cup {"REGISTER"} \cup IF v = 0 THEN {"S1"} ELSE {})

Regs == {r.reg : r \in ToSet(regs_dat)}
RegRow == [r \in Regs |-> CHOOSE row \in ToSet(regs_dat) : row.reg = r]
nasm_regvals == [r \in Regs |-> RegRow[r].val]
nasm_reg_flags == [r \in Regs |-> RegRow[r].flags]

\* is_class(class, flags) of the code
is_class(class, flags) == class \subseteq flags

-----------------------------------------------------------------------------
(* Operands and byte codes of a line of insns.dat.                         *)

\* without a size, given the flags of the registers
Plain(reg_flags) ==
         [mem |-> MEMORY, rm |-> RM_GPR, reg |-> REG_GPR, imm |-> IMMEDIATE,
          mem_offs |-> MEM_OFFS, unity |-> UNITY, fpureg |-> FPUREG, fpureg_to |-> FPUREG \cup {"TO"},
          fpu0 |-> FPUREG \cup {"S1"}, mmxreg |-> RM_MMX \cup {"REGISTER"}, mmxrm |-> RM_MMX,
          xmmreg |-> RM_XMM_L16 \cup {"REGISTER"}, xmmrm |-> RM_XMM_L16,
          reg_sreg |-> REG_SREG, reg_creg |-> REG_CREG,
          reg_al |-> reg_flags["AL"], reg_ax |-> reg_flags["AX"], reg_eax |-> reg_flags["EAX"],
          reg_cl |-> reg_flags["CL"], reg_dx |-> reg_flags["DX"], reg_es |-> reg_flags["ES"],
          reg_fs |-> reg_flags["FS"]]
Suffixed == {<<p, s>> : p \in {"mem", "rm", "reg", "imm", "xmmrm"}, s \in SIZE_MASK}
WithSizes(plain) == plain @@ [n \in {x[1] \o x[2] : x \in Suffixed} |->
                                LET x == CHOOSE y \in Suffixed : y[1] \o y[2] = n IN plain[x[1]] \cup {x[2]}]
opflags == WithSizes(Plain(nasm_reg_flags))

Hex == <<"0", "1", "2", "3", "4", "5", "6", "7", "8", "9", "a", "b", "c", "d", "e", "f">>
HexByte == [b \in 0..255 |-> Hex[b \div 16 + 1] \o Hex[(b % 16) + 1]]
PlusByte == [b \in 0..255 |-> HexByte[b] \o "+r"]
ByteOf(names) == [h \in {names[b] : b \in 0..255} |-> CHOOSE b \in 0..255 : names[b] = h]
Literal == ByteOf(HexByte)
PlusR == ByteOf(PlusByte)
Spare == [h \in {"/" \o Hex[n] : n \in 1..8} |-> CHOOSE n \in 0..7 : "/" \o Hex[n + 1] = h]
imm_codes == {"ib", "ib,u", "ib,s", "iw", "id", "iwdq"}

\* Positions of the operands: "+" gives the next letter the place of the one before.
Places(order) ==
  FoldLeft(LAMBDA acc, c :
             IF c = "+" THEN [acc EXCEPT !.next = @ - 1]
             ELSE [acc EXCEPT !.next = @ + 1, !.pos = [@ EXCEPT ![c] = acc.next]],
           [next |-> 1, pos |-> [c \in {"r", "m", "i", "j", "-"} |-> 0]], order).pos

Code(c, b, i, j) == [c |-> c, b |-> b, i |-> i, j |-> j]

byte_code_compile(order, ops) ==
  LET pos == Places(order)
  IN FoldLeft(
       LAMBDA acc, op :
         LET code == CASE acc.prefix_ok /\ op \in {"66", "f2", "f3"} -> Code("prefix" \o op, 0, 0, 0)
                       [] op \in DOMAIN Literal /\ ~(acc.prefix_ok /\ op \in {"66", "f2", "f3"})
                            -> Code("lit", Literal[op], 0, 0)
                       [] op = "f3i" -> Code("prefixf3", 0, 0, 0)
                       [] op = "/r" -> Code("/r", 0, pos["r"], pos["m"])
                       [] op \in DOMAIN Spare -> Code("/n", Spare[op], 0, pos["m"])
                       [] op \in imm_codes -> Code(op, 0, IF acc.imm = 0 THEN pos["i"] ELSE pos["j"], 0)
                       [] op \in DOMAIN PlusR -> Code("+r", PlusR[op], pos["r"], 0)
                       [] OTHER -> Code(op, 0, 0, 0)
         IN [codes |-> Append(acc.codes, code),
             prefix_ok |-> acc.prefix_ok /\ code.c \notin {"lit", "/r", "/n", "+r"} \cup imm_codes,
             imm |-> acc.imm + IF op \in imm_codes THEN 1 ELSE 0],
       [codes |-> << >>, prefix_ok |-> TRUE, imm |-> 0], ops).codes

format_insn(line) ==
  [opcode |-> line[1], opd |-> [i \in DOMAIN line[2] |-> opflags[line[2][i]]],
   code |-> byte_code_compile(line[3], line[4]), flags |-> line[5]]

Templates == LET lines == InsnsDat IN [n \in DOMAIN lines |-> format_insn(lines[n])]
=============================================================================

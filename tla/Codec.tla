-------------------------------- MODULE Codec --------------------------------
(***************************************************************************)
(* What becomes of the text of an instruction: one_insn_gen parses it,     *)
(* insn_to_asm assembles it into global_codebuf and prints what disasm     *)
(* finds there, and that text is written to the test, where an assembler   *)
(* reads it again.  The preferred vendor of disasm is a variable that      *)
(* insn_to_asm does not initialise.                                        *)
(***************************************************************************)
EXTENDS Assemble, Disasm

CONSTANTS
  Texts,         \* texts of instructions
  Garbage,       \* values of the uninitialised vendor flags
  MAX_INSLEN     \* size of global_codebuf

Buffer == [i \in 1..MAX_INSLEN |-> 0]
NoText == [prefixes |-> << >>, opcode |-> "none", opnds |-> << >>]
NoInsn == one_insn_gen(NoText)

VARIABLES
  pc,                   \* "idle" or the next step
  round,                \* 1: the text of the template; 2: the printed text
  source,               \* the text of the template
  text,                 \* the text that is assembled
  ins,                  \* insn
  temp,                 \* the template found, as a sequence
  inslen,               \* data.inslen
  global_codebuf,
  global_codebuf_len,   \* also data.insoffs
  binary,               \* the bytes of the first round
  codestr               \* what disasm prints: its length and the text

vars == <<pc, round, source, text, ins, temp, inslen, global_codebuf, global_codebuf_len, binary, codestr>>
code == SubSeq(global_codebuf, 1, global_codebuf_len)

NoString == [length |-> 0, text |-> NoText]

Init ==
  /\ pc = "idle" /\ round = 1 /\ source = NoText /\ text = NoText /\ ins = NoInsn /\ temp = << >>
  /\ inslen = 0 /\ global_codebuf = Buffer /\ global_codebuf_len = 0 /\ binary = << >> /\ codestr = NoString

-----------------------------------------------------------------------------

Parse(t) ==
  /\ text' = t /\ ins' = one_insn_gen(t)
  /\ pc' = IF ins'.ok THEN "assemble" ELSE "fatal"

\* A template gives the text.
OneInsnGen(t) ==
  /\ pc = "idle" /\ round' = 1 /\ source' = t /\ Parse(t)
  /\ UNCHANGED <<temp, inslen, global_codebuf, global_codebuf_len, binary, codestr>>

\* The buffer is cleared before the instruction goes into it.
InsnToBin ==
  /\ pc = "assemble" /\ global_codebuf' = Buffer /\ global_codebuf_len' = 0
  /\ \E m \in {find_match(add_asp(ins))} : ins' = m.ins /\ temp' = m.temp
  /\ pc' = IF temp' = << >> THEN "disasm" ELSE "calcsize"
  /\ UNCHANGED <<round, source, text, inslen, binary, codestr>>

\* nasm_assert(data.inslen >= 0)
CalcSize ==
  /\ pc = "calcsize"
  /\ \E c \in {calcsize(ins, temp[1])} : ins' = c.ins /\ inslen' = c.length
  /\ pc' = IF ins'.ok THEN "gencode" ELSE "fatal"
  /\ UNCHANGED <<round, source, text, temp, global_codebuf, global_codebuf_len, binary, codestr>>

GenCode ==
  /\ pc = "gencode" /\ pc' = "disasm"
  /\ \E bytes \in {gencode(ins, temp[1])} :
       /\ global_codebuf' = [i \in 1..MAX_INSLEN |-> IF i <= Len(bytes) THEN bytes[i] ELSE global_codebuf[i]]
       /\ global_codebuf_len' = Len(bytes)
       /\ binary' = IF round = 1 THEN bytes ELSE binary
  /\ UNCHANGED <<round, source, text, ins, temp, inslen, codestr>>

\* No template, or none that fits the bytes: the text is empty.
Printed(p, best) == IF best = << >> THEN NoString
                    ELSE [length |-> p.n + best[1].length, text |-> PrintInsn(best[1])]
Answers(p, candidates) == {Printed(p, Best(candidates, prefer)) : prefer \in Garbage}
Disassemble ==
  /\ pc = "disasm" /\ pc' = "print"
  /\ \E p \in {scan_prefixes(code)} : codestr' \in Answers(p, Candidates(code, p))
  /\ UNCHANGED <<round, source, text, ins, temp, inslen, global_codebuf, global_codebuf_len, binary>>

\* The printed text is read again.
ReadBack ==
  /\ pc = "print" /\ round = 1 /\ codestr # NoString /\ ~ins.error /\ round' = 2 /\ Parse(codestr.text)
  /\ codestr' = NoString /\ temp' = << >> /\ inslen' = 0
  /\ UNCHANGED <<source, global_codebuf, global_codebuf_len, binary>>

\* The next instruction, or the end of the program.
NextInsn ==
  /\ \/ pc = "fatal"
     \/ pc = "print" /\ (round = 2 \/ codestr = NoString \/ ins.error)
  /\ pc' = "idle" /\ round' = 1 /\ source' = NoText /\ text' = NoText /\ ins' = NoInsn /\ temp' = << >>
  /\ inslen' = 0 /\ global_codebuf' = Buffer /\ global_codebuf_len' = 0 /\ binary' = << >> /\ codestr' = NoString

Next ==
  \/ \E t \in Texts : OneInsnGen(t)
  \/ InsnToBin \/ CalcSize \/ GenCode
  \/ Disassemble \/ ReadBack \/ NextInsn

Spec == Init /\ [][Next]_vars

-----------------------------------------------------------------------------
(* What a text says, independent of how it is parsed.                      *)

Values(opnds, kind) == {opnds[i] : i \in {k \in DOMAIN opnds : opnds[k].kind = kind}}
AddressRegs(t) == UNION {{x.reg : x \in ToSet(o.terms)} : o \in Values(t.opnds, "mem")}

\* Bytes of the addresses and of the immediates of a text.
AddressBytes(t) ==
  IF AddressRegs(t) \cap ToSet(nasm_rd_reg16) # {} \/ "A16" \in ToSet(t.prefixes) THEN 2 ELSE 4
ImmBytes(t) ==
  LET sizes == UNION {nasm_reg_flags[o.reg] : o \in Values(t.opnds, "reg")}
               \cup {o.size : o \in Values(t.opnds, "mem") \cup Values(t.opnds, "imm")}
  IN CASE "8" \in sizes -> 1 [] "16" \in sizes -> 2 [] OTHER -> 4

\* An instruction of the x87 without operands has these; ST0 is left out where it is understood, and a move to a
\* segment register takes the low word of a register of either width.
Written(t) ==
  LET regs == {o.reg : o \in Values(t.opnds, "reg")}
  IN CASE regs \cap ToSet(nasm_rd_sreg) # {} ->
            {IF r \in ToSet(nasm_rd_reg32) THEN nasm_rd_reg16[nasm_regvals[r] + 1] ELSE r : r \in regs}
       [] t.opnds = << >> /\ t.opcode \in {"FADD", "FLD", "FXCH"} -> {"ST1"}
       [] OTHER -> regs \ {"ST0"}

\* Each register with the number of times it is added.
Factor(terms, r) ==
  FoldLeft(LAMBDA n, x : IF x.reg # r THEN n ELSE IF x.mul = 0 THEN n + 1 ELSE n + x.mul, 0, terms)
Address(o, n) ==
  [sum |-> [r \in {x.reg : x \in ToSet(o.terms)} |-> Factor(o.terms, r)], disp |-> Low(Value(o.num), n)]

Meaning(t, address, imm) ==
  [mems |-> {Address(o, address) : o \in Values(t.opnds, "mem")},
   imms |-> {Low(Value(o.num), imm) : o \in Values(t.opnds, "imm")},
   regs |-> Written(t)]

\* An address the processor has: base + scale * index, no ESP as the index.
Sums32(terms) ==
  {[r \in {b, i} \ {"none"} |-> (IF r = b THEN 1 ELSE 0) + (IF r = i THEN s ELSE 0)] :
     b \in {x.reg : x \in ToSet(terms)} \cup {"none"}, s \in {1, 2, 4, 8},
     i \in ({x.reg : x \in ToSet(terms)} \ {"ESP"}) \cup {"none"}}
Addressable(o) ==
  LET regs == {x.reg : x \in ToSet(o.terms)}
  IN \/ regs \subseteq ToSet(nasm_rd_reg32) /\ Address(o, 4).sum \in Sums32(o.terms)
     \/ /\ regs \subseteq {"BX", "BP", "SI", "DI"} /\ Len(o.terms) = Cardinality(regs)
        /\ ~({"BX", "BP"} \subseteq regs) /\ ~({"SI", "DI"} \subseteq regs)
        /\ \A r \in regs : Address(o, 2).sum[r] = 1

-----------------------------------------------------------------------------
(* Properties.                                                             *)

(* The steps, the length and the bytes are as declared. *)
TypeOK ==
  /\ pc \in {"idle", "assemble", "calcsize", "gencode", "disasm", "print", "fatal"} /\ round \in {1, 2}
  /\ inslen \in 0..MAX_INSLEN /\ global_codebuf \in [1..MAX_INSLEN -> 0..255]
  /\ global_codebuf_len \in 0..MAX_INSLEN /\ temp \in Seq(ToSet(Templates)) /\ Len(temp) <= 1

(* gencode writes as many bytes as calcsize has counted, nasm_assert(data.insoffs == data.inslen), and they fit
   into global_codebuf, which has MAX_INSLEN bytes. *)
SizeExact == pc = "disasm" /\ temp # << >> => global_codebuf_len = inslen /\ inslen \in 1..MAX_INSLEN

(* What the assembler has made is an instruction to the disassembler, with all of its bytes. *)
Disassembles == pc = "print" /\ temp # << >> => codestr.length = global_codebuf_len

(* The printed text is read back without an error, and to the same bytes, whatever prefer holds. *)
RoundTrip ==
  round = 2 => /\ pc # "fatal"
               /\ pc = "disasm" => code = binary

(* The text that is printed has the addresses, numbers and registers of the text that was assembled; the name of
   the instruction tells nothing here, for NOP is XCHG EAX,EAX. *)
SameOperands ==
  pc = "print" /\ codestr # NoString /\ ~ins.error =>
    \/ Meaning(text, AddressBytes(text), ImmBytes(text)) = Meaning(codestr.text, AddressBytes(text), ImmBytes(text))
    \/ codestr.text.opcode = "NOP"

(* An instruction for which there is a template is refused only for an address the processor does not have. *)
RefusesOnlyImpossible ==
  pc = "fatal" => \E o \in Values(text.opnds, "mem") : ~Addressable(o)

\* The two passes agree on the bytes of the buffer.
BufferExact == TypeOK /\ SizeExact

\* Bytes and text turn into each other without loss.
Reversible == Disassembles /\ RoundTrip
=============================================================================

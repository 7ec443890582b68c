----------------------------- MODULE MCInitVals -----------------------------
EXTENDS InitVals

SeqsOver(tags, n) == UNION {[1..k -> tags] : k \in 1..n}
MCFiles == SeqsOver({"Mmx"}, 2) \cup SeqsOver({"Float32f", "Imm32", "Float64f", "Imm64"}, 2)
           \cup SeqsOver({"Immf", "X87env", "Bcd", "Imm32", "Imm64", "Float32i"}, 3)

Opnd(kind, class, size, packedn, tags) ==
  [kind |-> kind, class |-> class, size |-> size, packedn |-> packedn, tags |-> tags]
MCOperands ==
  {Opnd(k, "mmx", 64, n, {"Mmx"}) : k \in {"reg", "mem"}, n \in {1, 2, 4, 8}}
  \cup {Opnd(k, "xmm", 128, 4, {t}) : k \in {"reg", "mem"}, t \in {"Float32f", "Imm32"}}
  \cup {Opnd(k, "xmm", 128, 2, {t}) : k \in {"reg", "mem"}, t \in {"Float64f", "Imm64"}}
  \cup {Opnd(k, "xmm", 128, 1, {t}) : k \in {"reg", "mem"}, t \in {"Float32f", "Float64f", "Imm64"}}
  \cup {Opnd(k, "gpr", s, 1, {"Imm32", "Imm64"}) : k \in {"reg", "mem"}, s \in {8, 16, 32}}
  \cup {Opnd("mem", "fpu80", 80, 1, {t}) : t \in {"Immf", "Bcd"}}
  \cup {Opnd("mem", "gpr", s, 1, {"Immf"}) : s \in {32, 64}}
  \cup {Opnd("mem", "gpr", 64, 1, {"Imm64"}), Opnd("mem", "env", 0, 1, {"X87env"}),
        Opnd("reg", "fpu", 80, 1, {"Immf"}), Opnd("implied", "fpu", 80, 1, {"Immf"}),
        Opnd("implied", "fpu", 80, 1, {"Float32i"})}
MCStackTypes == Types \ {"FLOAT", "X87ENV"}

\* They are what the theorems assume of the test knowledge.
ASSUME MCFits == MmxApart(MCFiles, MCStackTypes) /\ \A o \in MCOperands : Fits(o)

PairOperands == {Opnd(k, "xmm", 128, 2, {t}) : k \in {"reg", "mem"}, t \in {"Float32f", "Imm32"}}
StackOperands == {Opnd("mem", "mmx", 64, 4, {"Mmx"})}
MixedOperands == {Opnd("mem", "gpr", 64, 1, {"Imm32", "Imm64"})}
=============================================================================

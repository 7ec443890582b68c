------------------------------ MODULE InitVals ------------------------------
(***************************************************************************)
(* Values: how a constant of the test knowledge reaches the operand it was *)
(* drawn for.  parseCGs of xmlparser/parseTKs.c fills a const_node, one    *)
(* local that is copied into the group for each constant and never         *)
(* cleared; the init_*_opnd functions of engine/gendata.c read the field   *)
(* they think was filled and print moves of 1, 2 and 4 bytes.              *)
(*                                                                         *)
(* A byte is <<c, format, k>>: byte k of constant number c in a format.    *)
(* Of constant 0 are UndefByte, what was never written, and ZeroByte, a    *)
(* zero written by the code.                                               *)
(***************************************************************************)
EXTENDS Integers, Sequences, SequencesExt

CONSTANTS
  Files,       \* files of constants: the tags of the constants of their groups
  Operands,    \* operands: class, size in bits, packedn of the knowledge, tags it may hold
  StackTypes   \* what the type of the local may be before the first constant

Tags == {"Immf", "Imm64", "Mmx", "Bcd", "Float32i", "Float32f", "Float64i", "Float64f",
         "X87env", "Imm32"}
Types == {"FLOAT", "IMM64", "BCD", "FLOAT32I", "FLOAT32F", "FLOAT64I", "FLOAT64F", "X87ENV",
          "IMM32", "IMM8", "IMM16", "UNITY", "ASM_OP"}

ASSUME InitValsAssumption ==
  /\ \A f \in Files : f \in Seq(Tags)
  /\ StackTypes \subseteq Types
  /\ \A o \in Operands : o.size \in Nat /\ o.packedn \in Nat \ {0} /\ o.tags \subseteq Tags

\* An operand whose knowledge fits it: the class, size and number of elements go
\* with the tags of the constants (the combinations of the *TK.xml files).
Fits(o) ==
  \/ /\ o.class = "mmx" /\ o.kind \in {"reg", "mem"} /\ o.size = 64
     /\ o.packedn \in {1, 2, 4, 8} /\ o.tags = {"Mmx"}
  \/ /\ o.class = "xmm" /\ o.kind \in {"reg", "mem"} /\ o.size = 128
     /\ \E t \in {"Float32f", "Imm32", "Float64f", "Imm64"} :
          /\ o.tags = {t}
          /\ (o.packedn = 1 /\ t # "Imm32") \/ o.packedn = IF t \in {"Float32f", "Imm32"} THEN 4 ELSE 2
  \/ /\ o.class = "gpr" /\ o.kind \in {"reg", "mem"} /\ o.size \in {8, 16, 32}
     /\ o.packedn = 1 /\ o.tags = {"Imm32", "Imm64"}
  \/ /\ o.class = "gpr" /\ o.kind = "mem" /\ o.size \in {32, 64} /\ o.packedn = 1 /\ o.tags = {"Immf"}
  \/ /\ o.class = "gpr" /\ o.kind = "mem" /\ o.size = 64 /\ o.packedn = 1 /\ o.tags = {"Imm64"}
  \/ /\ o.class = "fpu80" /\ o.kind = "mem" /\ o.size = 80 /\ o.packedn = 1
     /\ o.tags \in {{"Immf"}, {"Bcd"}}
  \/ /\ o.class = "env" /\ o.kind = "mem" /\ o.size = 0 /\ o.packedn = 1 /\ o.tags = {"X87env"}
  \/ /\ o.class = "fpu" /\ o.kind \in {"reg", "implied"} /\ o.size = 80 /\ o.packedn = 1
     /\ o.tags = {"Immf"}
  \/ /\ o.class = "fpu" /\ o.kind = "implied" /\ o.size = 80 /\ o.packedn = 1
     /\ o.tags = {"Float32i"}

\* No file has constants with the tag Mmx, which leave the type of the local as it
\* was, together with ones that set a type the memory operand would be taken for.
MmxApart(files, types) ==
  /\ \A f \in files : \A i, j \in DOMAIN f : f[i] = "Mmx" => f[j] \notin {"Immf", "X87env"}
  /\ types \cap {"FLOAT", "X87ENV"} = {}

\* What the theorems about the values assume of the test knowledge.
KnowledgeFits == MmxApart(Files, StackTypes) /\ \A o \in Operands : Fits(o)

VARIABLES
  stage,        \* "parse", "draw", "init", "done"
  file,         \* the file that is parsed
  first,        \* where the group that the operand draws from starts
  val_node,     \* the local of parseCGs
  const_nodes,  \* the constants as they are stored
  opnd,
  dispatch,     \* constant whose type init_memory_opnd looks at
  val_nodes,    \* the constants drawn for the operand: numbers into const_nodes
  image         \* bytes stored from the start of the operand on

valuesVars == <<stage, file, first, val_node, const_nodes, opnd, dispatch, val_nodes, image>>

\* the tags of the group that the operand draws from: the last one of the file
Group == {file[c] : c \in first..Len(file)}

Bytes(c, format, n) == [k \in 1..n |-> <<c, format, k - 1>>]
UndefByte == <<0, "undef", 0>>
ZeroByte == <<0, "zero", 0>>
Times(byte, n) == [k \in 1..n |-> byte]

-----------------------------------------------------------------------------
(* parseCGs.                                                               *)

ValuesInit ==
  /\ stage = "parse" /\ file \in Files /\ first \in DOMAIN file
  /\ \E t \in StackTypes :
       val_node = [type |-> t, imm64 |-> Times(UndefByte, 12), float32 |-> Times(UndefByte, 4), float64 |-> Times(UndefByte, 8),
                   float80 |-> Times(UndefByte, 10), fcw |-> Times(UndefByte, 28)]
  /\ const_nodes = << >> /\ val_nodes = << >> /\ dispatch = 0
  /\ opnd \in Operands /\ Group \subseteq opnd.tags
  /\ image = << >>

\* the union: the integer fields and bcd start at its first byte
Union(bytes) ==
  [val_node EXCEPT !.imm64 = [k \in 1..12 |-> IF k \in DOMAIN bytes THEN bytes[k] ELSE val_node.imm64[k]]]

\* Fault: the three words are not cleared first.
str2bcd_NotCleared(c) == Bytes(c, "bcd", 10)

str2bcd(c) == Bytes(c, "bcd", 10) \o Times(ZeroByte, 2)

\* The fields that a constant fills.
Filled(tag, c) ==
  CASE tag = "Immf" -> [val_node EXCEPT !.float32 = Bytes(c, "f32", 4),
                                        !.float64 = Bytes(c, "f64", 8),
                                        !.float80 = Bytes(c, "f80", 10)]
    [] tag \in {"Imm64", "Mmx"} -> Union(Bytes(c, "int", 8))
    [] tag = "Float64i" -> Union(Bytes(c, "int", 4) \o Times(ZeroByte, 4))
    [] tag = "Bcd" -> Union(str2bcd(c))
    [] tag = "Float32f" -> [val_node EXCEPT !.float32 = Bytes(c, "f32", 4)]
    [] tag = "Float64f" -> [val_node EXCEPT !.float64 = Bytes(c, "f64", 8)]
    [] tag = "X87env" -> [val_node EXCEPT !.fcw = Bytes(c, "env", 28)]
    [] OTHER -> Union(Bytes(c, "int", 4))       \* Float32i, and Imm32 for any other tag

\* Mmx is the one tag that leaves the type alone.
TypeOf(tag) ==
  CASE tag = "Immf" -> "FLOAT" [] tag = "Imm64" -> "IMM64" [] tag = "Mmx" -> val_node.type
    [] tag = "Bcd" -> "BCD" [] tag = "Float32i" -> "FLOAT32I" [] tag = "Float32f" -> "FLOAT32F"
    [] tag = "Float64i" -> "FLOAT64I" [] tag = "Float64f" -> "FLOAT64F"
    [] tag = "X87env" -> "X87ENV" [] OTHER -> "IMM32"

parseCNode ==
  /\ stage = "parse" /\ Len(const_nodes) < Len(file)
  /\ LET c == Len(const_nodes) + 1
         node == [Filled(file[c], c) EXCEPT !.type = TypeOf(file[c])]
     IN val_node' = node /\ const_nodes' = Append(const_nodes, node)
  /\ UNCHANGED <<stage, file, first, opnd, dispatch, val_nodes, image>>

EndGroup ==
  /\ stage = "parse" /\ Len(const_nodes) = Len(file)
  /\ stage' = "draw"
  /\ UNCHANGED <<file, first, val_node, const_nodes, opnd, dispatch, val_nodes, image>>

-----------------------------------------------------------------------------
(* The values of an operand.                                               *)

\* request_packed_trv_node: the nodes of a traversal; without one
\* request_packed_val_node draws each node anew, and so did the request before it
DrawTrv ==
  /\ stage = "draw"
  /\ val_nodes' \in [1..opnd.packedn -> first..Len(file)]
  /\ dispatch' = val_nodes'[1]
  /\ stage' = "init"
  /\ UNCHANGED <<file, first, val_node, const_nodes, opnd, image>>

DrawVal ==
  /\ stage = "draw"
  /\ dispatch' \in first..Len(file)
  /\ val_nodes' \in [1..opnd.packedn -> first..Len(file)]
  /\ stage' = "init"
  /\ UNCHANGED <<file, first, val_node, const_nodes, opnd, image>>

Node(i) == const_nodes[val_nodes[i]]

\* Fault: all elements come from the first node.
Each_First(field, n) == [k \in 1..(n * Len(val_nodes)) |-> Node(1)[field][((k - 1) % n) + 1]]

\* the first n bytes of a field of each node
Each(field, n) ==
  [k \in 1..(n * Len(val_nodes)) |-> Node(((k - 1) \div n) + 1)[field][((k - 1) % n) + 1]]

\* A buffer that no branch has printed into.
Garbage == Times(UndefByte, 16)

\* by number of nodes
init_mmx_register_opnd == CASE Len(val_nodes) = 8 -> Each("imm64", 1)
         [] Len(val_nodes) = 4 -> Each("imm64", 2)
         [] Len(val_nodes) = 2 -> Each("imm64", 4)
         [] Len(val_nodes) = 1 -> Each("imm64", 8)
         [] OTHER -> Garbage

\* the same bytes, each element stored by a mov of its own
init_memory_opnd_mmx == init_mmx_register_opnd

\* by number of nodes and type of the first; stored in float_data
init_xmm_register_opnd ==
  LET t == Node(1).type n == Len(val_nodes)
  IN CASE n = 4 /\ t = "FLOAT32F" -> Each("float32", 4)
       [] n = 4 /\ t = "IMM32"    -> Each("imm64", 4)
       [] n = 2 /\ t = "FLOAT64F" -> Each("float64", 8)
       [] n = 2 /\ t = "IMM64"    -> Each("imm64", 8)
       [] n = 2 /\ t = "FLOAT32F" -> Node(1).float32 \o Node(1).float32
       [] n = 2 /\ t = "IMM32"    -> SubSeq(Node(1).imm64, 1, 4) \o SubSeq(Node(1).imm64, 1, 4)
       [] n = 1 /\ t = "FLOAT32F" -> Node(1).float32 \o Times(ZeroByte, 12)
       [] n = 1 /\ t = "FLOAT64F" -> Node(1).float64
       [] n = 1 /\ t = "IMM64"    -> SubSeq(Node(1).imm64, 1, 8)
       [] OTHER -> Garbage

\* the same branches, stored in the operand
init_memory_opnd_xmm == init_xmm_register_opnd

\* init_memory_opnd_float: three words, cleared, of which the size fills some
float(node) ==
  CASE opnd.size = 32 -> node.float32
    [] opnd.size = 64 -> node.float64
    [] opnd.size = 80 -> node.float80 \o Times(ZeroByte, 2)
    [] OTHER -> Garbage

\* the two halves of the double, loaded through float_data
init_fpu_register_opnd == Node(1).float64

x87env(node) == node.fcw
imm64(node) == SubSeq(node.imm64, 1, 8)
bcd80(node) == node.imm64
\* a mov of the size of the operand, 32 bits if it has none
mov(node) == SubSeq(node.imm64, 1, IF opnd.size \in {8, 16} THEN opnd.size \div 8 ELSE 4)

init_memory_opnd(node) ==
  CASE node.type = "FLOAT"  -> float(node)
    [] node.type = "X87ENV" -> x87env(node)
    [] node.type \notin {"FLOAT", "X87ENV"} /\ opnd.class = "mmx" -> init_memory_opnd_mmx
    [] node.type \notin {"FLOAT", "X87ENV"} /\ opnd.class # "mmx" ->
         CASE opnd.size = 64 -> imm64(node)
           [] opnd.size = 80 -> bcd80(node)
           [] opnd.size \notin {64, 80} /\ opnd.class = "xmm" -> init_memory_opnd_xmm
           [] OTHER -> mov(node)

\* init_opnd: x87 registers are loaded as doubles through float_data, or as
\* floats by init_specific_register if the value is one
init_opnd ==
  /\ stage = "init"
  /\ image' = CASE opnd.kind = "mem" -> init_memory_opnd(const_nodes[dispatch])
                [] opnd.kind = "reg" /\ opnd.class = "mmx" -> init_mmx_register_opnd
                [] opnd.kind = "reg" /\ opnd.class = "xmm" -> init_xmm_register_opnd
                [] opnd.kind = "reg" /\ opnd.class = "fpu" -> init_fpu_register_opnd
                [] opnd.kind = "implied" /\ opnd.class = "fpu" ->
                     IF Node(1).type = "FLOAT32I" THEN SubSeq(Node(1).imm64, 1, 4) ELSE Node(1).float64
                [] OTHER -> mov(Node(1))        \* general registers and immediates
  /\ stage' = "done"
  /\ UNCHANGED <<file, first, val_node, const_nodes, opnd, dispatch, val_nodes>>

ValuesNext == parseCNode \/ EndGroup \/ DrawTrv \/ DrawVal \/ init_opnd

ValuesSpec == ValuesInit /\ [][ValuesNext]_valuesVars

-----------------------------------------------------------------------------
(* Properties.                                                             *)

\* Types: fields keep the size they are declared with.
SizesOK ==
  /\ stage \in {"parse", "draw", "init", "done"} /\ file \in Files /\ opnd \in Operands
  /\ val_node.type \in Types
  /\ \A i \in DOMAIN const_nodes :
       /\ const_nodes[i].type \in Types /\ Len(const_nodes[i].imm64) = 12
       /\ Len(const_nodes[i].float32) = 4 /\ Len(const_nodes[i].float64) = 8
       /\ Len(const_nodes[i].float80) = 10 /\ Len(const_nodes[i].fcw) = 28
  /\ ToSet(val_nodes) \subseteq DOMAIN file /\ dispatch \in 0..Len(file)

\* Bytes of an element of the operand, and the format a constant has in it.
Width == CASE opnd.class = "mmx" -> 8 \div opnd.packedn
           [] opnd.class = "xmm" -> IF Group \cap {"Float64f", "Imm64"} # {} THEN 8 ELSE 4
           [] opnd.class = "fpu" -> IF Group \subseteq {"Float32i"} THEN 4 ELSE 8
           [] opnd.class = "env" -> 28
           [] OTHER -> opnd.size \div 8
FormatOf(tag, width) ==
  CASE tag = "Immf" -> CASE width = 4 -> "f32" [] width = 8 -> "f64" [] OTHER -> "f80"
    [] tag = "Float32f" -> "f32" [] tag = "Float64f" -> "f64" [] tag = "X87env" -> "env"
    [] tag = "Bcd" -> "bcd" [] OTHER -> "int"

\* A packed operand holds the constants drawn for it side by side, each in its own
\* element, of the width and in the format of the operand: the comments of the
\* formats, "[float1, float2, float3, float4]", "[word1, word2, word3, word4]".
ValuesInPlace ==
  stage = "done" =>
    LET n == IF opnd.kind = "mem" /\ opnd.class \notin {"mmx", "xmm"} THEN <<dispatch>> ELSE val_nodes
    IN \A i \in DOMAIN n : \A k \in 1..Width :
         (i - 1) * Width + k \in DOMAIN image
         /\ image[(i - 1) * Width + k] = <<n[i], FormatOf(file[n[i]], Width), k - 1>>

\* Nothing of a constant that was not drawn reaches the program: val_node and the
\* printed buffers are reused without being cleared.
OnlyDrawn ==
  stage = "done" => \A k \in DOMAIN image :
    image[k] = ZeroByte \/ (image[k] # UndefByte /\ image[k][1] \in ToSet(val_nodes) \cup {dispatch})

\* What is stored has its declared size and comes from the constants drawn.
NothingStale == SizesOK /\ OnlyDrawn
=============================================================================

---------------------------- MODULE TestRun_proofs ----------------------------
(***************************************************************************)
(* A generated test when it runs.  Its operands hold the constants that    *)
(* were drawn for them, in place and in the right format, and nothing      *)
(* else (InitVals).  Its check points leave it as it was, and the          *)
(* comparing run reports the differences from the recorded one, those and  *)
(* no others (CheckRun).  All this for every file of constants, every test *)
(* and whatever the registers hold before it.                              *)
(***************************************************************************)
EXTENDS CheckRun, InitVals, Lemmas, FiniteSetTheorems

-----------------------------------------------------------------------------
(* Part 1: the values of the operands.                                     *)

-----------------------------------------------------------------------------
(* The constants as they are stored.                                       *)

Formats == {"f32", "f64", "f80", "int", "bcd", "env", "undef", "zero"}
Byte == Nat \X Formats \X Nat

Nodes == [type : Types, imm64 : [1..12 -> Byte], float32 : [1..4 -> Byte],
          float64 : [1..8 -> Byte], float80 : [1..10 -> Byte], fcw : [1..28 -> Byte]]

\* The first n bytes are those of constant c in a format.
BeginsWith(bytes, c, format, n) == \A k \in 1..n : bytes[k] = <<c, format, k - 1>>

\* What is stored for constant c of the file: the fields of its tag are its own.
Stored(tag, c, node) ==
  /\ tag = "Immf" => /\ node.type = "FLOAT" /\ BeginsWith(node.float32, c, "f32", 4)
                     /\ BeginsWith(node.float64, c, "f64", 8) /\ BeginsWith(node.float80, c, "f80", 10)
  /\ tag = "Imm64" => node.type = "IMM64" /\ BeginsWith(node.imm64, c, "int", 8)
  /\ tag = "Mmx" => BeginsWith(node.imm64, c, "int", 8)
  /\ tag = "Bcd" => /\ node.type = "BCD" /\ BeginsWith(node.imm64, c, "bcd", 10)
                    /\ node.imm64[11] = ZeroByte /\ node.imm64[12] = ZeroByte
  /\ tag = "Float32f" => node.type = "FLOAT32F" /\ BeginsWith(node.float32, c, "f32", 4)
  /\ tag = "Float64i" => node.type = "FLOAT64I"
  /\ tag = "Float64f" => node.type = "FLOAT64F" /\ BeginsWith(node.float64, c, "f64", 8)
  /\ tag = "X87env" => node.type = "X87ENV" /\ BeginsWith(node.fcw, c, "env", 28)
  /\ tag = "Float32i" => node.type = "FLOAT32I" /\ BeginsWith(node.imm64, c, "int", 4)
  /\ tag = "Imm32" => node.type = "IMM32" /\ BeginsWith(node.imm64, c, "int", 4)

\* A function on 1..n is a sequence.
LEMMA FunctionSeq ==
  ASSUME NEW S, NEW n \in Nat, NEW f \in [1..n -> S]
  PROVE  f \in Seq(S) /\ Len(f) = n /\ DOMAIN f = 1..n
<1>1. f \in Seq(S)
  BY SeqDef
<1>2. DOMAIN f = 1..n /\ DOMAIN f = 1..Len(f) /\ Len(f) \in Nat
  BY <1>1, LenProperties
<1>3. Len(f) = n
  BY <1>2
<1> QED BY <1>1, <1>2, <1>3

\* The bytes of a constant.
LEMMA BytesOf ==
  ASSUME NEW c \in Nat, NEW format \in Formats, NEW n \in Nat
  PROVE  /\ Bytes(c, format, n) \in [1..n -> Byte]
         /\ \A k \in 1..n : Bytes(c, format, n)[k] = <<c, format, k - 1>>
         /\ Len(Bytes(c, format, n)) = n
         /\ DOMAIN Bytes(c, format, n) = 1..n
BY DEF Bytes, Byte, Formats

\* A byte n times.
LEMMA TimesOf ==
  ASSUME NEW b \in Byte, NEW n \in Nat
  PROVE  /\ Times(b, n) \in [1..n -> Byte] /\ DOMAIN Times(b, n) = 1..n
         /\ Len(Times(b, n)) = n
         /\ \A k \in 1..n : Times(b, n)[k] = b
BY DEF Times

\* Bytes nothing wrote and zeros are bytes.
LEMMA OtherBytes == UndefByte \in Byte /\ ZeroByte \in Byte /\ UndefByte # ZeroByte
BY DEF UndefByte, ZeroByte, Byte, Formats

\* Bytes of a constant with zeros behind them.
Padded(c, format, n, z) == Bytes(c, format, n) \o Times(ZeroByte, z)

\* Bytes of a constant, then zeros.
Padding(s, c, format, n, z) ==
  /\ s \in [1..(n + z) -> Byte]
  /\ \A k \in 1..n : s[k] = <<c, format, k - 1>>
  /\ \A k \in (n + 1)..(n + z) : s[k] = ZeroByte

\* They are where they are put.
LEMMA BytesZeros ==
  ASSUME NEW c \in Nat, NEW format \in Formats, NEW n \in Nat, NEW z \in Nat
  PROVE  Padding(Padded(c, format, n, z), c, format, n, z)
<1> DEFINE a == Bytes(c, format, n)
           b == Times(ZeroByte, z)
<1>1. /\ a \in Seq(Byte) /\ Len(a) = n
      /\ \A k \in 1..n : a[k] = <<c, format, k - 1>>
  <2>1. a \in [1..n -> Byte] /\ (\A k \in 1..n : a[k] = <<c, format, k - 1>>)
    BY BytesOf
  <2> HIDE DEF a
  <2> QED BY <2>1, FunctionSeq
<1>2. b \in Seq(Byte) /\ Len(b) = z /\ (\A k \in 1..z : b[k] = ZeroByte)
  <2>1. b \in [1..z -> Byte] /\ (\A k \in 1..z : b[k] = ZeroByte)
    BY TimesOf, OtherBytes
  <2> HIDE DEF b
  <2> QED BY <2>1, FunctionSeq
<1> HIDE DEF a, b
<1>3. /\ a \o b \in Seq(Byte) /\ Len(a \o b) = n + z
      /\ \A k \in 1..(n + z) : (a \o b)[k] = IF k <= n THEN a[k] ELSE b[k - n]
  BY <1>1, <1>2, ConcatProperties
<1>4. a \o b \in [1..(n + z) -> Byte] /\ DOMAIN (a \o b) = 1..(n + z)
  <2> DEFINE t == a \o b
  <2>1. t \in Seq(Byte) /\ Len(t) = n + z
    BY <1>3
  <2> HIDE DEF t
  <2>2. t \in [1..(n + z) -> Byte] /\ DOMAIN t = 1..(n + z)
    BY <2>1, LenProperties
  <2> QED BY <2>2 DEF t
<1>5. \A k \in 1..n : (a \o b)[k] = <<c, format, k - 1>>
  BY <1>1, <1>3
<1>6. \A k \in (n + 1)..(n + z) : (a \o b)[k] = ZeroByte
  BY <1>2, <1>3
<1>7. Padding(a \o b, c, format, n, z)
  BY <1>4, <1>5, <1>6 DEF Padding
<1> QED BY <1>7 DEF a, b, Padded

-----------------------------------------------------------------------------
(* What parseCNode stores.                                                  *)

\* The union keeps its size, and begins with what is written.
LEMMA UnionOf ==
  ASSUME val_node \in Nodes, NEW n \in 1..12, NEW bytes \in [1..n -> Byte]
  PROVE  /\ Union(bytes) \in Nodes /\ Union(bytes).type = val_node.type
         /\ \A k \in 1..n : Union(bytes).imm64[k] = bytes[k]
<1> DEFINE u == [k \in 1..12 |-> IF k \in DOMAIN bytes THEN bytes[k] ELSE val_node.imm64[k]]
<1>1. u \in [1..12 -> Byte] /\ \A k \in 1..n : u[k] = bytes[k]
  <2>1. val_node.imm64 \in [1..12 -> Byte]
    BY DEF Nodes
  <2>2. DOMAIN bytes = 1..n
    OBVIOUS
  <2> QED BY <2>1, <2>2, SMTT(30)
<1>2. Union(bytes) = [val_node EXCEPT !.imm64 = u]
  BY DEF Union
<1> HIDE DEF u
<1> QED BY <1>1, <1>2 DEF Nodes

\* The type of a node set.
LEMMA TypeSet ==
  ASSUME NEW v \in Nodes, NEW t \in Types
  PROVE  LET w == [v EXCEPT !.type = t]
         IN /\ w \in Nodes /\ w.type = t /\ w.imm64 = v.imm64 /\ w.float32 = v.float32
            /\ w.float64 = v.float64 /\ w.float80 = v.float80 /\ w.fcw = v.fcw
BY DEF Nodes

\* What is stored for a tag.
Parsed(tag, c) == [Filled(tag, c) EXCEPT !.type = TypeOf(tag)]

\* The bytes of a constant are its first ones.
LEMMA BytesStart ==
  ASSUME NEW c \in Nat, NEW format \in {"f32", "f64", "f80", "int", "bcd", "env"}, NEW n \in Nat
  PROVE  Bytes(c, format, n) \in [1..n -> Byte] /\ BeginsWith(Bytes(c, format, n), c, format, n)
<1>1. format \in Formats
  BY DEF Formats
<1> QED BY <1>1, BytesOf DEF BeginsWith

\* Each tag fills its fields.
LEMMA FilledStores ==
  ASSUME val_node \in Nodes, NEW c \in Nat, NEW tag \in Tags
  PROVE  /\ Parsed(tag, c) \in Nodes /\ Stored(tag, c, Parsed(tag, c))
         /\ tag = "Mmx" => Parsed(tag, c).type = val_node.type
<1> DEFINE node == Parsed(tag, c)
           v == Filled(tag, c)
<1>1. TypeOf(tag) \in Types
  <2>1. val_node.type \in Types
    BY DEF Nodes
  <2> QED BY <2>1, Zenon DEF TypeOf, Types
<1>2. ASSUME v \in Nodes
      PROVE  /\ node \in Nodes /\ node.type = TypeOf(tag) /\ node.imm64 = v.imm64
             /\ node.float32 = v.float32 /\ node.float64 = v.float64
             /\ node.float80 = v.float80 /\ node.fcw = v.fcw
  <2>1. node = [v EXCEPT !.type = TypeOf(tag)]
    BY DEF Parsed
  <2> HIDE DEF v, node
  <2> QED BY <1>1, <1>2, <2>1, TypeSet
<1>3. \A n \in 1..12 : \A format \in Formats : \A z \in 0..(12 - n) :
        LET s == Bytes(c, format, n) \o Times(ZeroByte, z)
        IN v = Union(s) => v \in Nodes /\ BeginsWith(v.imm64, c, format, n)
                           /\ \A k \in (n + 1)..(n + z) : v.imm64[k] = ZeroByte
  <2> SUFFICES ASSUME NEW n \in 1..12, NEW format \in Formats, NEW z \in 0..(12 - n),
                      v = Union(Bytes(c, format, n) \o Times(ZeroByte, z))
               PROVE  /\ v \in Nodes /\ BeginsWith(v.imm64, c, format, n)
                      /\ \A k \in (n + 1)..(n + z) : v.imm64[k] = ZeroByte
    OBVIOUS
  <2> DEFINE s == Bytes(c, format, n) \o Times(ZeroByte, z)
  <2>1. /\ s \in [1..(n + z) -> Byte]
        /\ \A k \in 1..n : s[k] = <<c, format, k - 1>>
        /\ \A k \in (n + 1)..(n + z) : s[k] = ZeroByte
    <3>1. z \in Nat /\ n \in Nat
      OBVIOUS
    <3>2. s = Padded(c, format, n, z)
      BY DEF Padded
    <3> HIDE DEF s
    <3>3. Padding(s, c, format, n, z)
      BY <3>1, <3>2, BytesZeros, Zenon
    <3> QED BY <3>3, Zenon DEF Padding
  <2> HIDE DEF s
  <2>2. n + z \in 1..12
    OBVIOUS
  <2>3. Union(s) \in Nodes /\ \A k \in 1..(n + z) : Union(s).imm64[k] = s[k]
    BY <2>1, <2>2, UnionOf
  <2>4. v = Union(s)
    BY DEF s
  <2> HIDE DEF v
  <2>5. v \in Nodes /\ \A k \in 1..(n + z) : v.imm64[k] = s[k]
    BY <2>3, <2>4
  <2>6. \A k \in 1..n : v.imm64[k] = <<c, format, k - 1>>
    BY <2>1, <2>5
  <2>7. \A k \in (n + 1)..(n + z) : v.imm64[k] = ZeroByte
    BY <2>1, <2>5
  <2> QED BY <2>5, <2>6, <2>7 DEF BeginsWith
<1>4. \A n \in 1..12 : v = Union(Bytes(c, "int", n)) => v \in Nodes /\ BeginsWith(v.imm64, c, "int", n)
  <2> SUFFICES ASSUME NEW n \in 1..12, v = Union(Bytes(c, "int", n))
               PROVE  v \in Nodes /\ BeginsWith(v.imm64, c, "int", n)
    OBVIOUS
  <2>1. Bytes(c, "int", n) \in [1..n -> Byte] /\ BeginsWith(Bytes(c, "int", n), c, "int", n)
    BY BytesStart
  <2> DEFINE b == Bytes(c, "int", n)
  <2>2. v = Union(b)
    OBVIOUS
  <2> HIDE DEF v, b
  <2>3. b \in [1..n -> Byte] /\ BeginsWith(b, c, "int", n)
    BY <2>1 DEF b
  <2> QED BY <2>2, <2>3, UnionOf DEF BeginsWith
<1> DEFINE Done == node \in Nodes /\ Stored(tag, c, node) /\ (tag = "Mmx" => node.type = val_node.type)
<1>5. CASE tag = "Immf"
  <2> DEFINE a == Bytes(c, "f32", 4)
             b == Bytes(c, "f64", 8)
             d == Bytes(c, "f80", 10)
  <2>1. v = [val_node EXCEPT !.float32 = a, !.float64 = b, !.float80 = d]
    BY <1>5, Zenon DEF Filled
  <2>2. TypeOf(tag) = "FLOAT"
    BY <1>5, Zenon DEF TypeOf
  <2>3. /\ a \in [1..4 -> Byte] /\ BeginsWith(a, c, "f32", 4)
    BY BytesStart
  <2>4. b \in [1..8 -> Byte] /\ BeginsWith(b, c, "f64", 8)
    BY BytesStart
  <2>5. d \in [1..10 -> Byte] /\ BeginsWith(d, c, "f80", 10)
    BY BytesStart
  <2> HIDE DEF a, b, d
  <2>6. v \in Nodes /\ v.float32 = a /\ v.float64 = b /\ v.float80 = d
    <3> HIDE DEF v
    <3> QED BY <2>1, <2>3, <2>4, <2>5 DEF Nodes
  <2>7. /\ node \in Nodes /\ node.type = "FLOAT" /\ node.float32 = a /\ node.float64 = b
        /\ node.float80 = d
    BY <1>2, <2>2, <2>6, Zenon
  <2> HIDE DEF v
  <2> QED BY <1>5, <2>3, <2>4, <2>5, <2>7 DEF Stored
<1>6. CASE tag \in {"Imm64", "Mmx"}
  <2>1. v = Union(Bytes(c, "int", 8))
    BY <1>6, Zenon DEF Filled
  <2>2. TypeOf(tag) = IF tag = "Mmx" THEN val_node.type ELSE "IMM64"
    BY <1>6, Zenon DEF TypeOf
  <2>3. v \in Nodes /\ BeginsWith(v.imm64, c, "int", 8)
    BY <1>4, <2>1
  <2>4. node \in Nodes /\ node.type = TypeOf(tag) /\ node.imm64 = v.imm64
    BY <1>2, <2>3, Zenon
  <2> HIDE DEF v
  <2> QED BY <1>6, <2>2, <2>3, <2>4 DEF Stored
<1>7. CASE tag = "Float64i"
  <2>1. v = Union(Bytes(c, "int", 4) \o Times(ZeroByte, 4))
    BY <1>7, Zenon DEF Filled
  <2>2. "int" \in Formats /\ 4 \in 1..12 /\ 4 \in 0..(12 - 4)
    BY DEF Formats
  <2>3. v \in Nodes
    BY <1>3, <2>1, <2>2
  <2>4. TypeOf(tag) = "FLOAT64I"
    BY <1>7, Zenon DEF TypeOf
  <2>5. node \in Nodes /\ node.type = "FLOAT64I"
    BY <1>2, <2>3, <2>4, Zenon
  <2> HIDE DEF v
  <2> QED BY <1>7, <2>5 DEF Stored
<1>8. CASE tag = "Bcd"
  <2>1. v = Union(Bytes(c, "bcd", 10) \o Times(ZeroByte, 2))
    BY <1>8, Zenon DEF Filled, str2bcd
  <2>2. "bcd" \in Formats /\ 10 \in 1..12 /\ 2 \in 0..(12 - 10)
    BY DEF Formats
  <2>3. v \in Nodes /\ BeginsWith(v.imm64, c, "bcd", 10) /\ \A k \in 11..12 : v.imm64[k] = ZeroByte
    BY <1>3, <2>1, <2>2
  <2>4. TypeOf(tag) = "BCD"
    BY <1>8, Zenon DEF TypeOf
  <2>5. node \in Nodes /\ node.type = "BCD" /\ node.imm64 = v.imm64
    BY <1>2, <2>3, <2>4, Zenon
  <2> HIDE DEF v
  <2> QED BY <1>8, <2>3, <2>5 DEF Stored
<1>9. CASE tag = "Float32f"
  <2> DEFINE a == Bytes(c, "f32", 4)
  <2>1. v = [val_node EXCEPT !.float32 = a]
    BY <1>9, Zenon DEF Filled
  <2>2. TypeOf(tag) = "FLOAT32F"
    BY <1>9, Zenon DEF TypeOf
  <2>3. a \in [1..4 -> Byte] /\ BeginsWith(a, c, "f32", 4)
    BY BytesStart
  <2> HIDE DEF a
  <2>4. v \in Nodes /\ v.float32 = a
    <3> HIDE DEF v
    <3> QED BY <2>1, <2>3 DEF Nodes
  <2>5. node \in Nodes /\ node.type = "FLOAT32F" /\ node.float32 = a
    BY <1>2, <2>2, <2>4, Zenon
  <2> HIDE DEF v
  <2> QED BY <1>9, <2>3, <2>5 DEF Stored
<1>10. CASE tag = "Float64f"
  <2> DEFINE a == Bytes(c, "f64", 8)
  <2>1. v = [val_node EXCEPT !.float64 = a]
    BY <1>10, Zenon DEF Filled
  <2>2. TypeOf(tag) = "FLOAT64F"
    BY <1>10, Zenon DEF TypeOf
  <2>3. a \in [1..8 -> Byte] /\ BeginsWith(a, c, "f64", 8)
    BY BytesStart
  <2> HIDE DEF a
  <2>4. v \in Nodes /\ v.float64 = a
    <3> HIDE DEF v
    <3> QED BY <2>1, <2>3 DEF Nodes
  <2>5. node \in Nodes /\ node.type = "FLOAT64F" /\ node.float64 = a
    BY <1>2, <2>2, <2>4, Zenon
  <2> HIDE DEF v
  <2> QED BY <1>10, <2>3, <2>5 DEF Stored
<1>11. CASE tag = "X87env"
  <2> DEFINE a == Bytes(c, "env", 28)
  <2>1. v = [val_node EXCEPT !.fcw = a]
    BY <1>11, Zenon DEF Filled
  <2>2. TypeOf(tag) = "X87ENV"
    BY <1>11, Zenon DEF TypeOf
  <2>3. a \in [1..28 -> Byte] /\ BeginsWith(a, c, "env", 28)
    BY BytesStart
  <2> HIDE DEF a
  <2>4. v \in Nodes /\ v.fcw = a
    <3> HIDE DEF v
    <3> QED BY <2>1, <2>3 DEF Nodes
  <2>5. node \in Nodes /\ node.type = "X87ENV" /\ node.fcw = a
    BY <1>2, <2>2, <2>4, Zenon
  <2> HIDE DEF v
  <2> QED BY <1>11, <2>3, <2>5 DEF Stored
<1>12. CASE tag \in {"Float32i", "Imm32"}
  <2>1. v = Union(Bytes(c, "int", 4))
    BY <1>12, Zenon DEF Filled
  <2>2. TypeOf(tag) = IF tag = "Float32i" THEN "FLOAT32I" ELSE "IMM32"
    BY <1>12, Zenon DEF TypeOf
  <2>3. v \in Nodes /\ BeginsWith(v.imm64, c, "int", 4)
    BY <1>4, <2>1
  <2>4. node \in Nodes /\ node.type = TypeOf(tag) /\ node.imm64 = v.imm64
    BY <1>2, <2>3, Zenon
  <2> HIDE DEF v
  <2> QED BY <1>12, <2>2, <2>3, <2>4 DEF Stored
<1> QED BY <1>5, <1>6, <1>7, <1>8, <1>9, <1>10, <1>11, <1>12 DEF Tags

-----------------------------------------------------------------------------
(* What reaches the operand.                                               *)

\* The constants that the operand holds.
Chosen == IF opnd.kind = "mem" /\ opnd.class \notin {"mmx", "xmm"} THEN <<dispatch>> ELSE val_nodes

\* They are in their elements.
InPlace(img) ==
  \A i \in DOMAIN Chosen : \A k \in 1..Width :
     /\ (i - 1) * Width + k \in DOMAIN img
     /\ img[(i - 1) * Width + k] = <<Chosen[i], FormatOf(file[Chosen[i]], Width), k - 1>>

\* Nothing else is in the operand but zeros.
OfDrawn(img) ==
  \A k \in DOMAIN img :
    img[k] = ZeroByte \/ (img[k] # UndefByte /\ img[k][1] \in ToSet(val_nodes) \cup {dispatch})

Right(img) == InPlace(img) /\ OfDrawn(img)

\* In a file with constants of tag Mmx nothing gets a type that they would inherit.
Kept(f, node) == (\E j \in DOMAIN f : f[j] = "Mmx") => node.type \notin {"FLOAT", "X87ENV"}

\* What a constant of the group is, once the file is parsed.
Known(c) ==
  /\ const_nodes[c] \in Nodes /\ Stored(file[c], c, const_nodes[c]) /\ Kept(file, const_nodes[c])
  /\ file[c] \in opnd.tags

\* The operand has its constants.
Drawn ==
  /\ first \in Nat \ {0} /\ Len(file) \in Nat /\ opnd.packedn \in Nat \ {0}
  /\ first <= Len(file)
  /\ val_nodes \in [1..opnd.packedn -> first..Len(file)] /\ dispatch \in first..Len(file)
  /\ \A c \in first..Len(file) : Known(c) /\ c \in DOMAIN file

\* A constant has a number, which is not 0.
LEMMA ConstByte ==
  ASSUME NEW c \in Nat \ {0}, NEW format, NEW k
  PROVE  <<c, format, k>> # UndefByte /\ <<c, format, k>>[1] = c
BY DEF UndefByte

\* Places of n bytes each.
LEMMA Places ==
  ASSUME NEW n \in {1, 2, 4, 8}, NEW i \in Nat \ {0}, NEW k \in 1..n
  PROVE  /\ (((i - 1) * n + k - 1) \div n) + 1 = i /\ (((i - 1) * n + k - 1) % n) + 1 = k
         /\ (i - 1) * n + k \in Nat \ {0}
         /\ \A p \in Nat : i <= p => (i - 1) * n + k <= n * p
<1>1. CASE n = 1 BY <1>1
<1>2. CASE n = 2 BY <1>2
<1>3. CASE n = 4 BY <1>3
<1>4. CASE n = 8 BY <1>4
<1> QED BY <1>1, <1>2, <1>3, <1>4

\* Each byte is in a place.
LEMMA ElementOfPlace ==
  ASSUME NEW n \in {1, 2, 4, 8}, NEW p \in Nat \ {0}, NEW k \in 1..(n * p)
  PROVE  ((k - 1) \div n) + 1 \in 1..p /\ ((k - 1) % n) + 1 \in 1..n
<1>1. CASE n = 1 BY <1>1
<1>2. CASE n = 2 BY <1>2
<1>3. CASE n = 4 BY <1>3
<1>4. CASE n = 8 BY <1>4
<1> QED BY <1>1, <1>2, <1>3, <1>4

\* The elements of a packed operand, each from its own constant.
LEMMA EachRight ==
  ASSUME Drawn, Chosen = val_nodes, NEW n \in {1, 2, 4, 8}, Width = n, NEW field, NEW format,
         \A c \in first..Len(file) : /\ BeginsWith(const_nodes[c][field], c, format, n)
                                     /\ FormatOf(file[c], Width) = format
  PROVE  Right(Each(field, n))
<1> DEFINE p == opnd.packedn
           img == Each(field, n)
           at(k) == val_nodes[((k - 1) \div n) + 1]
<1>1. Len(val_nodes) = p /\ DOMAIN val_nodes = 1..p /\ p \in Nat \ {0}
  BY FunctionSeq DEF Drawn
<1>2. img = [k \in 1..(n * p) |-> const_nodes[at(k)][field][((k - 1) % n) + 1]]
  BY <1>1 DEF Each, Node
<1> HIDE DEF img
<1>3. \A k \in 1..(n * p) : /\ at(k) \in first..Len(file) /\ at(k) \in ToSet(val_nodes)
                            /\ img[k] = <<at(k), format, (k - 1) % n>>
  <2> SUFFICES ASSUME NEW k \in 1..(n * p)
               PROVE  /\ at(k) \in first..Len(file) /\ at(k) \in ToSet(val_nodes)
                      /\ img[k] = <<at(k), format, (k - 1) % n>>
    OBVIOUS
  <2>1. ((k - 1) \div n) + 1 \in 1..p /\ ((k - 1) % n) + 1 \in 1..n
    BY <1>1, ElementOfPlace
  <2>2. at(k) \in first..Len(file) /\ at(k) \in ToSet(val_nodes)
    BY <1>1, <2>1 DEF Drawn, ToSet
  <2>3. img[k] = const_nodes[at(k)][field][((k - 1) % n) + 1]
    BY <1>2
  <2>4. \A r \in 1..n : const_nodes[at(k)][field][r] = <<at(k), format, r - 1>>
    BY <2>2 DEF BeginsWith
  <2> DEFINE byte == (k - 1) % n
  <2> HIDE DEF at, byte
  <2>5. byte + 1 \in 1..n /\ img[k] = const_nodes[at(k)][field][byte + 1]
    BY <2>1, <2>3 DEF byte
  <2>6. byte \in Int
    BY DEF byte
  <2>7. img[k] = <<at(k), format, byte>>
    BY <2>4, <2>5, <2>6
  <2> QED BY <2>2, <2>7 DEF byte
<1>4. InPlace(img)
  <2> SUFFICES ASSUME NEW i \in 1..p, NEW k \in 1..n
               PROVE  /\ (i - 1) * n + k \in DOMAIN img
                      /\ img[(i - 1) * n + k] = <<val_nodes[i], FormatOf(file[val_nodes[i]], Width), k - 1>>
    BY <1>1 DEF InPlace
  <2> DEFINE q == (i - 1) * n + k
  <2>1. /\ ((q - 1) \div n) + 1 = i /\ ((q - 1) % n) + 1 = k /\ q \in Nat \ {0} /\ q <= n * p
    BY <1>1, Places
  <2>2. q \in 1..(n * p) /\ at(q) = val_nodes[i] /\ (q - 1) % n = k - 1
    <3>1. (q - 1) % n \in Int
      BY <2>1
    <3> HIDE DEF q
    <3> QED BY <1>1, <2>1, <3>1
  <2>3. DOMAIN img = 1..(n * p)
    BY <1>2
  <2> HIDE DEF q
  <2>4. img[q] = <<val_nodes[i], format, k - 1>>
    BY <1>3, <2>2
  <2>5. FormatOf(file[val_nodes[i]], Width) = format
    BY DEF Drawn
  <2> QED BY <2>2, <2>3, <2>4, <2>5 DEF q
<1>5. OfDrawn(img)
  <2> HIDE DEF at
  <2> SUFFICES ASSUME NEW k \in 1..(n * p)
               PROVE  img[k] # UndefByte /\ img[k][1] \in ToSet(val_nodes)
    BY <1>2 DEF OfDrawn
  <2>1. at(k) \in Nat \ {0} /\ at(k) \in ToSet(val_nodes)
    BY <1>3 DEF Drawn
  <2> DEFINE b == <<at(k), format, (k - 1) % n>>
  <2>2. b # UndefByte /\ b[1] = at(k)
    BY <2>1, ConstByte, Zenon
  <2>3. img[k] = b
    BY <1>3
  <2> HIDE DEF b
  <2> QED BY <2>1, <2>2, <2>3
<1> QED BY <1>4, <1>5 DEF Right, img

\* The w bytes of constant d in its format, and zeros up to byte size.
IsConst(img, d, w, size) ==
  /\ DOMAIN img = 1..size
  /\ \A k \in 1..w : img[k] = <<d, FormatOf(file[d], Width), k - 1>>
  /\ \A k \in (w + 1)..size : img[k] = ZeroByte

\* An operand of one constant: its bytes, and zeros.
LEMMA OneRight ==
  ASSUME Drawn, NEW d \in first..Len(file), Chosen = <<d>>, d \in ToSet(val_nodes) \cup {dispatch},
         NEW size \in Nat, Width \in 0..size, NEW img, IsConst(img, d, Width, size)
  PROVE  Right(img)
<1> DEFINE w == Width
<1>1. /\ w \in Nat /\ w <= size /\ DOMAIN img = 1..size
      /\ \A k \in 1..w : img[k] = <<d, FormatOf(file[d], Width), k - 1>>
      /\ \A k \in (w + 1)..size : img[k] = ZeroByte
  BY DEF IsConst
<1> HIDE DEF w
<1>2. InPlace(img)
  <2>1. DOMAIN Chosen = {1} /\ Chosen[1] = d
    OBVIOUS
  <2>2. \A k \in 1..w : (1 - 1) * w + k = k
    BY <1>1
  <2>3. \A k \in 1..w : /\ (1 - 1) * w + k \in DOMAIN img
                       /\ img[(1 - 1) * w + k] = <<d, FormatOf(file[d], Width), k - 1>>
    BY <1>1, <2>2
  <2> QED BY <2>1, <2>3 DEF InPlace, w
<1>3. OfDrawn(img)
  <2>1. d \in Nat \ {0}
    BY DEF Drawn
  <2> SUFFICES ASSUME NEW k \in 1..size
               PROVE  \/ img[k] = ZeroByte
                      \/ img[k] # UndefByte /\ img[k][1] \in ToSet(val_nodes) \cup {dispatch}
    BY <1>1 DEF OfDrawn
  <2>2. CASE k <= w
    <3>1. img[k] = <<d, FormatOf(file[d], Width), k - 1>>
      BY <1>1, <2>2
    <3> QED BY <2>1, <3>1, ConstByte
  <2>3. CASE k > w
    BY <1>1, <2>3
  <2> QED BY <1>1, <2>2, <2>3
<1> QED BY <1>2, <1>3 DEF Right

\* The first bytes of a field.
LEMMA FirstBytes ==
  ASSUME NEW s \in [1..12 -> Byte], NEW n \in 1..12
  PROVE  DOMAIN SubSeq(s, 1, n) = 1..n /\ \A k \in 1..n : SubSeq(s, 1, n)[k] = s[k]
<1>1. s \in Seq(Byte) /\ Len(s) = 12
  BY FunctionSeq
<1>2. /\ SubSeq(s, 1, n) \in Seq(Byte) /\ Len(SubSeq(s, 1, n)) = n
      /\ \A k \in 1..n : SubSeq(s, 1, n)[k] = s[k]
  BY <1>1, SubSeqProperties
<1> DEFINE t == SubSeq(s, 1, n)
<1>3. t \in Seq(Byte) /\ Len(t) = n
  BY <1>2
<1> HIDE DEF t
<1>4. DOMAIN t = 1..n
  BY <1>3, LenProperties
<1> QED BY <1>2, <1>4 DEF t

\* The bytes of a field of n, and zeros up to byte size.
ZerosAfter(t, s, n, size) ==
  /\ DOMAIN t = 1..size
  /\ \A k \in 1..n : t[k] = s[k]
  /\ \A k \in (n + 1)..size : t[k] = ZeroByte

\* A field with zeros behind it.
LEMMA FieldZeros ==
  ASSUME NEW n \in Nat, NEW z \in Nat, NEW s \in [1..n -> Byte]
  PROVE  ZerosAfter(s \o Times(ZeroByte, z), s, n, n + z)
<1> DEFINE b == Times(ZeroByte, z)
<1>1. s \in Seq(Byte) /\ Len(s) = n
  BY FunctionSeq
<1>2. b \in Seq(Byte) /\ Len(b) = z /\ (\A k \in 1..z : b[k] = ZeroByte)
  <2>1. b \in [1..z -> Byte] /\ (\A k \in 1..z : b[k] = ZeroByte)
    BY TimesOf, OtherBytes
  <2> HIDE DEF b
  <2> QED BY <2>1, FunctionSeq
<1> HIDE DEF b
<1>3. /\ s \o b \in Seq(Byte) /\ Len(s \o b) = n + z
      /\ \A k \in 1..(n + z) : (s \o b)[k] = IF k <= n THEN s[k] ELSE b[k - n]
  BY <1>1, <1>2, ConcatProperties, ZenonT(30)
<1>4. DOMAIN (s \o b) = 1..(n + z)
  <2> DEFINE t == s \o b
  <2>1. t \in Seq(Byte) /\ Len(t) = n + z
    BY <1>3
  <2> HIDE DEF t
  <2>2. DOMAIN t = 1..(n + z)
    BY <2>1, LenProperties
  <2> QED BY <2>2 DEF t
<1>5. \A k \in 1..n : (s \o b)[k] = s[k]
  BY <1>3
<1>6. \A k \in (n + 1)..(n + z) : (s \o b)[k] = ZeroByte
  BY <1>2, <1>3
<1>7. ZerosAfter(s \o b, s, n, n + z)
  BY <1>4, <1>5, <1>6 DEF ZerosAfter
<1> QED BY <1>7 DEF b

\* A group of one tag.
LEMMA OneTag ==
  ASSUME Drawn, NEW t, opnd.tags = {t}
  PROVE  Group = {t} /\ \A c \in first..Len(file) : file[c] = t
<1>1. \A c \in first..Len(file) : file[c] = t
  BY DEF Drawn, Known
<1>2. first \in first..Len(file)
  BY DEF Drawn
<1> QED BY <1>1, <1>2 DEF Group

\* The constants the operand was given are of the group.
LEMMA Nodes1 ==
  ASSUME Drawn
  PROVE  /\ DOMAIN val_nodes = 1..opnd.packedn /\ Len(val_nodes) = opnd.packedn
         /\ val_nodes[1] \in first..Len(file) /\ val_nodes[1] \in ToSet(val_nodes)
         /\ opnd.packedn = 1 => val_nodes = <<val_nodes[1]>>
<1>1. DOMAIN val_nodes = 1..opnd.packedn /\ Len(val_nodes) = opnd.packedn
      /\ opnd.packedn \in Nat \ {0}
  BY FunctionSeq DEF Drawn
<1>2. val_nodes[1] \in first..Len(file) /\ val_nodes[1] \in ToSet(val_nodes)
  BY <1>1 DEF Drawn, ToSet
<1>3. opnd.packedn = 1 => val_nodes = <<val_nodes[1]>>
  <2>1. val_nodes \in Seq(Nat)
    BY FunctionSeq, <1>1, SMTT(30) DEF Drawn
  <2> QED BY <1>1, <2>1
<1> QED BY <1>1, <1>2, <1>3

\* A packed operand of MMX.
LEMMA MmxRight ==
  ASSUME Drawn, Chosen = val_nodes, opnd.class = "mmx", opnd.packedn \in {1, 2, 4, 8},
         opnd.tags = {"Mmx"}
  PROVE  Right(init_mmx_register_opnd)
<1> DEFINE n == 8 \div opnd.packedn
<1>1. init_mmx_register_opnd = Each("imm64", n) /\ n \in {1, 2, 4, 8}
  <2>1. Len(val_nodes) = opnd.packedn
    BY Nodes1
  <2>2. CASE opnd.packedn = 1
    <3>1. init_mmx_register_opnd = Each("imm64", 8)
      <4>1. Len(val_nodes) = 1 /\ 1 # 8 /\ 1 # 4 /\ 1 # 2
        BY <2>1, <2>2
      <4> QED BY <4>1, Zenon DEF init_mmx_register_opnd
    <3> QED BY <2>2, <3>1
  <2>3. CASE opnd.packedn = 2
    <3>1. init_mmx_register_opnd = Each("imm64", 4)
      <4>1. Len(val_nodes) = 2 /\ 2 # 8 /\ 2 # 4 /\ 2 # 1
        BY <2>1, <2>3
      <4> QED BY <4>1, Zenon DEF init_mmx_register_opnd
    <3> QED BY <2>3, <3>1
  <2>4. CASE opnd.packedn = 4
    <3>1. init_mmx_register_opnd = Each("imm64", 2)
      <4>1. Len(val_nodes) = 4 /\ 4 # 8 /\ 4 # 2 /\ 4 # 1
        BY <2>1, <2>4
      <4> QED BY <4>1, Zenon DEF init_mmx_register_opnd
    <3> QED BY <2>4, <3>1
  <2>5. CASE opnd.packedn = 8
    <3>1. init_mmx_register_opnd = Each("imm64", 1)
      <4>1. Len(val_nodes) = 8 /\ 8 # 4 /\ 8 # 2 /\ 8 # 1
        BY <2>1, <2>5
      <4> QED BY <4>1, Zenon DEF init_mmx_register_opnd
    <3> QED BY <2>5, <3>1
  <2> QED BY <2>2, <2>3, <2>4, <2>5
<1>2. Width = n
  BY Zenon DEF Width
<1>3. \A c \in first..Len(file) : /\ BeginsWith(const_nodes[c]["imm64"], c, "int", n)
                                  /\ FormatOf(file[c], Width) = "int"
  <2> SUFFICES ASSUME NEW c \in first..Len(file)
               PROVE  BeginsWith(const_nodes[c]["imm64"], c, "int", n) /\ FormatOf(file[c], Width) = "int"
    OBVIOUS
  <2>1. file[c] = "Mmx"
    BY OneTag
  <2>2. BeginsWith(const_nodes[c].imm64, c, "int", 8)
    BY <2>1 DEF Drawn, Known, Stored
  <2>3. FormatOf(file[c], Width) = "int"
    BY <2>1, Zenon DEF FormatOf
  <2> QED BY <1>1, <2>2, <2>3, SMTT(30) DEF BeginsWith
<1> HIDE DEF n
<1> QED BY <1>1, <1>2, <1>3, EachRight

\* One constant in an operand of MMX or XMM, or in a register.
LEMMA OneOfDrawn ==
  ASSUME Drawn, Chosen = val_nodes, opnd.packedn = 1,
         NEW size \in Nat, Width \in 0..size, NEW img, IsConst(img, val_nodes[1], Width, size)
  PROVE  Right(img)
<1> DEFINE d == val_nodes[1]
<1>1. d \in first..Len(file) /\ d \in ToSet(val_nodes) \cup {dispatch} /\ Chosen = <<d>>
  BY Nodes1
<1>2. IsConst(img, d, Width, size)
  OBVIOUS
<1> HIDE DEF d
<1> QED BY <1>1, <1>2, OneRight

\* The tag of a packed operand of XMM, and what its constants are.
LEMMA XmmTag ==
  ASSUME Drawn, opnd.class = "xmm", NEW t \in {"Float32f", "Imm32", "Float64f", "Imm64"},
         opnd.tags = {t}
  PROVE  /\ Width = IF t \in {"Float64f", "Imm64"} THEN 8 ELSE 4
         /\ \A c \in first..Len(file) :
              /\ const_nodes[c] \in Nodes
              /\ t = "Float32f" => /\ const_nodes[c].type = "FLOAT32F" /\ FormatOf(file[c], Width) = "f32"
                                   /\ BeginsWith(const_nodes[c].float32, c, "f32", 4)
              /\ t = "Imm32" => /\ const_nodes[c].type = "IMM32" /\ FormatOf(file[c], Width) = "int"
                                /\ BeginsWith(const_nodes[c].imm64, c, "int", 4)
              /\ t = "Float64f" => /\ const_nodes[c].type = "FLOAT64F" /\ FormatOf(file[c], Width) = "f64"
                                   /\ BeginsWith(const_nodes[c].float64, c, "f64", 8)
              /\ t = "Imm64" => /\ const_nodes[c].type = "IMM64" /\ FormatOf(file[c], Width) = "int"
                                /\ BeginsWith(const_nodes[c].imm64, c, "int", 8)
<1>1. Width = IF t \in {"Float64f", "Imm64"} THEN 8 ELSE 4
  <2>1. Group = {t}
    BY OneTag
  <2>2. (Group \cap {"Float64f", "Imm64"} # {}) <=> t \in {"Float64f", "Imm64"}
    BY <2>1
  <2>3. Width = IF Group \cap {"Float64f", "Imm64"} # {} THEN 8 ELSE 4
    BY Zenon DEF Width
  <2> QED BY <2>2, <2>3
<1>2. /\ FormatOf("Float32f", Width) = "f32" /\ FormatOf("Float64f", Width) = "f64"
      /\ FormatOf("Imm32", Width) = "int" /\ FormatOf("Imm64", Width) = "int"
  BY Zenon DEF FormatOf
<1>3. \A c \in first..Len(file) : file[c] = t /\ const_nodes[c] \in Nodes /\ Stored(file[c], c, const_nodes[c])
  BY OneTag DEF Drawn, Known
<1> QED BY <1>1, <1>2, <1>3 DEF Stored

\* An operand of XMM.
LEMMA XmmRight ==
  ASSUME Drawn, Chosen = val_nodes, opnd.class = "xmm",
         NEW t \in {"Float32f", "Imm32", "Float64f", "Imm64"}, opnd.tags = {t},
         (opnd.packedn = 1 /\ t # "Imm32") \/ opnd.packedn = IF t \in {"Float32f", "Imm32"} THEN 4 ELSE 2
  PROVE  Right(init_xmm_register_opnd)
<1> DEFINE d == val_nodes[1]
           n == Len(val_nodes)
           img == init_xmm_register_opnd
<1>1. n = opnd.packedn /\ d \in first..Len(file) /\ Node(1) = const_nodes[d]
  BY Nodes1 DEF Node
<1>2. const_nodes[d] \in Nodes
  BY <1>1, XmmTag
<1>3. ASSUME t = "Float32f", n = 4 PROVE Right(img)
  <2>1. Node(1).type = "FLOAT32F" /\ 4 # 2 /\ 4 # 1
    BY <1>1, <1>3, XmmTag
  <2>2. img = Each("float32", 4)
    BY <1>3, <2>1, Zenon DEF init_xmm_register_opnd
  <2>3. Width = 4
    BY <1>3, XmmTag
  <2>4. \A c \in first..Len(file) : /\ BeginsWith(const_nodes[c]["float32"], c, "f32", 4)
                                    /\ FormatOf(file[c], Width) = "f32"
    BY <1>3, XmmTag
  <2> HIDE DEF img
  <2> QED BY <2>2, <2>3, <2>4, EachRight
<1>4. ASSUME t = "Imm32", n = 4 PROVE Right(img)
  <2>1. Node(1).type = "IMM32" /\ 4 # 2 /\ 4 # 1
    BY <1>1, <1>4, XmmTag
  <2>2. img = Each("imm64", 4)
    BY <1>4, <2>1, Zenon DEF init_xmm_register_opnd
  <2>3. Width = 4
    BY <1>4, XmmTag
  <2>4. \A c \in first..Len(file) : /\ BeginsWith(const_nodes[c]["imm64"], c, "int", 4)
                                    /\ FormatOf(file[c], Width) = "int"
    BY <1>4, XmmTag
  <2> HIDE DEF img
  <2> QED BY <2>2, <2>3, <2>4, EachRight
<1>5. ASSUME t = "Float64f", n = 2 PROVE Right(img)
  <2>1. Node(1).type = "FLOAT64F" /\ 2 # 4
    BY <1>1, <1>5, XmmTag
  <2>2. img = Each("float64", 8)
    BY <1>5, <2>1, Zenon DEF init_xmm_register_opnd
  <2>3. Width = 8
    BY <1>5, XmmTag
  <2>4. \A c \in first..Len(file) : /\ BeginsWith(const_nodes[c]["float64"], c, "f64", 8)
                                    /\ FormatOf(file[c], Width) = "f64"
    BY <1>5, XmmTag
  <2> HIDE DEF img
  <2> QED BY <2>2, <2>3, <2>4, EachRight
<1>6. ASSUME t = "Imm64", n = 2 PROVE Right(img)
  <2>1. Node(1).type = "IMM64" /\ 2 # 4
    BY <1>1, <1>6, XmmTag
  <2>2. img = Each("imm64", 8)
    BY <1>6, <2>1, Zenon DEF init_xmm_register_opnd
  <2>3. Width = 8
    BY <1>6, XmmTag
  <2>4. \A c \in first..Len(file) : /\ BeginsWith(const_nodes[c]["imm64"], c, "int", 8)
                                    /\ FormatOf(file[c], Width) = "int"
    BY <1>6, XmmTag
  <2> HIDE DEF img
  <2> QED BY <2>2, <2>3, <2>4, EachRight
<1>7. ASSUME t = "Float32f", n = 1 PROVE Right(img)
  <2> DEFINE f == const_nodes[d].float32
  <2>1. Node(1).type = "FLOAT32F" /\ 1 # 4 /\ 1 # 2
    BY <1>1, <1>7, XmmTag
  <2>2. img = f \o Times(ZeroByte, 12)
    <3>1. img = Node(1).float32 \o Times(ZeroByte, 12)
      BY <1>7, <2>1, Zenon DEF init_xmm_register_opnd
    <3> QED BY <1>1, <3>1
  <2>3. /\ Width = 4 /\ FormatOf(file[d], Width) = "f32" /\ BeginsWith(f, d, "f32", 4)
    BY <1>1, <1>7, XmmTag
  <2>4. f \in [1..4 -> Byte]
    BY <1>2 DEF Nodes
  <2> HIDE DEF img, d, f
  <2>5. /\ DOMAIN img = 1..16 /\ \A k \in 1..4 : img[k] = f[k]
        /\ \A k \in (4 + 1)..16 : img[k] = ZeroByte
    <3>1. \A z \in Nat : ZerosAfter(f \o Times(ZeroByte, z), f, 4, 4 + z)
      <4>1. 4 \in Nat
        OBVIOUS
      <4> QED BY <2>4, <4>1, FieldZeros, Zenon
    <3>2. ZerosAfter(img, f, 4, 4 + 12) /\ 4 + 12 = 16
      BY <2>2, <3>1
    <3> QED BY <3>2 DEF ZerosAfter
  <2>6. \A k \in 1..4 : img[k] = <<d, "f32", k - 1>>
    BY <2>3, <2>5 DEF BeginsWith
  <2>7. opnd.packedn = 1 /\ IsConst(img, d, Width, 16) /\ Width \in 0..16
    BY <1>1, <1>7, <2>3, <2>5, <2>6 DEF IsConst
  <2> QED BY <2>7, OneOfDrawn DEF d
<1>8. ASSUME t = "Float64f", n = 1 PROVE Right(img)
  <2> DEFINE f == const_nodes[d].float64
  <2>1. Node(1).type = "FLOAT64F" /\ 1 # 4 /\ 1 # 2
    BY <1>1, <1>8, XmmTag
  <2>2. img = f
    <3>1. img = Node(1).float64
      BY <1>8, <2>1, Zenon DEF init_xmm_register_opnd
    <3> QED BY <1>1, <3>1
  <2>3. /\ Width = 8 /\ FormatOf(file[d], Width) = "f64" /\ BeginsWith(f, d, "f64", 8)
    BY <1>1, <1>8, XmmTag
  <2>4. f \in [1..8 -> Byte]
    BY <1>2 DEF Nodes
  <2> HIDE DEF img, d, f
  <2>5. DOMAIN img = 1..8 /\ \A k \in 1..8 : img[k] = <<d, "f64", k - 1>>
    BY <2>2, <2>3, <2>4 DEF BeginsWith
  <2>7. opnd.packedn = 1 /\ IsConst(img, d, Width, 8) /\ Width \in 0..8
    BY <1>1, <1>8, <2>3, <2>5 DEF IsConst
  <2> QED BY <2>7, OneOfDrawn DEF d
<1>9. ASSUME t = "Imm64", n = 1 PROVE Right(img)
  <2> DEFINE f == const_nodes[d].imm64
  <2>1. Node(1).type = "IMM64" /\ 1 # 4 /\ 1 # 2
    BY <1>1, <1>9, XmmTag
  <2>2. img = SubSeq(f, 1, 8)
    <3>1. img = SubSeq(Node(1).imm64, 1, 8)
      BY <1>9, <2>1, Zenon DEF init_xmm_register_opnd
    <3> QED BY <1>1, <3>1
  <2>3. /\ Width = 8 /\ FormatOf(file[d], Width) = "int" /\ BeginsWith(f, d, "int", 8)
    BY <1>1, <1>9, XmmTag
  <2>4. f \in [1..12 -> Byte]
    BY <1>2 DEF Nodes
  <2> HIDE DEF img, d, f
  <2>5. DOMAIN img = 1..8 /\ \A k \in 1..8 : img[k] = f[k]
    BY <2>2, <2>4, FirstBytes
  <2>6. \A k \in 1..8 : img[k] = <<d, "int", k - 1>>
    BY <2>3, <2>5 DEF BeginsWith
  <2>7. opnd.packedn = 1 /\ IsConst(img, d, Width, 8) /\ Width \in 0..8
    BY <1>1, <1>9, <2>3, <2>5, <2>6 DEF IsConst
  <2> QED BY <2>7, OneOfDrawn DEF d
<1> QED BY <1>1, <1>3, <1>4, <1>5, <1>6, <1>7, <1>8, <1>9

\* A move of the size of the operand.
LEMMA MovRight ==
  ASSUME Drawn, NEW d \in first..Len(file), Chosen = <<d>>, d \in ToSet(val_nodes) \cup {dispatch},
         opnd.class = "gpr", opnd.size \in {8, 16, 32}, opnd.tags = {"Imm32", "Imm64"}
  PROVE  Right(mov(const_nodes[d])) /\ const_nodes[d].type \notin {"FLOAT", "X87ENV"}
<1> DEFINE f == const_nodes[d].imm64
           n == opnd.size \div 8
           img == SubSeq(f, 1, n)
<1>1. Width = n
  BY Zenon DEF Width
<1>2. n \in {1, 2, 4} /\ (IF opnd.size \in {8, 16} THEN opnd.size \div 8 ELSE 4) = n
  OBVIOUS
<1>3. file[d] \in {"Imm32", "Imm64"} /\ const_nodes[d] \in Nodes /\ Stored(file[d], d, const_nodes[d])
  BY DEF Drawn, Known
<1>4. FormatOf(file[d], Width) = "int"
  <2>1. FormatOf("Imm32", Width) = "int" /\ FormatOf("Imm64", Width) = "int"
    BY Zenon DEF FormatOf
  <2> QED BY <1>3, <2>1
<1>5. BeginsWith(f, d, "int", 4) /\ const_nodes[d].type \notin {"FLOAT", "X87ENV"}
  BY <1>3, SMTT(30) DEF Stored, BeginsWith
<1>6. mov(const_nodes[d]) = img
  BY <1>2 DEF mov
<1>7. f \in [1..12 -> Byte]
  BY <1>3 DEF Nodes
<1> HIDE DEF f, n
<1>8. DOMAIN img = 1..n /\ \A k \in 1..n : img[k] = f[k]
  BY <1>2, <1>7, FirstBytes
<1> HIDE DEF img
<1>9. IsConst(img, d, n, n)
  BY <1>2, <1>4, <1>5, <1>8 DEF IsConst, BeginsWith
<1>10. Right(img)
  <2>1. IsConst(img, d, Width, n) /\ Width \in 0..n /\ n \in Nat
    BY <1>1, <1>2, <1>9
  <2> QED BY <2>1, OneRight
<1> QED BY <1>5, <1>6, <1>10

\* A float in memory.
LEMMA FloatRight ==
  ASSUME Drawn, opnd.kind = "mem", opnd.tags = {"Immf"},
         (opnd.class = "gpr" /\ opnd.size \in {32, 64}) \/ (opnd.class = "fpu80" /\ opnd.size = 80)
  PROVE  Right(init_memory_opnd(const_nodes[dispatch]))
<1> DEFINE d == dispatch
           node == const_nodes[d]
<1>1. Chosen = <<d>> /\ d \in first..Len(file)
  BY DEF Chosen, Drawn
<1>2. file[d] = "Immf" /\ node \in Nodes /\ Stored(file[d], d, node)
  BY <1>1 DEF Drawn, Known
<1>3. /\ node.type = "FLOAT" /\ BeginsWith(node.float32, d, "f32", 4)
      /\ BeginsWith(node.float64, d, "f64", 8) /\ BeginsWith(node.float80, d, "f80", 10)
      /\ node.float32 \in [1..4 -> Byte] /\ node.float64 \in [1..8 -> Byte]
      /\ node.float80 \in [1..10 -> Byte]
  BY <1>2 DEF Stored, Nodes
<1>4. init_memory_opnd(node) = float(node)
  BY <1>3, Zenon DEF init_memory_opnd
<1>5. Width = opnd.size \div 8
  BY Zenon DEF Width
<1> HIDE DEF d, node
<1>6. CASE opnd.size = 32
  <2>1. Width = 4 /\ float(node) = node.float32
    <3>1. 32 # 64 /\ 32 # 80
      OBVIOUS
    <3>2. float(node) = node.float32
      BY <1>6, <3>1, Zenon DEF float
    <3> QED BY <1>5, <1>6, <3>2
  <2>2. FormatOf("Immf", Width) = "f32"
    <3>1. Width = 4 /\ 4 # 8
      BY <2>1
    <3> QED BY <3>1, Zenon DEF FormatOf
  <2>3. IsConst(node.float32, d, Width, 4) /\ Width \in 0..4
    BY <1>2, <1>3, <2>1, <2>2 DEF IsConst, BeginsWith
  <2>4. Right(node.float32)
    BY <1>1, <2>3, OneRight DEF d
  <2> QED BY <1>4, <2>1, <2>4 DEF d, node
<1>7. CASE opnd.size = 64
  <2>1. Width = 8 /\ float(node) = node.float64
    <3>1. 64 # 32 /\ 64 # 80
      OBVIOUS
    <3>2. float(node) = node.float64
      BY <1>7, <3>1, Zenon DEF float
    <3> QED BY <1>5, <1>7, <3>2
  <2>2. FormatOf("Immf", Width) = "f64"
    <3>1. Width = 8 /\ 8 # 4
      BY <2>1
    <3> QED BY <3>1, Zenon DEF FormatOf
  <2>3. IsConst(node.float64, d, Width, 8) /\ Width \in 0..8
    BY <1>2, <1>3, <2>1, <2>2 DEF IsConst, BeginsWith
  <2>4. Right(node.float64)
    BY <1>1, <2>3, OneRight DEF d
  <2> QED BY <1>4, <2>1, <2>4 DEF d, node
<1>8. CASE opnd.size = 80
  <2> DEFINE f == node.float80
  <2>1. Width = 10 /\ float(node) = f \o Times(ZeroByte, 2)
    <3>1. 80 # 32 /\ 80 # 64
      OBVIOUS
    <3>2. float(node) = f \o Times(ZeroByte, 2)
      BY <1>8, <3>1, Zenon DEF float
    <3> QED BY <1>5, <1>8, <3>2
  <2>2. FormatOf("Immf", Width) = "f80"
    <3>1. Width # 4 /\ Width # 8
      BY <2>1
    <3> QED BY <3>1, Zenon DEF FormatOf
  <2>3. f \in [1..10 -> Byte] /\ BeginsWith(f, d, "f80", 10)
    BY <1>3
  <2> HIDE DEF f
  <2>4. ZerosAfter(float(node), f, 10, 12)
    <3>1. \A z \in Nat : ZerosAfter(f \o Times(ZeroByte, z), f, 10, 10 + z)
      BY <2>3, FieldZeros
    <3>2. 10 + 2 = 12
      OBVIOUS
    <3> QED BY <2>1, <3>1, <3>2
  <2> DEFINE img == float(node)
  <2> HIDE DEF img
  <2>5. DOMAIN img = 1..12 /\ (\A k \in 11..12 : img[k] = ZeroByte)
        /\ \A k \in 1..10 : img[k] = <<d, "f80", k - 1>>
    BY <2>3, <2>4 DEF BeginsWith, ZerosAfter, img
  <2>6. IsConst(img, d, Width, 12) /\ Width \in 0..12
    BY <1>2, <2>1, <2>2, <2>5 DEF IsConst
  <2>7. Right(img)
    BY <1>1, <2>6, OneRight DEF d
  <2> QED BY <1>4, <2>7 DEF img, d, node
<1> QED BY <1>6, <1>7, <1>8

\* Integers of 64 bits, decimals and environments in memory.
LEMMA OtherMemRight ==
  ASSUME Drawn, opnd.kind = "mem",
         \/ opnd.class = "gpr" /\ opnd.size = 64 /\ opnd.tags = {"Imm64"}
         \/ opnd.class = "fpu80" /\ opnd.size = 80 /\ opnd.tags = {"Bcd"}
         \/ opnd.class = "env" /\ opnd.tags = {"X87env"}
  PROVE  Right(init_memory_opnd(const_nodes[dispatch]))
<1> DEFINE d == dispatch
           node == const_nodes[d]
<1>1. Chosen = <<d>> /\ d \in first..Len(file)
  BY DEF Chosen, Drawn
<1>2. file[d] \in opnd.tags /\ node \in Nodes /\ Stored(file[d], d, node)
  BY <1>1 DEF Drawn, Known
<1>3. node.imm64 \in [1..12 -> Byte] /\ node.fcw \in [1..28 -> Byte]
  BY <1>2 DEF Nodes
<1>4. CASE opnd.class = "gpr" /\ opnd.size = 64 /\ opnd.tags = {"Imm64"}
  <2>1. file[d] = "Imm64" /\ node.type = "IMM64" /\ BeginsWith(node.imm64, d, "int", 8)
    BY <1>2, <1>4 DEF Stored
  <2>2. init_memory_opnd(node) = imm64(node)
    <3>1. 64 # 80
      OBVIOUS
    <3> QED BY <1>4, <2>1, <3>1, Zenon DEF init_memory_opnd
  <2>3. Width = 8
    <3>1. Width = opnd.size \div 8
      BY <1>4, Zenon DEF Width
    <3> QED BY <1>4, <3>1
  <2>4. FormatOf("Imm64", Width) = "int"
    BY Zenon DEF FormatOf
  <2> DEFINE img == SubSeq(node.imm64, 1, 8)
  <2>5. DOMAIN img = 1..8 /\ \A k \in 1..8 : img[k] = node.imm64[k]
    BY <1>3, FirstBytes
  <2>6. imm64(node) = img
    BY DEF imm64
  <2> HIDE DEF d, node, img
  <2>7. IsConst(img, d, Width, 8) /\ Width \in 0..8
    BY <2>1, <2>3, <2>4, <2>5 DEF IsConst, BeginsWith
  <2> QED BY <1>1, <2>2, <2>6, <2>7, OneRight DEF d, node
<1>5. CASE opnd.class = "fpu80" /\ opnd.size = 80 /\ opnd.tags = {"Bcd"}
  <2>1. /\ file[d] = "Bcd" /\ node.type = "BCD" /\ BeginsWith(node.imm64, d, "bcd", 10)
        /\ node.imm64[11] = ZeroByte /\ node.imm64[12] = ZeroByte
    BY <1>2, <1>5 DEF Stored
  <2>2. init_memory_opnd(node) = node.imm64
    <3>1. 80 # 64
      OBVIOUS
    <3> QED BY <1>5, <2>1, <3>1, Zenon DEF init_memory_opnd, bcd80
  <2>3. Width = 10
    <3>1. Width = opnd.size \div 8
      BY <1>5, Zenon DEF Width
    <3> QED BY <1>5, <3>1
  <2>4. FormatOf("Bcd", Width) = "bcd"
    BY Zenon DEF FormatOf
  <2> HIDE DEF d, node
  <2>5. \A k \in (10 + 1)..12 : k = 11 \/ k = 12
    OBVIOUS
  <2>6. IsConst(node.imm64, d, Width, 12) /\ Width \in 0..12
    BY <1>3, <2>1, <2>3, <2>4, <2>5 DEF IsConst, BeginsWith
  <2> QED BY <1>1, <2>2, <2>6, OneRight DEF d, node
<1>6. CASE opnd.class = "env" /\ opnd.tags = {"X87env"}
  <2>1. file[d] = "X87env" /\ node.type = "X87ENV" /\ BeginsWith(node.fcw, d, "env", 28)
    BY <1>2, <1>6 DEF Stored
  <2>2. init_memory_opnd(node) = node.fcw
    BY <2>1, Zenon DEF init_memory_opnd, x87env
  <2>3. Width = 28
    BY <1>6, Zenon DEF Width
  <2>4. FormatOf("X87env", Width) = "env"
    BY Zenon DEF FormatOf
  <2> HIDE DEF d, node
  <2>5. IsConst(node.fcw, d, Width, 28) /\ Width \in 0..28
    BY <1>3, <2>1, <2>3, <2>4 DEF IsConst, BeginsWith
  <2> QED BY <1>1, <2>2, <2>5, OneRight DEF d, node
<1> QED BY <1>4, <1>5, <1>6

\* A register of the x87.
LEMMA FpuRight ==
  ASSUME Drawn, Chosen = val_nodes, opnd.class = "fpu", opnd.packedn = 1,
         NEW t \in {"Immf", "Float32i"}, opnd.tags = {t}
  PROVE  IF t = "Immf" THEN Right(Node(1).float64) /\ Node(1).type = "FLOAT"
                       ELSE Right(SubSeq(Node(1).imm64, 1, 4)) /\ Node(1).type = "FLOAT32I"
<1> DEFINE d == val_nodes[1]
           node == const_nodes[d]
<1>1. d \in first..Len(file) /\ Node(1) = node
  BY Nodes1 DEF Node
<1>2. file[d] = t /\ node \in Nodes /\ Stored(file[d], d, node)
  BY <1>1 DEF Drawn, Known
<1>3. node.imm64 \in [1..12 -> Byte] /\ node.float64 \in [1..8 -> Byte]
  BY <1>2 DEF Nodes
<1>4. Width = IF t = "Float32i" THEN 4 ELSE 8
  <2>1. Group = {t}
    BY OneTag
  <2>2. (Group \subseteq {"Float32i"}) <=> t = "Float32i"
    BY <2>1
  <2>3. Width = IF Group \subseteq {"Float32i"} THEN 4 ELSE 8
    BY Zenon DEF Width
  <2> QED BY <2>2, <2>3
<1>5. CASE t = "Immf"
  <2>1. node.type = "FLOAT" /\ BeginsWith(node.float64, d, "f64", 8)
    BY <1>2, <1>5 DEF Stored
  <2>2. FormatOf("Immf", Width) = "f64"
    <3>1. Width = 8 /\ 8 # 4
      BY <1>4, <1>5
    <3> QED BY <3>1, Zenon DEF FormatOf
  <2> HIDE DEF d, node
  <2>3. IsConst(node.float64, d, Width, 8) /\ Width \in 0..8
    BY <1>2, <1>3, <1>4, <1>5, <2>1, <2>2 DEF IsConst, BeginsWith
  <2>4. Right(node.float64)
    BY <2>3, OneOfDrawn DEF d
  <2> QED BY <1>1, <1>5, <2>1, <2>4
<1>6. CASE t = "Float32i"
  <2>1. node.type = "FLOAT32I" /\ BeginsWith(node.imm64, d, "int", 4)
    BY <1>2, <1>6 DEF Stored
  <2>2. FormatOf("Float32i", Width) = "int"
    BY Zenon DEF FormatOf
  <2> DEFINE img == SubSeq(node.imm64, 1, 4)
  <2>3. DOMAIN img = 1..4 /\ \A k \in 1..4 : img[k] = node.imm64[k]
    BY <1>3, FirstBytes
  <2> HIDE DEF d, node, img
  <2>4. IsConst(img, d, Width, 4) /\ Width \in 0..4
    BY <1>2, <1>4, <1>6, <2>1, <2>2, <2>3 DEF IsConst, BeginsWith
  <2>5. Right(img)
    BY <2>4, OneOfDrawn DEF d
  <2> QED BY <1>1, <1>6, <2>1, <2>5 DEF img
<1> QED BY <1>5, <1>6

\* Whatever operand is initialized, its bytes are right.
LEMMA OperandRight ==
  ASSUME Drawn, Fits(opnd), \A c \in first..Len(file) : file[c] = "Mmx" => const_nodes[c].type \notin {"FLOAT", "X87ENV"},
         init_opnd
  PROVE  Right(image')
<1>1. /\ opnd.kind = "mem" => image' = init_memory_opnd(const_nodes[dispatch])
      /\ opnd.kind = "reg" /\ opnd.class = "mmx" => image' = init_mmx_register_opnd
      /\ opnd.kind = "reg" /\ opnd.class = "xmm" => image' = init_xmm_register_opnd
      /\ opnd.kind = "reg" /\ opnd.class = "fpu" => image' = init_fpu_register_opnd
      /\ opnd.kind = "implied" /\ opnd.class = "fpu" =>
           image' = IF Node(1).type = "FLOAT32I" THEN SubSeq(Node(1).imm64, 1, 4) ELSE Node(1).float64
      /\ opnd.kind = "reg" /\ opnd.class = "gpr" => image' = mov(Node(1))
  <2> DEFINE mem == init_memory_opnd(const_nodes[dispatch])
             mmx == init_mmx_register_opnd
             xmm == init_xmm_register_opnd
             fpu == init_fpu_register_opnd
             top == IF Node(1).type = "FLOAT32I" THEN SubSeq(Node(1).imm64, 1, 4) ELSE Node(1).float64
             gpr == mov(Node(1))
  <2>1. image' = CASE opnd.kind = "mem" -> mem
                   [] opnd.kind = "reg" /\ opnd.class = "mmx" -> mmx
                   [] opnd.kind = "reg" /\ opnd.class = "xmm" -> xmm
                   [] opnd.kind = "reg" /\ opnd.class = "fpu" -> fpu
                   [] opnd.kind = "implied" /\ opnd.class = "fpu" -> top
                   [] OTHER -> gpr
    BY Zenon DEF init_opnd
  <2> HIDE DEF mem, mmx, xmm, fpu, top, gpr
  <2>2. /\ opnd.kind = "mem" => image' = mem
        /\ opnd.kind = "reg" /\ opnd.class = "mmx" => image' = mmx
        /\ opnd.kind = "reg" /\ opnd.class = "xmm" => image' = xmm
        /\ opnd.kind = "reg" /\ opnd.class = "fpu" => image' = fpu
        /\ opnd.kind = "implied" /\ opnd.class = "fpu" => image' = top
        /\ opnd.kind = "reg" /\ opnd.class = "gpr" => image' = gpr
    BY <2>1, Zenon
  <2> QED BY <2>2 DEF mem, mmx, xmm, fpu, top, gpr
<1>2. dispatch \in first..Len(file) /\ val_nodes[1] \in first..Len(file) /\ val_nodes[1] \in ToSet(val_nodes)
  BY Nodes1 DEF Drawn
<1>3. CASE /\ opnd.class = "mmx" /\ opnd.kind \in {"reg", "mem"} /\ opnd.size = 64
           /\ opnd.packedn \in {1, 2, 4, 8} /\ opnd.tags = {"Mmx"}
  <2>1. Chosen = val_nodes
    BY <1>3 DEF Chosen
  <2>2. Right(init_mmx_register_opnd)
    BY <1>3, <2>1, MmxRight
  <2>3. const_nodes[dispatch].type \notin {"FLOAT", "X87ENV"}
    BY <1>2, <1>3, OneTag
  <2>4. init_memory_opnd(const_nodes[dispatch]) = init_mmx_register_opnd
    <3>1. const_nodes[dispatch].type # "FLOAT" /\ const_nodes[dispatch].type # "X87ENV"
      BY <2>3
    <3> QED BY <1>3, <2>3, <3>1, Zenon DEF init_memory_opnd, init_memory_opnd_mmx
  <2> QED BY <1>1, <1>3, <2>2, <2>4
<1>4. CASE /\ opnd.class = "xmm" /\ opnd.kind \in {"reg", "mem"} /\ opnd.size = 128
           /\ \E t \in {"Float32f", "Imm32", "Float64f", "Imm64"} :
                /\ opnd.tags = {t}
                /\ (opnd.packedn = 1 /\ t # "Imm32")
                   \/ opnd.packedn = IF t \in {"Float32f", "Imm32"} THEN 4 ELSE 2
  <2>1. PICK t \in {"Float32f", "Imm32", "Float64f", "Imm64"} :
          /\ opnd.tags = {t}
          /\ (opnd.packedn = 1 /\ t # "Imm32") \/ opnd.packedn = IF t \in {"Float32f", "Imm32"} THEN 4 ELSE 2
    BY <1>4
  <2>2. Chosen = val_nodes
    BY <1>4 DEF Chosen
  <2>3. Right(init_xmm_register_opnd)
    BY <1>4, <2>1, <2>2, XmmRight
  <2>4. const_nodes[dispatch].type \notin {"FLOAT", "X87ENV"}
    BY <1>2, <1>4, <2>1, XmmTag
  <2>5. init_memory_opnd(const_nodes[dispatch]) = init_xmm_register_opnd
    <3>1. /\ const_nodes[dispatch].type # "FLOAT" /\ const_nodes[dispatch].type # "X87ENV"
          /\ opnd.class = "xmm" /\ opnd.class # "mmx" /\ opnd.size # 64 /\ opnd.size # 80
          /\ opnd.size \notin {64, 80}
      BY <1>4, <2>4
    <3> QED BY <2>4, <3>1, Zenon DEF init_memory_opnd, init_memory_opnd_xmm
  <2> QED BY <1>1, <1>4, <2>3, <2>5
<1>5. CASE /\ opnd.class = "gpr" /\ opnd.kind \in {"reg", "mem"} /\ opnd.size \in {8, 16, 32}
           /\ opnd.packedn = 1 /\ opnd.tags = {"Imm32", "Imm64"}
  <2>1. CASE opnd.kind = "reg"
    <3>1. Chosen = <<val_nodes[1]>>
      BY <2>1, <1>5, Nodes1 DEF Chosen
    <3>2. Right(mov(const_nodes[val_nodes[1]]))
      <4> DEFINE d == val_nodes[1]
      <4>1. d \in first..Len(file) /\ Chosen = <<d>> /\ d \in ToSet(val_nodes) \cup {dispatch}
        BY <1>2, <3>1
      <4> HIDE DEF d
      <4>2. Right(mov(const_nodes[d]))
        BY <1>5, <4>1, MovRight
      <4> QED BY <4>2 DEF d
    <3> QED BY <1>1, <1>5, <2>1, <3>2 DEF Node
  <2>2. CASE opnd.kind = "mem"
    <3>1. Chosen = <<dispatch>>
      BY <2>2, <1>5 DEF Chosen
    <3>2. /\ Right(mov(const_nodes[dispatch]))
          /\ const_nodes[dispatch].type \notin {"FLOAT", "X87ENV"}
      BY <1>2, <1>5, <3>1, MovRight
    <3>3. init_memory_opnd(const_nodes[dispatch]) = mov(const_nodes[dispatch])
      <4>1. /\ const_nodes[dispatch].type # "FLOAT" /\ const_nodes[dispatch].type # "X87ENV"
            /\ opnd.class # "xmm" /\ opnd.class # "mmx" /\ opnd.size # 64 /\ opnd.size # 80
            /\ opnd.size \notin {64, 80}
        BY <1>5, <3>2
      <4> QED BY <3>2, <4>1, Zenon DEF init_memory_opnd
    <3> QED BY <1>1, <2>2, <3>2, <3>3
  <2> QED BY <1>5, <2>1, <2>2
<1>6. CASE /\ opnd.kind = "mem" /\ opnd.tags = {"Immf"}
           /\ (opnd.class = "gpr" /\ opnd.size \in {32, 64}) \/ (opnd.class = "fpu80" /\ opnd.size = 80)
  BY <1>1, <1>6, FloatRight
<1>7. CASE /\ opnd.kind = "mem"
           /\ \/ opnd.class = "gpr" /\ opnd.size = 64 /\ opnd.tags = {"Imm64"}
              \/ opnd.class = "fpu80" /\ opnd.size = 80 /\ opnd.tags = {"Bcd"}
              \/ opnd.class = "env" /\ opnd.tags = {"X87env"}
  BY <1>1, <1>7, OtherMemRight
<1>8. CASE /\ opnd.class = "fpu" /\ opnd.packedn = 1
           /\ \/ opnd.kind \in {"reg", "implied"} /\ opnd.tags = {"Immf"}
              \/ opnd.kind = "implied" /\ opnd.tags = {"Float32i"}
  <2>1. Chosen = val_nodes
    BY <1>8 DEF Chosen
  <2>2. CASE opnd.kind \in {"reg", "implied"} /\ opnd.tags = {"Immf"}
    <3>1. Right(Node(1).float64) /\ Node(1).type = "FLOAT"
      BY <1>8, <2>1, <2>2, FpuRight
    <3>2. image' = Node(1).float64
      BY <1>1, <1>8, <2>2, <3>1 DEF init_fpu_register_opnd
    <3> QED BY <3>1, <3>2
  <2>3. CASE opnd.kind = "implied" /\ opnd.tags = {"Float32i"}
    <3>1. Right(SubSeq(Node(1).imm64, 1, 4)) /\ Node(1).type = "FLOAT32I"
      BY <1>8, <2>1, <2>3, FpuRight
    <3>2. image' = SubSeq(Node(1).imm64, 1, 4)
      BY <1>1, <1>8, <2>3, <3>1
    <3> QED BY <3>1, <3>2
  <2> QED BY <1>8, <2>2, <2>3
<1> QED BY <1>3, <1>4, <1>5, <1>6, <1>7, <1>8 DEF Fits

-----------------------------------------------------------------------------
(* The invariant.                                                          *)

\* What is stored and what is left of the last constant in the local, the group
\* that is drawn from, and the choice once it is made.
IInv ==
  /\ stage \in {"parse", "draw", "init", "done"} /\ file \in Files /\ opnd \in Operands
  /\ first \in DOMAIN file /\ Group \subseteq opnd.tags
  /\ val_node \in Nodes /\ Kept(file, val_node)
  /\ const_nodes \in Seq(Nodes) /\ Len(const_nodes) <= Len(file)
  /\ \A c \in DOMAIN const_nodes : Stored(file[c], c, const_nodes[c]) /\ Kept(file, const_nodes[c])
  /\ stage # "parse" => Len(const_nodes) = Len(file)
  /\ stage \in {"parse", "draw"} => val_nodes = << >> /\ dispatch = 0
  /\ stage \in {"init", "done"} => /\ val_nodes \in [1..opnd.packedn -> first..Len(file)]
                                   /\ dispatch \in first..Len(file)

\* The file that is parsed.
LEMMA FileOf ==
  ASSUME file \in Files, opnd \in Operands
  PROVE  /\ file \in Seq(Tags) /\ Len(file) \in Nat /\ DOMAIN file = 1..Len(file)
         /\ opnd.packedn \in Nat \ {0}
<1>1. file \in Seq(Tags) /\ opnd.packedn \in Nat \ {0}
  BY InitValsAssumption
<1> QED BY <1>1, LenProperties

\* Before anything is parsed.
LEMMA IInvInit ==
  ASSUME MmxApart(Files, StackTypes), ValuesInit
  PROVE  IInv
<1>1. PICK t \in StackTypes :
        val_node = [type |-> t, imm64 |-> Times(UndefByte, 12), float32 |-> Times(UndefByte, 4), float64 |-> Times(UndefByte, 8),
                    float80 |-> Times(UndefByte, 10), fcw |-> Times(UndefByte, 28)]
  BY DEF ValuesInit
<1>2. val_node \in Nodes
  <2>1. /\ Times(UndefByte, 12) \in [1..12 -> Byte] /\ Times(UndefByte, 4) \in [1..4 -> Byte]
        /\ Times(UndefByte, 8) \in [1..8 -> Byte] /\ Times(UndefByte, 10) \in [1..10 -> Byte]
        /\ Times(UndefByte, 28) \in [1..28 -> Byte]
    BY TimesOf, OtherBytes
  <2>2. t \in Types
    BY InitValsAssumption
  <2> QED BY <1>1, <2>1, <2>2 DEF Nodes
<1>3. Kept(file, val_node)
  BY <1>1 DEF Kept, MmxApart
<1>4. const_nodes \in Seq(Nodes) /\ Len(const_nodes) = 0 /\ DOMAIN const_nodes = {}
  BY DEF ValuesInit
<1>5. Len(const_nodes) <= Len(file)
  BY <1>4, FileOf DEF ValuesInit
<1> QED BY <1>2, <1>3, <1>4, <1>5 DEF ValuesInit, IInv

\* A constant is stored.
LEMMA IInvParse ==
  ASSUME MmxApart(Files, StackTypes), IInv, parseCNode
  PROVE  IInv'
<1> DEFINE c == Len(const_nodes) + 1
           node == Parsed(file[c], c)
<1>1. /\ stage = "parse" /\ Len(const_nodes) < Len(file)
      /\ val_node' = node /\ const_nodes' = Append(const_nodes, node)
      /\ UNCHANGED <<stage, file, first, opnd, dispatch, val_nodes, image>>
  BY DEF parseCNode, Parsed
<1>2. /\ file \in Seq(Tags) /\ Len(file) \in Nat /\ DOMAIN file = 1..Len(file)
      /\ const_nodes \in Seq(Nodes) /\ Len(const_nodes) \in Nat
      /\ DOMAIN const_nodes = 1..Len(const_nodes)
  BY FileOf, LenProperties DEF IInv
<1>3. c \in DOMAIN file /\ c \in Nat /\ file[c] \in Tags
  BY <1>1, <1>2
<1>4. /\ node \in Nodes /\ Stored(file[c], c, node)
      /\ file[c] = "Mmx" => node.type = val_node.type
  BY <1>3, FilledStores DEF IInv
<1>5. Kept(file, node)
  <2> SUFFICES ASSUME \E j \in DOMAIN file : file[j] = "Mmx"
               PROVE  node.type \notin {"FLOAT", "X87ENV"}
    BY DEF Kept
  <2> HIDE DEF node, c
  <2>1. file[c] \notin {"Immf", "X87env"}
    BY <1>3 DEF MmxApart, IInv
  <2>2. CASE file[c] = "Mmx"
    BY <1>4, <2>2 DEF IInv, Kept
  <2>3. CASE file[c] # "Mmx"
    BY <1>3, <1>4, <2>1, <2>3 DEF Stored, Tags
  <2> QED BY <2>2, <2>3
<1> HIDE DEF node
<1>6. /\ const_nodes' \in Seq(Nodes) /\ Len(const_nodes') = c /\ DOMAIN const_nodes' = 1..c
      /\ \A i \in 1..Len(const_nodes) : const_nodes'[i] = const_nodes[i]
      /\ const_nodes'[c] = node
  <2>1. Append(const_nodes, node) \in Seq(Nodes) /\ Len(Append(const_nodes, node)) = c
        /\ (\A i \in 1..Len(const_nodes) : Append(const_nodes, node)[i] = const_nodes[i])
        /\ Append(const_nodes, node)[c] = node
    BY <1>2, <1>4, AppendProperties
  <2> QED BY <1>1, <2>1, LenProperties
<1>7. \A i \in DOMAIN const_nodes' : Stored(file[i], i, const_nodes'[i]) /\ Kept(file, const_nodes'[i])
  <2> SUFFICES ASSUME NEW i \in 1..c
               PROVE  Stored(file[i], i, const_nodes'[i]) /\ Kept(file, const_nodes'[i])
    BY <1>6
  <2>1. CASE i = c
    BY <1>4, <1>5, <1>6, <2>1
  <2>2. CASE i # c
    <3>1. i \in 1..Len(const_nodes) /\ i \in DOMAIN const_nodes
      BY <1>2, <2>2
    <3>2. Stored(file[i], i, const_nodes[i]) /\ Kept(file, const_nodes[i])
      BY <3>1 DEF IInv
    <3> QED BY <1>6, <3>1, <3>2
  <2> QED BY <2>1, <2>2
<1>8. Len(const_nodes') <= Len(file)
  BY <1>1, <1>2, <1>6
<1>9. val_node' \in Nodes /\ Kept(file, val_node')
  BY <1>1, <1>4, <1>5
<1>10. Group' = Group
  BY <1>1 DEF Group
<1> QED BY <1>1, <1>6, <1>7, <1>8, <1>9, <1>10 DEF IInv

\* The end of the file, a choice of constants, the operand, and nothing.
LEMMA IInvRest ==
  ASSUME IInv, EndGroup \/ DrawTrv \/ DrawVal \/ init_opnd \/ UNCHANGED valuesVars
  PROVE  IInv'
<1>1. /\ Len(file) \in Nat /\ DOMAIN file = 1..Len(file) /\ opnd.packedn \in Nat \ {0}
      /\ first \in 1..Len(file)
  BY FileOf DEF IInv
<1>2. /\ file' = file /\ first' = first /\ opnd' = opnd /\ val_node' = val_node
      /\ const_nodes' = const_nodes
  BY DEF EndGroup, DrawTrv, DrawVal, init_opnd, valuesVars
<1>3. Group' = Group
  BY <1>2 DEF Group
<1>4. CASE EndGroup
  BY <1>2, <1>3, <1>4 DEF IInv, EndGroup
<1>5. CASE DrawTrv
  <2>1. val_nodes'[1] \in first..Len(file)
    BY <1>1, <1>5 DEF DrawTrv
  <2> QED BY <1>2, <1>3, <1>5, <2>1 DEF IInv, DrawTrv
<1>6. CASE DrawVal
  BY <1>2, <1>3, <1>6 DEF IInv, DrawVal
<1>7. CASE init_opnd
  BY <1>2, <1>3, <1>7 DEF IInv, init_opnd
<1>8. CASE UNCHANGED valuesVars
  BY <1>2, <1>3, <1>8 DEF IInv, valuesVars
<1> QED BY <1>4, <1>5, <1>6, <1>7, <1>8

\* What is drawn comes from the parsed group.
LEMMA IInvDrawn ==
  ASSUME IInv, stage \in {"init", "done"}
  PROVE  Drawn
<1>1. /\ Len(file) \in Nat /\ DOMAIN file = 1..Len(file) /\ opnd.packedn \in Nat \ {0}
      /\ first \in 1..Len(file)
  BY FileOf DEF IInv
<1>2. DOMAIN const_nodes = 1..Len(file) /\ const_nodes \in Seq(Nodes)
  BY LenProperties DEF IInv
<1>3. \A c \in first..Len(file) : Known(c) /\ c \in DOMAIN file
  <2> SUFFICES ASSUME NEW c \in first..Len(file)
               PROVE  Known(c) /\ c \in DOMAIN file
    OBVIOUS
  <2>1. c \in DOMAIN file /\ c \in DOMAIN const_nodes
    BY <1>1, <1>2
  <2>2. const_nodes[c] \in Nodes
    BY <1>2, <2>1, ElementOfSeq
  <2>3. file[c] \in opnd.tags
    BY DEF IInv, Group
  <2> QED BY <2>1, <2>2, <2>3 DEF IInv, Known
<1> QED BY <1>1, <1>3 DEF IInv, Drawn

\* The width and the choice do not change once the operand is initialized.
LEMMA SameOperand ==
  ASSUME init_opnd \/ UNCHANGED valuesVars
  PROVE  /\ Width' = Width /\ Chosen' = Chosen /\ file' = file /\ val_nodes' = val_nodes
         /\ dispatch' = dispatch
<1>1. /\ file' = file /\ first' = first /\ opnd' = opnd /\ val_nodes' = val_nodes
      /\ dispatch' = dispatch
  BY DEF init_opnd, valuesVars
<1>2. Group' = Group
  BY <1>1 DEF Group
<1>3. Width' = Width
  BY <1>1, <1>2, Zenon DEF Width
<1>4. Chosen' = Chosen
  BY <1>1 DEF Chosen
<1> QED BY <1>1, <1>3, <1>4

\* The inductive invariant: an initialized operand has its bytes.
Inv == IInv /\ (stage = "done" => Right(image))

\* Every step keeps it.
LEMMA InvStep ==
  ASSUME KnowledgeFits, Inv, [ValuesNext]_valuesVars
  PROVE  Inv'
<1>1. IInv'
  BY IInvParse, IInvRest DEF Inv, ValuesNext, KnowledgeFits
<1>2. ASSUME stage' = "done" PROVE Right(image)'
  <2>1. CASE init_opnd
    <3>1. Drawn
      BY <2>1, IInvDrawn DEF Inv, init_opnd
    <3>2. Fits(opnd)
      BY DEF KnowledgeFits, Inv, IInv
    <3>3. \A c \in first..Len(file) : file[c] = "Mmx" => const_nodes[c].type \notin {"FLOAT", "X87ENV"}
      BY <3>1 DEF Drawn, Known, Kept
    <3>4. Right(image')
      BY <2>1, <3>1, <3>2, <3>3, OperandRight
    <3>5. InPlace(image)'
      BY <2>1, <3>4, SameOperand DEF Right, InPlace
    <3>6. OfDrawn(image)'
      BY <2>1, <3>4, SameOperand DEF Right, OfDrawn
    <3> QED BY <3>5, <3>6 DEF Right
  <2>2. CASE UNCHANGED valuesVars
    <3>1. Right(image) /\ image' = image
      BY <1>2, <2>2 DEF Inv, valuesVars
    <3>2. InPlace(image)'
      BY <2>2, <3>1, SameOperand DEF Right, InPlace
    <3>3. OfDrawn(image)'
      BY <2>2, <3>1, SameOperand DEF Right, OfDrawn
    <3> QED BY <3>2, <3>3 DEF Right
  <2>3. CASE parseCNode \/ EndGroup \/ DrawTrv \/ DrawVal
    BY <1>2, <2>3 DEF parseCNode, EndGroup, DrawTrv, DrawVal
  <2> QED BY <2>1, <2>2, <2>3 DEF ValuesNext
<1> QED BY <1>1, <1>2 DEF Inv

\* It gives the properties.
LEMMA InvProperties ==
  ASSUME Inv
  PROVE  ValuesInPlace /\ NothingStale
<1>1. /\ Len(file) \in Nat /\ DOMAIN file = 1..Len(file) /\ opnd.packedn \in Nat \ {0}
      /\ first \in 1..Len(file)
  BY FileOf DEF Inv, IInv
<1>2. ValuesInPlace
  BY DEF Inv, Right, InPlace, Chosen, ValuesInPlace
<1>3. OnlyDrawn
  BY DEF Inv, Right, OfDrawn, OnlyDrawn
<1>4. SizesOK
  <2>1. \A i \in DOMAIN const_nodes :
          /\ const_nodes[i].type \in Types /\ Len(const_nodes[i].imm64) = 12
          /\ Len(const_nodes[i].float32) = 4 /\ Len(const_nodes[i].float64) = 8
          /\ Len(const_nodes[i].float80) = 10 /\ Len(const_nodes[i].fcw) = 28
    <3> SUFFICES ASSUME NEW i \in DOMAIN const_nodes
                 PROVE  /\ const_nodes[i].type \in Types /\ Len(const_nodes[i].imm64) = 12
                        /\ Len(const_nodes[i].float32) = 4 /\ Len(const_nodes[i].float64) = 8
                        /\ Len(const_nodes[i].float80) = 10 /\ Len(const_nodes[i].fcw) = 28
      OBVIOUS
    <3> DEFINE node == const_nodes[i]
    <3>1. node \in Nodes
      BY LenProperties, ElementOfSeq DEF Inv, IInv
    <3> HIDE DEF node
    <3>2. /\ node.imm64 \in [1..12 -> Byte] /\ node.float32 \in [1..4 -> Byte]
          /\ node.float64 \in [1..8 -> Byte] /\ node.float80 \in [1..10 -> Byte]
          /\ node.fcw \in [1..28 -> Byte] /\ node.type \in Types
      BY <3>1 DEF Nodes
    <3>3. Len(node.imm64) = 12
      BY <3>2, FunctionSeq, SMTT(30)
    <3>4. Len(node.float32) = 4
      BY <3>2, FunctionSeq
    <3>5. Len(node.float64) = 8
      BY <3>2, FunctionSeq
    <3>6. Len(node.float80) = 10
      BY <3>2, FunctionSeq
    <3>7. Len(node.fcw) = 28
      BY <3>2, FunctionSeq
    <3> QED BY <3>2, <3>3, <3>4, <3>5, <3>6, <3>7 DEF node
  <2>2. ToSet(val_nodes) \subseteq DOMAIN file /\ dispatch \in 0..Len(file)
    <3>1. CASE stage \in {"parse", "draw"}
      BY <1>1, <3>1 DEF Inv, IInv, ToSet
    <3>2. CASE stage \in {"init", "done"}
      BY <1>1, <3>2 DEF Inv, IInv, ToSet
    <3> QED BY <3>1, <3>2 DEF Inv, IInv
  <2> QED BY <2>1, <2>2 DEF Inv, IInv, Nodes, SizesOK
<1> QED BY <1>2, <1>3, <1>4 DEF NothingStale

\* The invariant holds of all behaviours.
LEMMA Invariance ==
  ASSUME KnowledgeFits
  PROVE  ValuesSpec => []Inv
<1>1. ValuesInit => Inv
  BY IInvInit DEF ValuesInit, Inv, KnowledgeFits
<1>2. Inv /\ [ValuesNext]_valuesVars => Inv'
  BY InvStep
<1> QED BY <1>1, <1>2, PTL DEF ValuesSpec

\* Each constant that is drawn is in its element of the operand, in the width and
\* the format of the operand (init_*_opnd of gendata.c, parseCGs of parseTKs.c).
THEOREM ElementsInPlace ==
  ASSUME KnowledgeFits
  PROVE  ValuesSpec => []ValuesInPlace
BY Invariance, InvProperties, PTL

\* Nothing of another constant, and nothing that was never written, is in the
\* operand: parseCGs reuses its local, and init_*_opnd their buffers, uncleared.
THEOREM NoStaleBytes ==
  ASSUME KnowledgeFits
  PROVE  ValuesSpec => []NothingStale
BY Invariance, InvProperties, PTL

-----------------------------------------------------------------------------
(* Part 2: the two runs of a test.                                         *)

-----------------------------------------------------------------------------
(* The processor.                                                          *)

Processor(reg, base, stack, fpu, xmm, mxcsr, fxstate) ==
  [reg |-> reg, base |-> base, stack |-> stack, fpu |-> fpu, xmm |-> xmm, mxcsr |-> mxcsr, fxstate |-> fxstate]

Registers == GPR \cup Segments \cup {"eflags"}

\* The contents of the registers.
IsRegs(v) == v = [r \in Registers |-> v[r]]

\* A record with the parts of a processor.
IsProc(p) == p = Processor(p.reg, p.base, p.stack, p.fpu, p.xmm, p.mxcsr, p.fxstate) /\ IsRegs(p.reg)

\* All but stack and registers is the same.
Rest(p, q) == q.base = p.base /\ q.fpu = p.fpu /\ q.xmm = p.xmm /\ q.mxcsr = p.mxcsr /\ q.fxstate = p.fxstate

\* What a processor is made of.
LEMMA Parts ==
  ASSUME NEW reg, NEW base, NEW stack, NEW fpu, NEW xmm, NEW mxcsr, NEW fxstate, NEW q,
         q = Processor(reg, base, stack, fpu, xmm, mxcsr, fxstate)
  PROVE  /\ q.reg = reg /\ q.base = base /\ q.stack = stack /\ q.fpu = fpu /\ q.xmm = xmm /\ q.mxcsr = mxcsr
         /\ q.fxstate = fxstate
         /\ IsRegs(reg) => IsProc(q)
<1>1. /\ q.reg = reg /\ q.base = base /\ q.stack = stack /\ q.fpu = fpu /\ q.xmm = xmm /\ q.mxcsr = mxcsr
      /\ q.fxstate = fxstate
  BY DEF Processor
<1> QED BY <1>1 DEF IsProc

\* An assignment to a part.
LEMMA Assigned ==
  ASSUME NEW p, IsProc(p), NEW v
  PROVE  /\ [p EXCEPT !.reg = v] = Processor(v, p.base, p.stack, p.fpu, p.xmm, p.mxcsr, p.fxstate)
         /\ [p EXCEPT !.stack = v] = Processor(p.reg, p.base, v, p.fpu, p.xmm, p.mxcsr, p.fxstate)
         /\ [p EXCEPT !.fpu = v] = Processor(p.reg, p.base, p.stack, v, p.xmm, p.mxcsr, p.fxstate)
         /\ [p EXCEPT !.xmm = v] = Processor(p.reg, p.base, p.stack, p.fpu, v, p.mxcsr, p.fxstate)
         /\ [p EXCEPT !.mxcsr = v] = Processor(p.reg, p.base, p.stack, p.fpu, p.xmm, v, p.fxstate)
         /\ [p EXCEPT !.fxstate = v] = Processor(p.reg, p.base, p.stack, p.fpu, p.xmm, p.mxcsr, v)
<1>1. p = [reg |-> p.reg, base |-> p.base, stack |-> p.stack, fpu |-> p.fpu, xmm |-> p.xmm, mxcsr |-> p.mxcsr, fxstate |-> p.fxstate]
  BY DEF IsProc, Processor
<1> QED BY <1>1 DEF Processor

\* Two of them, in either order.
LEMMA AssignedTwo ==
  ASSUME NEW p, IsProc(p), NEW v, IsRegs(v), NEW w
  PROVE  /\ [p EXCEPT !.reg = v, !.stack = w] = Processor(v, p.base, w, p.fpu, p.xmm, p.mxcsr, p.fxstate)
         /\ [p EXCEPT !.stack = w, !.reg = v] = Processor(v, p.base, w, p.fpu, p.xmm, p.mxcsr, p.fxstate)
<1> DEFINE a == [p EXCEPT !.reg = v]
           b == [p EXCEPT !.stack = w]
<1>1. /\ [p EXCEPT !.reg = v, !.stack = w] = [a EXCEPT !.stack = w]
      /\ [p EXCEPT !.stack = w, !.reg = v] = [b EXCEPT !.reg = v]
  BY Zenon
<1>2. /\ a = Processor(v, p.base, p.stack, p.fpu, p.xmm, p.mxcsr, p.fxstate)
      /\ b = Processor(p.reg, p.base, w, p.fpu, p.xmm, p.mxcsr, p.fxstate)
  BY Assigned
<1>3. IsRegs(p.reg)
  BY DEF IsProc
<1> HIDE DEF a, b
<1>4. /\ IsProc(a) /\ a.reg = v /\ Rest(p, a)
      /\ IsProc(b) /\ b.stack = w /\ Rest(p, b)
  BY <1>2, <1>3, Parts DEF Rest
<1>5. /\ [a EXCEPT !.stack = w] = Processor(a.reg, a.base, w, a.fpu, a.xmm, a.mxcsr, a.fxstate)
      /\ [b EXCEPT !.reg = v] = Processor(v, b.base, b.stack, b.fpu, b.xmm, b.mxcsr, b.fxstate)
  BY <1>4, Assigned
<1> QED BY <1>1, <1>4, <1>5 DEF Rest

\* A push changes the stack only (pusha, push, pushf).
LEMMA PushedIs ==
  ASSUME NEW p, IsProc(p), NEW words
  PROVE  /\ IsProc(Pushed(p, words)) /\ Rest(p, Pushed(p, words)) /\ Pushed(p, words).reg = p.reg
         /\ Pushed(p, words).stack = words \o p.stack
<1> DEFINE q == Pushed(p, words)
           all == words \o p.stack
<1>1. q = [p EXCEPT !.stack = all]
  BY DEF Pushed
<1>2. IsRegs(p.reg)
  BY DEF IsProc
<1> HIDE DEF q, all
<1>3. q = Processor(p.reg, p.base, all, p.fpu, p.xmm, p.mxcsr, p.fxstate)
  BY <1>1, Assigned
<1>4. IsProc(q) /\ Rest(p, q) /\ q.reg = p.reg /\ q.stack = all
  BY <1>2, <1>3, Parts DEF Rest
<1> QED BY <1>4 DEF q, all

\* eax_to changes eax only.
LEMMA EaxIs ==
  ASSUME NEW p, IsProc(p), NEW a
  PROVE  /\ IsProc(eax_to(p, a)) /\ Rest(p, eax_to(p, a)) /\ eax_to(p, a).stack = p.stack
         /\ eax_to(p, a).reg = [p.reg EXCEPT !["eax"] = Val(a)]
<1> DEFINE q == eax_to(p, a)
           regs == [p.reg EXCEPT !["eax"] = Val(a)]
<1>1. q = [p EXCEPT !.reg = regs]
  BY DEF eax_to
<1>2. IsRegs(regs)
  BY DEF IsProc, IsRegs
<1> HIDE DEF q, regs
<1>3. q = Processor(regs, p.base, p.stack, p.fpu, p.xmm, p.mxcsr, p.fxstate)
  BY <1>1, Assigned
<1>4. IsProc(q) /\ Rest(p, q) /\ q.reg = regs /\ q.stack = p.stack
  BY <1>2, <1>3, Parts DEF Rest
<1> QED BY <1>4 DEF q, regs


\* A pop into eax, of one word or of several, changes the stack and eax.
LEMMA PopEaxIs ==
  ASSUME NEW p, IsProc(p), NEW n
  PROVE  /\ IsProc(pop_eax(p, n)) /\ Rest(p, pop_eax(p, n)) /\ pop_eax(p, n).stack = SubSeq(p.stack, n + 1, Len(p.stack))
         /\ pop_eax(p, n).reg = [p.reg EXCEPT !["eax"] = p.stack[n]]
<1> DEFINE q == pop_eax(p, n)
           regs == [p.reg EXCEPT !["eax"] = p.stack[n]]
           below == SubSeq(p.stack, n + 1, Len(p.stack))
<1>1. q = [p EXCEPT !.reg = regs, !.stack = below]
  BY DEF pop_eax, Below
<1>2. IsRegs(regs)
  BY DEF IsProc, IsRegs
<1> HIDE DEF q, regs, below
<1>3. q = Processor(regs, p.base, below, p.fpu, p.xmm, p.mxcsr, p.fxstate)
  BY <1>1, <1>2, AssignedTwo
<1>4. IsProc(q) /\ Rest(p, q) /\ q.reg = regs /\ q.stack = below
  BY <1>2, <1>3, Parts DEF Rest
<1> QED BY <1>4 DEF q, regs, below

\* popf
LEMMA PopIs ==
  ASSUME NEW p, IsProc(p), NEW r
  PROVE  /\ IsProc(pop(p, r)) /\ Rest(p, pop(p, r)) /\ pop(p, r).stack = SubSeq(p.stack, 2, Len(p.stack))
         /\ pop(p, r).reg = [p.reg EXCEPT ![r] = p.stack[1]]
<1> DEFINE q == pop(p, r)
           regs == [p.reg EXCEPT ![r] = p.stack[1]]
           below == SubSeq(p.stack, 2, Len(p.stack))
<1>1. q = [p EXCEPT !.reg = regs, !.stack = below]
  BY DEF pop, Below
<1>2. IsRegs(regs)
  BY DEF IsProc, IsRegs
<1> HIDE DEF q, regs, below
<1>3. q = Processor(regs, p.base, below, p.fpu, p.xmm, p.mxcsr, p.fxstate)
  BY <1>1, <1>2, AssignedTwo
<1>4. IsProc(q) /\ Rest(p, q) /\ q.reg = regs /\ q.stack = below
  BY <1>2, <1>3, Parts DEF Rest
<1> QED BY <1>4 DEF q, regs, below

\* popa
LEMMA PopaIs ==
  ASSUME NEW p, IsProc(p)
  PROVE  /\ IsProc(popa(p)) /\ Rest(p, popa(p)) /\ popa(p).stack = SubSeq(p.stack, 9, Len(p.stack))
         /\ popa(p).reg = [r \in Registers |-> IF r \in GPR THEN p.stack[PopaPlace[r]] ELSE p.reg[r]]
<1> DEFINE q == popa(p)
           regs == [r \in Registers |-> IF r \in GPR THEN p.stack[PopaPlace[r]] ELSE p.reg[r]]
           below == SubSeq(p.stack, 9, Len(p.stack))
<1>1. q = [p EXCEPT !.stack = below, !.reg = regs]
  <2>1. DOMAIN p.reg = Registers
    BY DEF IsProc, IsRegs
  <2> QED BY <2>1 DEF popa, Below
<1>2. IsRegs(regs)
  BY DEF IsRegs
<1> HIDE DEF q, regs, below
<1>3. q = Processor(regs, p.base, below, p.fpu, p.xmm, p.mxcsr, p.fxstate)
  BY <1>1, <1>2, AssignedTwo
<1>4. IsProc(q) /\ Rest(p, q) /\ q.reg = regs /\ q.stack = below
  BY <1>2, <1>3, Parts DEF Rest
<1> QED BY <1>4 DEF q, regs, below

\* add esp
LEMMA AddEspIs ==
  ASSUME NEW p, IsProc(p)
  PROVE  /\ IsProc(add_esp(p)) /\ Rest(p, add_esp(p)) /\ add_esp(p).stack = SubSeq(p.stack, 2, Len(p.stack))
         /\ add_esp(p).reg = p.reg
<1> DEFINE q == add_esp(p)
           below == SubSeq(p.stack, 2, Len(p.stack))
<1>1. q = [p EXCEPT !.stack = below]
  BY DEF add_esp, Below
<1>2. IsRegs(p.reg)
  BY DEF IsProc
<1> HIDE DEF q, below
<1>3. q = Processor(p.reg, p.base, below, p.fpu, p.xmm, p.mxcsr, p.fxstate)
  BY <1>1, Assigned
<1>4. IsProc(q) /\ Rest(p, q) /\ q.reg = p.reg /\ q.stack = below
  BY <1>2, <1>3, Parts DEF Rest
<1> QED BY <1>4 DEF q, below

\* frstor
LEMMA FrstorIs ==
  ASSUME NEW p, IsProc(p)
  PROVE  /\ IsProc(frstor(p)) /\ frstor(p).reg = p.reg /\ frstor(p).stack = p.stack /\ frstor(p).base = p.base
         /\ frstor(p).fpu = p.stack[1].env /\ frstor(p).xmm = p.xmm /\ frstor(p).mxcsr = p.mxcsr
<1> DEFINE q == frstor(p)
           env == p.stack[1].env
<1>1. q = [p EXCEPT !.fpu = env]
  BY DEF frstor
<1>2. IsRegs(p.reg)
  BY DEF IsProc
<1> HIDE DEF q, env
<1>3. q = Processor(p.reg, p.base, p.stack, env, p.xmm, p.mxcsr, p.fxstate)
  BY <1>1, Assigned
<1>4. IsProc(q) /\ q.reg = p.reg /\ q.stack = p.stack /\ q.base = p.base /\ q.fpu = env /\ q.xmm = p.xmm /\ q.mxcsr = p.mxcsr
  BY <1>2, <1>3, Parts
<1> QED BY <1>4 DEF q, env

\* fsave
LEMMA FsaveIs ==
  ASSUME NEW p, IsProc(p)
  PROVE  LET q == sub_esp_fsave(p)
         IN /\ IsProc(q) /\ q.reg = p.reg /\ q.stack = <<fsave(p)>> \o p.stack /\ q.base = p.base
            /\ q.xmm = p.xmm /\ q.mxcsr = p.mxcsr
<1> DEFINE q == sub_esp_fsave(p)
           o == Pushed(p, <<fsave(p)>>)
           f == fninit(p.fpu)
<1>1. q = [o EXCEPT !.fpu = f]
  BY DEF sub_esp_fsave
<1>2. /\ IsProc(o) /\ Rest(p, o) /\ o.reg = p.reg /\ o.stack = <<fsave(p)>> \o p.stack
  BY PushedIs
<1>3. IsRegs(o.reg)
  BY <1>2 DEF IsProc
<1> HIDE DEF q, o, f
<1>4. q = Processor(o.reg, o.base, o.stack, f, o.xmm, o.mxcsr, o.fxstate)
  BY <1>1, <1>2, Assigned
<1>5. IsProc(q) /\ q.reg = o.reg /\ q.stack = o.stack /\ q.base = o.base /\ q.xmm = o.xmm /\ q.mxcsr = o.mxcsr
  BY <1>3, <1>4, Parts
<1> QED BY <1>2, <1>5 DEF q, Rest

\* movupd and stmxcsr
LEMMA StoresIs ==
  ASSUME NEW p, IsProc(p)
  PROVE  LET q == movupd_stmxcsr(p)
         IN /\ IsProc(q) /\ q.reg = p.reg /\ q.stack = p.stack /\ q.base = p.base
            /\ q.xmm = p.xmm /\ q.mxcsr = p.mxcsr /\ q.fxstate = [xmm |-> p.xmm, mxcsr |-> p.mxcsr]
<1> DEFINE q == movupd_stmxcsr(p)
           x == [xmm |-> p.xmm, mxcsr |-> p.mxcsr]
<1>1. q = [p EXCEPT !.fxstate = x]
  BY DEF movupd_stmxcsr
<1>2. IsRegs(p.reg)
  BY DEF IsProc
<1> HIDE DEF q, x
<1>3. q = Processor(p.reg, p.base, p.stack, p.fpu, p.xmm, p.mxcsr, x)
  BY <1>1, Assigned
<1>4. IsProc(q) /\ q.reg = p.reg /\ q.stack = p.stack /\ q.base = p.base /\ q.xmm = p.xmm /\ q.mxcsr = p.mxcsr /\ q.fxstate = x
  BY <1>2, <1>3, Parts
<1> QED BY <1>4 DEF q, x

-----------------------------------------------------------------------------
(* The two halves of the macro.                                            *)

\* A sequence of any elements.
IsSeq(s) == Len(s) \in Nat /\ s = [i \in 1..Len(s) |-> s[i]]

\* t has the n words of a on top of the l words of s.
Stacked(S, t, a, n, s, l) ==
  /\ t \in Seq(S) /\ Len(t) = n + l
  /\ \A k \in 1..n : t[k] = a[k]
  /\ \A k \in 1..l : t[n + k] = s[k]

\* Words on top of others.
LEMMA OnTop ==
  ASSUME NEW S, NEW a \in Seq(S), NEW s \in Seq(S), NEW n \in Nat, NEW l \in Nat, Len(a) = n, Len(s) = l
  PROVE  Stacked(S, a \o s, a, n, s, l)
<1> DEFINE t == a \o s
<1>1. /\ t \in Seq(S) /\ Len(t) = n + l
      /\ \A k \in 1..(n + l) : t[k] = IF k <= n THEN a[k] ELSE s[k - n]
  BY ConcatProperties
<1>2. \A k \in 1..l : n + k \in 1..(n + l) /\ ~(n + k <= n) /\ (n + k) - n = k
  OBVIOUS
<1>3. ASSUME NEW k \in 1..l PROVE t[n + k] = s[k]
  BY <1>1, <1>2
<1> QED BY <1>1, <1>3 DEF Stacked

\* t is what is left of s without n words.
Left(S, t, s, n) == t \in Seq(S) /\ Len(t) = Len(s) - n /\ \A k \in 1..(Len(s) - n) : t[k] = s[n + k]

\* What is left below n words.
LEMMA UnderTop ==
  ASSUME NEW S, NEW s \in Seq(S), NEW n \in Nat, n <= Len(s), NEW t, t = SubSeq(s, n + 1, Len(s))
  PROVE  Left(S, t, s, n)
<1>1. Len(s) \in Nat /\ \A k \in 1..Len(s) : s[k] \in S
  BY LenProperties, ElementOfSeq
<1>2. n + 1 \in Int /\ Len(s) \in Int /\ \A k \in (n + 1)..Len(s) : s[k] \in S
  BY <1>1
<1>3. /\ SubSeq(s, n + 1, Len(s)) \in Seq(S)
      /\ Len(SubSeq(s, n + 1, Len(s))) = IF n + 1 <= Len(s) THEN Len(s) - (n + 1) + 1 ELSE 0
      /\ \A k \in 1..(Len(s) - (n + 1) + 1) : SubSeq(s, n + 1, Len(s))[k] = s[n + 1 + k - 1]
  BY <1>2, SubSeqProperties
<1>4. Len(s) - (n + 1) + 1 = Len(s) - n /\ \A k \in 1..(Len(s) - n) : n + 1 + k - 1 = n + k
  BY <1>1
<1>5. t \in Seq(S) /\ Len(t) = Len(s) - n
  <2>1. Len(t) = IF n + 1 <= Len(s) THEN Len(s) - (n + 1) + 1 ELSE 0
    BY <1>3
  <2>2. (IF n + 1 <= Len(s) THEN Len(s) - (n + 1) + 1 ELSE 0) = Len(s) - n
    BY <1>1
  <2>3. t \in Seq(S)
    BY <1>3
  <2> QED BY <2>1, <2>2, <2>3
<1>6. ASSUME NEW k \in 1..(Len(s) - n) PROVE t[k] = s[n + k]
  <2>1. t[k] = s[n + 1 + k - 1]
    BY <1>3, <1>4
  <2> QED BY <1>4, <2>1
<1> QED BY <1>5, <1>6 DEF Left

\* The words that the macro pushes.
Passed(p, r) == IF r = "pc" THEN Val("pc") ELSE IF r = "esp" THEN esp(p) ELSE p.reg[r]
Words(p) == {p.reg[r] : r \in Registers} \cup {esp(p), fsave(p), Val("pc"), Val("fxstate")}

\* Where the check function finds them.
OnStack(p, s) ==
  /\ IsSeq(s) /\ Len(s) = 18
  /\ s[1] = Val("fxstate") /\ s[2] = fsave(p)
  /\ \A r \in DOMAIN X86StandardRegisters : s[2 + X86StandardRegisters[r]] = Passed(p, r)

\* The first half: the state is on the stack and in fxstate, and only eax and the x87
\* state have changed.
LEMMA Saves ==
  ASSUME NEW p, IsProc(p), p.stack = << >>
  PROVE  LET q == check_macro_save(p)
         IN /\ IsProc(q) /\ OnStack(p, q.stack) /\ q.base = p.base /\ q.xmm = p.xmm /\ q.mxcsr = p.mxcsr
            /\ q.fxstate = [xmm |-> p.xmm, mxcsr |-> p.mxcsr]
            /\ \A r \in Registers \ {"eax"} : q.reg[r] = p.reg[r]
<1> DEFINE p1 == pusha(p)
           p2 == eax_to(p1, "pc")
           names == <<"eax", "eflags", "cs", "ss", "ds", "es", "fs", "gs">>
           p3 == push(p2, names)
           p4 == sub_esp_fsave(p3)
           p5 == movupd_stmxcsr(p4)
           p6 == eax_to(p5, "fxstate")
           q == push(p6, <<"eax">>)
           S == Words(p)
           all == [k \in 1..8 |-> IF k = 4 THEN esp(p) ELSE p.reg[PopaOrder[k]]]
           some == [k \in 1..8 |-> p2.reg[names[9 - k]]]
           last == [k \in 1..1 |-> p6.reg["eax"]]
<1>1. q = check_macro_save(p)
  BY DEF check_macro_save
<1>2. IsProc(p1) /\ Rest(p, p1) /\ p1.reg = p.reg /\ p1.stack = all \o << >>
  BY PushedIs DEF pusha
<1>3. IsProc(p2) /\ Rest(p1, p2) /\ p2.stack = p1.stack /\ p2.reg = [p1.reg EXCEPT !["eax"] = Val("pc")]
  BY <1>2, EaxIs
<1>4. IsProc(p3) /\ Rest(p2, p3) /\ p3.reg = p2.reg /\ p3.stack = some \o p2.stack
  <2>1. [k \in 1..Len(names) |-> p2.reg[names[Len(names) + 1 - k]]] = some
    OBVIOUS
  <2> HIDE DEF names, p2, some
  <2> QED BY <1>3, <2>1, PushedIs DEF push
<1>5. fsave(p3) = fsave(p)
  <2>1. p3.fpu = p.fpu
    BY <1>2, <1>3, <1>4 DEF Rest
  <2> HIDE DEF p3
  <2> QED BY <2>1 DEF fsave
<1>6. IsProc(p4) /\ p4.reg = p3.reg /\ p4.stack = <<fsave(p)>> \o p3.stack /\ p4.base = p3.base /\ p4.xmm = p3.xmm /\ p4.mxcsr = p3.mxcsr
  <2> HIDE DEF p3
  <2> QED BY <1>4, <1>5, FsaveIs
<1>7. /\ IsProc(p5) /\ p5.reg = p4.reg /\ p5.stack = p4.stack /\ p5.base = p4.base
      /\ p5.xmm = p4.xmm /\ p5.mxcsr = p4.mxcsr /\ p5.fxstate = [xmm |-> p4.xmm, mxcsr |-> p4.mxcsr]
  <2> HIDE DEF p4
  <2> QED BY <1>6, StoresIs
<1>8. IsProc(p6) /\ Rest(p5, p6) /\ p6.stack = p5.stack /\ p6.reg = [p5.reg EXCEPT !["eax"] = Val("fxstate")]
  <2> HIDE DEF p5
  <2> QED BY <1>7, EaxIs
<1>9. IsProc(q) /\ Rest(p6, q) /\ q.reg = p6.reg /\ q.stack = last \o p6.stack
  <2>1. [k \in 1..Len(<<"eax">>) |-> p6.reg[<<"eax">>[Len(<<"eax">>) + 1 - k]]] = last
    OBVIOUS
  <2> HIDE DEF p6, last
  <2> QED BY <1>8, <2>1, PushedIs DEF push
<1>10. IsRegs(p.reg) /\ IsRegs(p5.reg)
  BY <1>7 DEF IsProc
<1> HIDE DEF p1, p2, p3, p4, p5, p6, q
<1>11. /\ p2.reg = [p.reg EXCEPT !["eax"] = Val("pc")] /\ p5.reg = p2.reg
       /\ \A r \in Registers \ {"eax"} : q.reg[r] = p.reg[r]
       /\ p2.reg["eax"] = Val("pc") /\ p6.reg["eax"] = Val("fxstate")
  <2>1. DOMAIN p.reg = Registers /\ DOMAIN p5.reg = Registers /\ "eax" \in Registers
    BY <1>10 DEF IsRegs, Registers, GPR
  <2> QED BY <1>2, <1>3, <1>4, <1>6, <1>7, <1>8, <1>9, <2>1
<1>12. q.base = p.base /\ q.xmm = p.xmm /\ q.mxcsr = p.mxcsr /\ q.fxstate = [xmm |-> p.xmm, mxcsr |-> p.mxcsr]
  BY <1>2, <1>3, <1>4, <1>6, <1>7, <1>8, <1>9 DEF Rest
<1>13. /\ all \in Seq(S) /\ Len(all) = 8 /\ some \in Seq(S) /\ Len(some) = 8 /\ last \in Seq(S) /\ Len(last) = 1
       /\ <<fsave(p)>> \in Seq(S) /\ << >> \in Seq(S)
  <2>1. \A k \in 1..8 : all[k] \in S
    BY DEF PopaOrder, Words, Registers, GPR
  <2>2. \A k \in 1..8 : some[k] \in S
    <3>1. \A r \in Registers : p2.reg[r] \in S
      BY <1>10, <1>11 DEF Words, IsRegs
    <3>2. \A k \in 1..8 : names[9 - k] \in Registers
      BY DEF Registers, GPR, Segments
    <3> HIDE DEF names, S
    <3> QED BY <3>1, <3>2
  <2>3. p6.reg["eax"] \in S /\ fsave(p) \in S
    BY <1>11 DEF Words
  <2> HIDE DEF S
  <2> QED BY <2>1, <2>2, <2>3
<1> HIDE DEF all, some, last, S
<1>14. p1.stack \in Seq(S) /\ Len(p1.stack) = 8 /\ \A k \in 1..8 : p1.stack[k] = all[k]
  <2>1. Len(<< >>) = 0 /\ 8 + 0 = 8 /\ 0 \in Nat /\ 8 \in Nat
    OBVIOUS
  <2>2. Stacked(S, p1.stack, all, 8, << >>, 0)
    BY <1>2, <1>13, <2>1, OnTop
  <2> QED BY <2>1, <2>2 DEF Stacked
<1>15. /\ p3.stack \in Seq(S) /\ Len(p3.stack) = 16
       /\ \A k \in 1..8 : p3.stack[k] = some[k] /\ p3.stack[8 + k] = all[k]
  <2>1. p3.stack = some \o p1.stack
    BY <1>3, <1>4
  <2>2. /\ p3.stack \in Seq(S) /\ Len(p3.stack) = 8 + 8
        /\ \A k \in 1..8 : p3.stack[k] = some[k]
        /\ \A k \in 1..8 : p3.stack[8 + k] = p1.stack[k]
    <3>1. 8 \in Nat
      OBVIOUS
    <3>2. Stacked(S, p3.stack, some, 8, p1.stack, 8)
      BY <2>1, <3>1, <1>13, <1>14, OnTop
    <3> QED BY <3>2 DEF Stacked
  <2> QED BY <2>2, <1>14
<1>16. /\ p4.stack \in Seq(S) /\ Len(p4.stack) = 17 /\ p4.stack[1] = fsave(p)
       /\ \A k \in 1..8 : p4.stack[1 + k] = some[k] /\ p4.stack[9 + k] = all[k]
  <2>1. Len(<<fsave(p)>>) = 1 /\ <<fsave(p)>>[1] = fsave(p)
    OBVIOUS
  <2>2. /\ p4.stack \in Seq(S) /\ Len(p4.stack) = 1 + 16
        /\ \A k \in 1..1 : p4.stack[k] = <<fsave(p)>>[k]
        /\ \A k \in 1..16 : p4.stack[1 + k] = p3.stack[k]
    <3>1. 1 \in Nat /\ 16 \in Nat
      OBVIOUS
    <3>2. p4.stack = <<fsave(p)>> \o p3.stack
      BY <1>6
    <3> DEFINE img == <<fsave(p)>>
    <3>4. img \in Seq(S) /\ Len(img) = 1 /\ p3.stack \in Seq(S) /\ Len(p3.stack) = 16
      BY <1>13, <1>15, <2>1
    <3>5. p4.stack = img \o p3.stack
      BY <3>2
    <3> HIDE DEF img
    <3>3. Stacked(S, p4.stack, img, 1, p3.stack, 16)
      BY <3>1, <3>5, <3>4, OnTop
    <3> QED BY <3>3 DEF Stacked, img
  <2>3. ASSUME NEW k \in 1..8 PROVE p4.stack[1 + k] = some[k] /\ p4.stack[9 + k] = all[k]
    <3>1. k \in 1..16 /\ 8 + k \in 1..16 /\ 1 + (8 + k) = 9 + k
      OBVIOUS
    <3>2. p4.stack[1 + k] = p3.stack[k] /\ p4.stack[1 + (8 + k)] = p3.stack[8 + k]
      BY <2>2, <3>1
    <3> QED BY <3>1, <3>2, <1>15
  <2> QED BY <2>1, <2>2, <2>3
<1>17. /\ q.stack \in Seq(S) /\ Len(q.stack) = 18 /\ q.stack[1] = Val("fxstate") /\ q.stack[2] = fsave(p)
       /\ \A k \in 1..8 : q.stack[2 + k] = some[k] /\ q.stack[10 + k] = all[k]
  <2>1. last[1] = Val("fxstate")
    BY <1>11 DEF last
  <2>2. q.stack = last \o p4.stack
    BY <1>7, <1>8, <1>9
  <2>3. /\ q.stack \in Seq(S) /\ Len(q.stack) = 1 + 17
        /\ \A k \in 1..1 : q.stack[k] = last[k]
        /\ \A k \in 1..17 : q.stack[1 + k] = p4.stack[k]
    <3>1. 1 \in Nat /\ 17 \in Nat
      OBVIOUS
    <3>3. last \in Seq(S) /\ Len(last) = 1 /\ p4.stack \in Seq(S) /\ Len(p4.stack) = 17
      BY <1>13, <1>16
    <3>2. Stacked(S, q.stack, last, 1, p4.stack, 17)
      BY <2>2, <3>1, <3>3, OnTop
    <3> QED BY <3>2 DEF Stacked
  <2>4. ASSUME NEW k \in 1..8 PROVE q.stack[2 + k] = some[k] /\ q.stack[10 + k] = all[k]
    <3>1. 1 + k \in 1..17 /\ 9 + k \in 1..17 /\ 1 + (1 + k) = 2 + k /\ 1 + (9 + k) = 10 + k
      OBVIOUS
    <3>2. q.stack[1 + (1 + k)] = p4.stack[1 + k] /\ q.stack[1 + (9 + k)] = p4.stack[9 + k]
      BY <2>3, <3>1
    <3> QED BY <3>1, <3>2, <1>16
  <2>5. q.stack[1] = last[1] /\ q.stack[2] = p4.stack[1]
    <3>1. 1 \in 1..17 /\ 1 + 1 = 2 /\ 1 \in 1..1
      OBVIOUS
    <3> QED BY <2>3, <3>1
  <2> QED BY <2>1, <2>3, <2>4, <2>5, <1>16
<1>18. ASSUME NEW r \in DOMAIN X86StandardRegisters
       PROVE  q.stack[2 + X86StandardRegisters[r]] = Passed(p, r)
  <2>1. \A n \in Registers \ {"eax"} : p2.reg[n] = p.reg[n]
    BY <1>10, <1>11 DEF IsRegs
  <2>2. CASE r \in {"gs", "fs", "es", "ds", "ss", "cs", "eflags", "pc"}
    <3>1. X86StandardRegisters[r] \in 1..8
      BY <2>2 DEF X86StandardRegisters
    <3>3. q.stack[2 + X86StandardRegisters[r]] = some[X86StandardRegisters[r]]
      BY <1>17, <3>1
    <3>2. some[X86StandardRegisters[r]] = IF r = "pc" THEN p2.reg["eax"] ELSE p2.reg[r]
      BY <2>2 DEF X86StandardRegisters, some
    <3> QED BY <3>2, <3>3, <2>1, <2>2, <1>11 DEF Passed, Registers, GPR, Segments
  <2>3. CASE r \in {"edi", "esi", "ebp", "esp", "ebx", "edx", "ecx", "eax"}
    <3>3. X86StandardRegisters[r] - 8 \in 1..8 /\ X86StandardRegisters[r] \in Nat
      BY <2>3 DEF X86StandardRegisters
    <3>4. 10 + (X86StandardRegisters[r] - 8) = 2 + X86StandardRegisters[r]
      BY <3>3
    <3>1. q.stack[10 + (X86StandardRegisters[r] - 8)] = all[X86StandardRegisters[r] - 8]
      BY <1>17, <3>3
    <3>2. all[X86StandardRegisters[r] - 8] = IF r = "esp" THEN esp(p) ELSE p.reg[r]
      BY <2>3 DEF X86StandardRegisters, all, PopaOrder
    <3> QED BY <3>1, <3>2, <3>4, <2>3 DEF Passed
  <2> QED BY <2>2, <2>3 DEF X86StandardRegisters
<1>19. IsSeq(q.stack)
  BY <1>17, LenProperties DEF IsSeq
<1> QED BY <1>1, <1>9, <1>11, <1>12, <1>17, <1>18, <1>19 DEF OnStack

\* The second half: the state is loaded again, all but the XMM registers, and
\* the stack is empty.
LEMMA Restores ==
  ASSUME NEW p, IsProc(p), NEW q, IsProc(q), OnStack(p, q.stack), \A r \in Segments : q.reg[r] = p.reg[r]
  PROVE  LET z == check_macro_restore(q)
         IN /\ IsProc(z) /\ z.reg = p.reg /\ z.fpu = p.fpu /\ z.stack = << >>
            /\ z.base = q.base /\ z.xmm = q.xmm /\ z.mxcsr = q.mxcsr
<1> DEFINE q1 == pop_eax(q, 1)
           q2 == frstor(q1)
           q3 == add_esp(q2)
           q4 == pop_eax(q3, 6)
           q5 == pop(q4, "eflags")
           q6 == pop_eax(q5, 1)
           z == popa(q6)
           S == {q.stack[k] : k \in 1..18}
<1>1. z = check_macro_restore(q)
  BY DEF check_macro_restore
<1>2. /\ IsProc(q1) /\ Rest(q, q1) /\ q1.stack = SubSeq(q.stack, 1 + 1, Len(q.stack))
      /\ q1.reg = [q.reg EXCEPT !["eax"] = q.stack[1]]
  BY PopEaxIs
<1>3. /\ IsProc(q2) /\ q2.reg = q1.reg /\ q2.stack = q1.stack /\ q2.base = q1.base
      /\ q2.fpu = q1.stack[1].env /\ q2.xmm = q1.xmm /\ q2.mxcsr = q1.mxcsr
  <2> HIDE DEF q1
  <2> QED BY <1>2, FrstorIs
<1>4. IsProc(q3) /\ Rest(q2, q3) /\ q3.stack = SubSeq(q2.stack, 2, Len(q2.stack)) /\ q3.reg = q2.reg
  <2> HIDE DEF q2
  <2> QED BY <1>3, AddEspIs
<1>5. /\ IsProc(q4) /\ Rest(q3, q4) /\ q4.stack = SubSeq(q3.stack, 6 + 1, Len(q3.stack))
      /\ q4.reg = [q3.reg EXCEPT !["eax"] = q3.stack[6]]
  <2> HIDE DEF q3
  <2> QED BY <1>4, PopEaxIs
<1>6. /\ IsProc(q5) /\ Rest(q4, q5) /\ q5.stack = SubSeq(q4.stack, 2, Len(q4.stack))
      /\ q5.reg = [q4.reg EXCEPT !["eflags"] = q4.stack[1]]
  <2> HIDE DEF q4
  <2> QED BY <1>5, PopIs
<1>7. /\ IsProc(q6) /\ Rest(q5, q6) /\ q6.stack = SubSeq(q5.stack, 1 + 1, Len(q5.stack))
      /\ q6.reg = [q5.reg EXCEPT !["eax"] = q5.stack[1]]
  <2> HIDE DEF q5
  <2>1. IsProc(q5)
    BY <1>6
  <2> QED BY <2>1, PopEaxIs
<1>8. /\ IsProc(z) /\ Rest(q6, z) /\ z.stack = SubSeq(q6.stack, 9, Len(q6.stack))
      /\ z.reg = [r \in Registers |-> IF r \in GPR THEN q6.stack[PopaPlace[r]] ELSE q6.reg[r]]
  <2> HIDE DEF q6
  <2> QED BY <1>7, PopaIs
<1> HIDE DEF q1, q2, q3, q4, q5, q6, z, S
<1>9. /\ q.stack \in Seq(S) /\ Len(q.stack) = 18 /\ q.stack[2] = fsave(p)
      /\ \A r \in DOMAIN X86StandardRegisters : q.stack[2 + X86StandardRegisters[r]] = Passed(p, r)
  <2>1. /\ IsSeq(q.stack) /\ Len(q.stack) = 18 /\ q.stack[2] = fsave(p)
        /\ \A r \in DOMAIN X86StandardRegisters : q.stack[2 + X86StandardRegisters[r]] = Passed(p, r)
    BY DEF OnStack
  <2>2. \A k \in 1..18 : q.stack[k] \in S
    BY DEF S
  <2>3. [k \in 1..18 |-> q.stack[k]] \in Seq(S)
    BY <2>2
  <2>4. q.stack \in Seq(S)
    BY <2>1, <2>3 DEF IsSeq
  <2> QED BY <2>1, <2>4
<1>10. q1.stack \in Seq(S) /\ Len(q1.stack) = 17 /\ \A k \in 1..17 : q1.stack[k] = q.stack[1 + k]
  <2>1. 1 \in Nat /\ 1 <= Len(q.stack) /\ 18 - 1 = 17
    BY <1>9
  <2>2. Left(S, q1.stack, q.stack, 1)
    BY <1>2, <1>9, <2>1, UnderTop
  <2> QED BY <1>9, <2>1, <2>2 DEF Left
<1>11. q3.stack \in Seq(S) /\ Len(q3.stack) = 16 /\ \A k \in 1..16 : q3.stack[k] = q.stack[2 + k]
  <2>1. 1 \in Nat /\ 1 <= Len(q1.stack) /\ 17 - 1 = 16 /\ 1 + 1 = 2
    BY <1>10
  <2>2. Left(S, q3.stack, q1.stack, 1)
    BY <1>3, <1>4, <1>10, <2>1, UnderTop
  <2>3. q3.stack \in Seq(S) /\ Len(q3.stack) = 16 /\ \A k \in 1..16 : q3.stack[k] = q1.stack[1 + k]
    BY <1>10, <2>1, <2>2 DEF Left
  <2>4. \A k \in 1..16 : 1 + k \in 1..17 /\ 1 + (1 + k) = 2 + k
    OBVIOUS
  <2> QED BY <1>10, <2>3, <2>4
<1>12. q4.stack \in Seq(S) /\ Len(q4.stack) = 10 /\ \A k \in 1..10 : q4.stack[k] = q.stack[8 + k]
  <2>1. 6 \in Nat /\ 6 <= Len(q3.stack) /\ 16 - 6 = 10
    BY <1>11
  <2>2. Left(S, q4.stack, q3.stack, 6)
    BY <1>5, <1>11, <2>1, UnderTop
  <2>3. q4.stack \in Seq(S) /\ Len(q4.stack) = 10 /\ \A k \in 1..10 : q4.stack[k] = q3.stack[6 + k]
    BY <1>11, <2>1, <2>2 DEF Left
  <2>4. \A k \in 1..10 : 6 + k \in 1..16 /\ 2 + (6 + k) = 8 + k
    OBVIOUS
  <2> QED BY <1>11, <2>3, <2>4
<1>13. q5.stack \in Seq(S) /\ Len(q5.stack) = 9 /\ \A k \in 1..9 : q5.stack[k] = q.stack[9 + k]
  <2>1. 1 \in Nat /\ 1 <= Len(q4.stack) /\ 10 - 1 = 9 /\ 1 + 1 = 2
    BY <1>12
  <2>2. Left(S, q5.stack, q4.stack, 1)
    BY <1>6, <1>12, <2>1, UnderTop
  <2>3. q5.stack \in Seq(S) /\ Len(q5.stack) = 9 /\ \A k \in 1..9 : q5.stack[k] = q4.stack[1 + k]
    BY <1>12, <2>1, <2>2 DEF Left
  <2>4. \A k \in 1..9 : 1 + k \in 1..10 /\ 8 + (1 + k) = 9 + k
    OBVIOUS
  <2> QED BY <1>12, <2>3, <2>4
<1>14. q6.stack \in Seq(S) /\ Len(q6.stack) = 8 /\ \A k \in 1..8 : q6.stack[k] = q.stack[10 + k]
  <2>1. 1 \in Nat /\ 1 <= Len(q5.stack) /\ 9 - 1 = 8
    BY <1>13
  <2>2. Left(S, q6.stack, q5.stack, 1)
    BY <1>7, <1>13, <2>1, UnderTop
  <2>3. q6.stack \in Seq(S) /\ Len(q6.stack) = 8 /\ \A k \in 1..8 : q6.stack[k] = q5.stack[1 + k]
    BY <1>13, <2>1, <2>2 DEF Left
  <2>4. \A k \in 1..8 : 1 + k \in 1..9 /\ 9 + (1 + k) = 10 + k
    OBVIOUS
  <2> QED BY <1>13, <2>3, <2>4
<1>15. z.stack = << >>
  <2>1. 8 \in Nat /\ 8 <= Len(q6.stack) /\ 8 - 8 = 0 /\ 8 + 1 = 9
    BY <1>14
  <2>2. Left(S, z.stack, q6.stack, 8)
    BY <1>8, <1>14, <2>1, UnderTop
  <2>3. z.stack \in Seq(S) /\ Len(z.stack) = 0
    BY <1>14, <2>1, <2>2 DEF Left
  <2> QED BY <2>3, EmptySeq
<1>16. z.fpu = p.fpu
  <2>1. q1.stack[1] = q.stack[2]
    BY <1>10
  <2>2. fsave(p).env = p.fpu
    BY DEF fsave
  <2>3. q2.fpu = p.fpu
    BY <1>3, <1>9, <2>1, <2>2
  <2> QED BY <2>3, <1>4, <1>5, <1>6, <1>7, <1>8 DEF Rest
<1>17. z.base = q.base /\ z.xmm = q.xmm /\ z.mxcsr = q.mxcsr
  <2>1. q3.base = q.base /\ q3.xmm = q.xmm /\ q3.mxcsr = q.mxcsr
    BY <1>2, <1>3, <1>4 DEF Rest
  <2> QED BY <1>5, <1>6, <1>7, <1>8, <2>1 DEF Rest
<1>18. ASSUME NEW r \in GPR PROVE q6.stack[PopaPlace[r]] = p.reg[r]
  <2>1. /\ PopaPlace[r] \in 1..8 /\ 10 + PopaPlace[r] = 2 + X86StandardRegisters[r]
        /\ r \in DOMAIN X86StandardRegisters /\ r # "pc" /\ r # "esp"
    BY DEF PopaPlace, X86StandardRegisters, GPR
  <2>2. q6.stack[PopaPlace[r]] = q.stack[2 + X86StandardRegisters[r]]
    BY <1>14, <2>1
  <2> QED BY <1>9, <2>1, <2>2 DEF Passed
<1>19. ASSUME NEW r \in Registers \ GPR PROVE q6.reg[r] = p.reg[r]
  <2>1. IsRegs(q.reg) /\ IsRegs(q1.reg) /\ IsRegs(q2.reg) /\ IsRegs(q3.reg) /\ IsRegs(q4.reg) /\ IsRegs(q5.reg)
    BY <1>2, <1>3, <1>4, <1>5, <1>6 DEF IsProc
  <2>4. /\ DOMAIN q.reg = Registers /\ DOMAIN q1.reg = Registers /\ DOMAIN q2.reg = Registers
        /\ DOMAIN q3.reg = Registers /\ DOMAIN q4.reg = Registers /\ DOMAIN q5.reg = Registers
    BY <2>1 DEF IsRegs
  <2>2. CASE r \in Segments
    <3>1. r # "eax" /\ r # "eflags" /\ q.reg[r] = p.reg[r]
      BY <2>2 DEF Segments
    <3> QED BY <1>2, <1>3, <1>4, <1>5, <1>6, <1>7, <2>4, <3>1
  <2>3. CASE r = "eflags"
    <3>1. q4.stack[1] = q.stack[9]
      BY <1>12
    <3>2. q.stack[9] = p.reg["eflags"]
      <4>1. "eflags" \in DOMAIN X86StandardRegisters /\ 2 + X86StandardRegisters["eflags"] = 9 /\ Passed(p, "eflags") = p.reg["eflags"]
        BY DEF X86StandardRegisters, Passed
      <4> QED BY <1>9, <4>1
    <3> QED BY <1>6, <1>7, <2>4, <2>3, <3>1, <3>2
  <2> QED BY <2>2, <2>3 DEF Registers
<1>20. z.reg = p.reg
  <2>1. z.reg = [r \in Registers |-> p.reg[r]]
    BY <1>8, <1>18, <1>19
  <2>2. p.reg = [r \in Registers |-> p.reg[r]]
    BY DEF IsProc, IsRegs
  <2> QED BY <2>1, <2>2
<1> QED BY <1>1, <1>8, <1>15, <1>16, <1>17, <1>20

-----------------------------------------------------------------------------
(* The processor at and between the check points.                          *)

\* The check point that the run has come to last.
Latest == Last(seen[Which])

\* During the call: the macro has saved the processor of the check point.
Calling ==
  /\ ip \in DOMAIN prog /\ seen[Which] # << >> /\ Latest.ip = ip
  /\ IsProc(Latest.p) /\ OnStack(Latest.p, m.stack)
  /\ m.base = Latest.p.base /\ m.mxcsr = Latest.p.mxcsr
  /\ \A r \in Segments : m.reg[r] = Latest.p.reg[r]

\* Between the operations: the last check point, if it is behind the run, is undone.
Working ==
  /\ m.stack = << >> /\ ip \in 1..(Len(prog) + 1)
  /\ seen[Which] # << >> =>
       /\ Latest.ip \in Nat /\ Latest.ip < ip
       /\ Latest.ip = ip - 1 => /\ m.reg = Latest.p.reg /\ m.fpu = Latest.p.fpu
                                /\ m.base = Latest.p.base /\ m.mxcsr = Latest.p.mxcsr

MachineOK ==
  /\ prog \in Programs
  /\ step \in {"compile", "link1", "record", "link2", "check", "done"} /\ phase \in {"op", "call", "back"}
  /\ exe \in {"none", "stale", "own"} /\ ip \in 0..(Len(prog) + 1)
  /\ IsSeq(reports) /\ point = Len(reports)
  /\ DOMAIN seen = {1, 2} /\ IsSeq(seen[1]) /\ IsSeq(seen[2])
  /\ step \in {"compile", "link1"} => seen[1] = << >>
  /\ step # "check" /\ step # "done" => seen[2] = << >>
  /\ phase # "op" => step \in {"record", "check"}
  /\ step \in {"record", "check"} => IsProc(m) /\ IF phase = "op" THEN Working ELSE Calling

\* A sequence grows at its end.
LEMMA Grows ==
  ASSUME NEW s, IsSeq(s), NEW e
  PROVE  /\ IsSeq(Append(s, e)) /\ Len(Append(s, e)) = Len(s) + 1 /\ Append(s, e) # << >> /\ Last(Append(s, e)) = e
         /\ Append(s, e)[Len(s) + 1] = e /\ \A k \in 1..Len(s) : Append(s, e)[k] = s[k]
<1> DEFINE S == {s[k] : k \in 1..Len(s)} \cup {e}
           t == Append(s, e)
<1>1. s \in Seq(S)
  BY DEF IsSeq
<1>2. e \in S
  OBVIOUS
<1> HIDE DEF S
<1>3. t \in Seq(S) /\ Len(t) = Len(s) + 1 /\ t[Len(s) + 1] = e /\ \A k \in 1..Len(s) : t[k] = s[k]
  BY <1>1, <1>2, AppendProperties
<1> HIDE DEF t
<1>4. IsSeq(t)
  BY <1>3, LenProperties DEF IsSeq
<1>5. Last(t) = e /\ t # << >>
  BY <1>1, <1>3, EmptySeq, LenProperties DEF Last
<1> QED BY <1>3, <1>4, <1>5 DEF t

\* The processor of a program that starts (init_regs).
LEMMA Starts ==
  ASSUME NEW j
  PROVE  IsProc(init_regs(j)) /\ init_regs(j).stack = << >>
<1> DEFINE reg == [r \in Registers |-> IF r \in {"ebp", "gs"} THEN Val(j) ELSE Val(0)]
           fpu == fninit([fcw |-> <<j>>, fsw |-> <<j>>, top |-> 0, ftw |-> <<j>>, fip |-> <<j, j>>, fop |-> <<j>>, fdp |-> <<j, j>>,
                          r |-> [i \in 0..7 |-> <<0, 0>>]])
           xmm == [i \in 0..7 |-> <<j, j>>]
           fx == [xmm |-> [i \in 0..7 |-> <<0, 0>>], mxcsr |-> <<0>>]
<1>1. init_regs(j) = Processor(reg, j, << >>, fpu, xmm, <<0>>, fx)
  BY Zenon DEF init_regs, Processor, Registers
<1>2. IsRegs(reg)
  BY DEF IsRegs
<1> HIDE DEF reg, fpu, xmm, fx
<1> QED BY <1>1, <1>2, Parts

\* q is a processor with the stack of p.
SameStack(p, q) == IsProc(q) /\ q.stack = p.stack

\* An instruction of the test does not touch the stack (Written).
LEMMA WritesNoStack ==
  ASSUME NEW p, IsProc(p), NEW at \in Writable, NEW v
  PROVE  SameStack(p, Written(p, at, v))
<1>1. ASSUME NEW w, IsRegs(w) PROVE SameStack(p, [p EXCEPT !.reg = w])
  <2> DEFINE q == [p EXCEPT !.reg = w]
  <2>1. q = Processor(w, p.base, p.stack, p.fpu, p.xmm, p.mxcsr, p.fxstate)
    BY Assigned
  <2> HIDE DEF q
  <2>2. IsProc(q) /\ q.stack = p.stack
    BY <1>1, <2>1, Parts
  <2> QED BY <2>2 DEF q, SameStack
<1>2. IsRegs(p.reg)
  BY DEF IsProc
<1>3. ASSUME NEW w PROVE SameStack(p, [p EXCEPT !.fpu = w])
  <2> DEFINE q == [p EXCEPT !.fpu = w]
  <2>1. q = Processor(p.reg, p.base, p.stack, w, p.xmm, p.mxcsr, p.fxstate)
    BY Assigned
  <2> HIDE DEF q
  <2>2. IsProc(q) /\ q.stack = p.stack
    BY <1>2, <2>1, Parts
  <2> QED BY <2>2 DEF q, SameStack
<1>4. ASSUME NEW w PROVE SameStack(p, [p EXCEPT !.xmm = w])
  <2> DEFINE q == [p EXCEPT !.xmm = w]
  <2>1. q = Processor(p.reg, p.base, p.stack, p.fpu, w, p.mxcsr, p.fxstate)
    BY Assigned
  <2> HIDE DEF q
  <2>2. IsProc(q) /\ q.stack = p.stack
    BY <1>2, <2>1, Parts
  <2> QED BY <2>2 DEF q, SameStack
<1>5. ASSUME NEW w PROVE SameStack(p, [p EXCEPT !.mxcsr = w])
  <2> DEFINE q == [p EXCEPT !.mxcsr = w]
  <2>1. q = Processor(p.reg, p.base, p.stack, p.fpu, p.xmm, w, p.fxstate)
    BY Assigned
  <2> HIDE DEF q
  <2>2. IsProc(q) /\ q.stack = p.stack
    BY <1>2, <2>1, Parts
  <2> QED BY <2>2 DEF q, SameStack
<1>6. IsRegs([p.reg EXCEPT ![at] = v])
  BY <1>2 DEF IsRegs
<1>7. at \in GPR \cup {"eflags"} \/ at = "fld" \/ at = "fldcw" \/ at \in DOMAIN MM \/ at \in DOMAIN XMM \/ at = "mxcsr"
  BY DEF Writable
<1>8. SameStack(p, [p EXCEPT !.reg = [@ EXCEPT ![at] = v]])
  BY <1>1, <1>6
<1>9. /\ SameStack(p, [p EXCEPT !.fpu = fld(@, v)])
      /\ SameStack(p, [p EXCEPT !.fpu = [@ EXCEPT !.fcw = <<v[1]>>]])
      /\ SameStack(p, [p EXCEPT !.fpu = movd(@, MM[at], v)])
  BY <1>3
<1>10. SameStack(p, [p EXCEPT !.xmm = [@ EXCEPT ![XMM[at]] = <<v[1], v[2]>>]])
  BY <1>4
<1>11. SameStack(p, [p EXCEPT !.mxcsr = <<v[1]>>])
  BY <1>5
<1> QED BY <1>7, <1>8, <1>9, <1>10, <1>11, Zenon DEF Written

\* What a C function keeps.
LEMMA ClobberedIs ==
  ASSUME NEW p, IsProc(p), NEW j
  PROVE  LET q == Clobbered(p, j)
         IN /\ IsProc(q) /\ q.stack = p.stack /\ q.base = p.base /\ q.fpu = p.fpu /\ q.mxcsr = p.mxcsr
            /\ \A r \in Segments : q.reg[r] = p.reg[r]
<1> DEFINE q == Clobbered(p, j)
           w == [r \in DOMAIN p.reg |-> IF r \in {"eax", "ecx", "edx", "eflags"} THEN Val(j) ELSE p.reg[r]]
           x == [i \in 0..7 |-> <<j, j>>]
           a == [p EXCEPT !.reg = w]
<1>1. q = [a EXCEPT !.xmm = x]
  BY Zenon DEF Clobbered
<1>2. IsRegs(w) /\ DOMAIN p.reg = Registers
  BY DEF IsProc, IsRegs
<1>3. \A r \in Segments : w[r] = p.reg[r]
  BY <1>2 DEF Segments, Registers
<1> HIDE DEF w, x, q
<1>4. a = Processor(w, p.base, p.stack, p.fpu, p.xmm, p.mxcsr, p.fxstate)
  BY Assigned
<1> HIDE DEF a
<1>5. IsProc(a) /\ a.reg = w /\ a.stack = p.stack /\ a.base = p.base /\ a.fpu = p.fpu /\ a.mxcsr = p.mxcsr
  BY <1>2, <1>4, Parts
<1>6. q = Processor(a.reg, a.base, a.stack, a.fpu, x, a.mxcsr, a.fxstate)
  BY <1>1, <1>5, Assigned
<1>7. IsProc(q) /\ q.reg = w /\ q.stack = p.stack /\ q.base = p.base /\ q.fpu = p.fpu /\ q.mxcsr = p.mxcsr
  BY <1>2, <1>5, <1>6, Parts
<1> QED BY <1>3, <1>7 DEF q

\* The operations are those of a test (CheckRunAssumption).
Tests == \A p \in Programs : IsTest(p)

\* What the operation under way looks like.
LEMMA OperationIs ==
  ASSUME Tests, MachineOK, ip \in DOMAIN prog
  PROVE  /\ Len(prog) \in Nat /\ DOMAIN prog = 1..Len(prog) /\ prog[ip] \in Operation
         /\ prog[ip].op = "set" => prog[ip].at \in Writable
         /\ prog[ip].op = "skip" => prog[ip].at \in GPR /\ ip < Len(prog)
         /\ prog[ip].op = "check" => prog[ip].at \in Checks
<1>1. prog \in Seq(Operation) /\ \A i \in DOMAIN prog : prog[i].op = "skip" => i < Len(prog)
  BY DEF Tests, MachineOK, IsTest
<1>2. Len(prog) \in Nat /\ DOMAIN prog = 1..Len(prog) /\ prog[ip] \in Operation
  BY <1>1, LenProperties, ElementOfSeq
<1>3. /\ prog[ip].op = "set" => prog[ip].at \in Writable
      /\ prog[ip].op = "skip" => prog[ip].at \in GPR
      /\ prog[ip].op = "check" => prog[ip].at \in Checks
  BY <1>2 DEF Operation
<1> QED BY <1>1, <1>2, <1>3

LEMMA MachineInit == Tests /\ Init => MachineOK
<1> SUFFICES ASSUME Tests, Init PROVE MachineOK
  OBVIOUS
<1>1. prog \in Programs /\ Len(prog) \in Nat
  BY LenProperties DEF Init, Tests, IsTest
<1>2. IsSeq(<< >>)
  BY DEF IsSeq
<1>3. seen = << << >>, << >> >> /\ DOMAIN seen = {1, 2} /\ seen[1] = << >> /\ seen[2] = << >>
  BY DEF Init
<1> QED BY <1>1, <1>2, <1>3 DEF Init, MachineOK

\* The script, between the runs.
LEMMA MachineScript ==
  ASSUME Tests, MachineOK, compile_asm \/ link_with_outputlib \/ link_with_checklib \/ safe_exit \/ Trap
  PROVE  MachineOK'
<1>0. Len(prog) \in Nat
  BY LenProperties DEF MachineOK, Tests, IsTest
<1>1. CASE compile_asm
  BY <1>1 DEF compile_asm, MachineOK, history, Working, Calling, Latest, Which, recording
<1>2. ASSUME NEW s, Start(s)
      PROVE  ip' = 1 /\ phase' = "op" /\ step' = s /\ IsProc(m') /\ m'.stack = << >>
  BY <1>2, Starts DEF Start
<1>3. CASE link_with_outputlib
  <2>1. CASE exe' = "own"
    <3>1. Start("record") /\ seen' = seen /\ seen[1] = << >> /\ UNCHANGED <<prog, point, reports>>
      BY <1>3, <2>1 DEF link_with_outputlib, MachineOK
    <3>2. ip' = 1 /\ phase' = "op" /\ step' = "record" /\ IsProc(m') /\ m'.stack = << >>
      BY <3>1, <1>2
    <3>3. Which' = 1
      BY <3>2 DEF Which, recording
    <3>4. Working'
      BY <1>0, <3>1, <3>2, <3>3 DEF Working
    <3> QED BY <1>0, <2>1, <3>1, <3>2, <3>4, <1>3 DEF MachineOK, link_with_outputlib
  <2>2. CASE exe' # "own"
    BY <1>3, <2>2 DEF link_with_outputlib, MachineOK, history, Working, Calling, Latest, Which, recording
  <2> QED BY <2>1, <2>2
<1>4. CASE link_with_checklib
  <2>1. CASE obj
    <3>1. Start("check") /\ seen' = seen /\ seen[2] = << >> /\ UNCHANGED <<prog, point, reports, exe>>
      BY <1>4, <2>1 DEF link_with_checklib, MachineOK
    <3>2. ip' = 1 /\ phase' = "op" /\ step' = "check" /\ IsProc(m') /\ m'.stack = << >>
      BY <3>1, <1>2
    <3>3. Which' = 2
      BY <3>2 DEF Which, recording
    <3>4. Working'
      BY <1>0, <3>1, <3>2, <3>3 DEF Working
    <3> QED BY <1>0, <3>1, <3>2, <3>4 DEF MachineOK
  <2>2. CASE ~obj
    BY <1>4, <2>2 DEF link_with_checklib, MachineOK, Working, Calling, Latest, Which, recording
  <2> QED BY <2>1, <2>2
<1>5. CASE safe_exit
  <2>1. step' \in {"link2", "done"} /\ (step' = "link2" => step = "record")
    BY <1>5 DEF safe_exit, Ended, recording
  <2> QED BY <1>5, <2>1 DEF safe_exit, MachineOK, history, running
<1>6. CASE Trap
  <2>1. step' = "done"
    BY <1>6 DEF Trap, Ended
  <2> QED BY <1>6, <2>1 DEF Trap, MachineOK, history, running
<1> QED BY <1>1, <1>3, <1>4, <1>5, <1>6

\* An operation of the test moves away from the last check point.
LEMMA MachineMoves ==
  ASSUME Tests, MachineOK, Set \/ Skip
  PROVE  MachineOK'
<1>1. running /\ ip \in DOMAIN prog
  BY DEF Set, Skip
<1>2. /\ Len(prog) \in Nat /\ ip \in 1..Len(prog)
      /\ prog[ip].op = "set" => prog[ip].at \in Writable
      /\ prog[ip].op = "skip" => ip < Len(prog)
  BY <1>1, OperationIs
<1>3. Working /\ IsProc(m)
  BY <1>1 DEF running, MachineOK
<1>4. UNCHANGED <<step, prog, phase, point, reports, seen, exe>> /\ Which' = Which /\ Latest' = Latest
  BY DEF Set, Skip, files, Which, recording, Latest
<1>5. IsProc(m') /\ m'.stack = << >>
  <2>1. CASE Skip
    BY <1>3, <2>1 DEF Skip, Working
  <2>2. CASE Set
    <3>1. PICK v : m' = Written(m, prog[ip].at, v)
      BY <2>2 DEF Set
    <3>2. prog[ip].at \in Writable
      BY <2>2, <1>2 DEF Set
    <3>3. SameStack(m, m')
      BY <1>3, <3>1, <3>2, WritesNoStack
    <3> QED BY <1>3, <3>3 DEF SameStack, Working
  <2> QED BY <2>1, <2>2
<1>6. ip' \in {ip + 1, ip + 2} /\ ip' \in 1..(Len(prog) + 1)
  BY <1>2 DEF Set, Skip
<1>7. Working'
  <2>1. seen[Which] # << >> => Latest.ip < ip
    BY <1>3 DEF Working
  <2>2. ASSUME seen[Which] # << >>
        PROVE  Latest.ip \in Nat /\ Latest.ip < ip' /\ Latest.ip # ip' - 1
    <3>1. Latest.ip \in Nat /\ Latest.ip < ip
      BY <1>3, <2>2 DEF Working
    <3> QED BY <1>2, <1>6, <3>1
  <2> QED BY <1>4, <1>5, <1>6, <2>2 DEF Working
<1> QED BY <1>1, <1>4, <1>5, <1>6, <1>7, <1>2 DEF MachineOK, running

\* A check point.
LEMMA MachineChecks ==
  ASSUME Tests, MachineOK, CheckMacro
  PROVE  MachineOK'
<1> DEFINE e == [at |-> prog[ip].at, ip |-> ip, p |-> m, det |-> det]
<1>1. Working /\ IsProc(m) /\ ip \in DOMAIN prog /\ step \in {"record", "check"} /\ Which \in {1, 2}
  BY DEF CheckMacro, running, MachineOK, Which
<1>2. IsSeq(seen[Which]) /\ DOMAIN seen = {1, 2}
  BY <1>1 DEF MachineOK
<1>3. /\ seen'[Which] = Append(seen[Which], e) /\ \A w \in {1, 2} \ {Which} : seen'[w] = seen[w]
      /\ DOMAIN seen' = {1, 2}
  BY <1>1, <1>2 DEF CheckMacro
<1>4. UNCHANGED <<step, prog, ip, point, reports, exe>> /\ phase' = "call" /\ Which' = Which
  BY DEF CheckMacro, files, Which, recording
<1>5. e.ip = ip /\ e.p = m
  OBVIOUS
<1> HIDE DEF e
<1>6. IsSeq(seen'[Which]) /\ seen'[Which] # << >> /\ Last(seen'[Which]) = e
  BY <1>2, <1>3, Grows
<1>7. Latest' = e
  BY <1>4, <1>6 DEF Latest
<1>8. /\ IsProc(m') /\ OnStack(m, m'.stack) /\ m'.base = m.base /\ m'.mxcsr = m.mxcsr
      /\ \A r \in Registers \ {"eax"} : m'.reg[r] = m.reg[r]
  BY <1>1, Saves DEF CheckMacro, Working
<1>9. \A r \in Segments : m'.reg[r] = m.reg[r]
  BY <1>8 DEF Segments, Registers
<1>10. Calling'
  BY <1>1, <1>4, <1>5, <1>6, <1>7, <1>8, <1>9 DEF Calling
<1>11. /\ IsSeq(seen'[1]) /\ IsSeq(seen'[2])
       /\ step' # "check" /\ step' # "done" => seen'[2] = << >>
  <2>1. step # "check" => Which = 1
    BY <1>1 DEF Which, recording
  <2>2. \A w \in {1, 2} : IsSeq(seen'[w])
    BY <1>3, <1>6 DEF MachineOK
  <2> QED BY <1>3, <1>4, <2>1, <2>2 DEF MachineOK
<1> QED BY <1>1, <1>3, <1>4, <1>8, <1>10, <1>11 DEF MachineOK

\* The check functions.
LEMMA MachineCalls ==
  ASSUME Tests, MachineOK, PrintState \/ ComparePoint
  PROVE  MachineOK'
<1>1. /\ phase = "call" /\ phase' = "back" /\ UNCHANGED <<step, prog, ip, seen, exe>>
      /\ Which' = Which /\ Latest' = Latest
  BY DEF PrintState, ComparePoint, files, history, Which, recording, Latest
<1>2. PICK j : m' = Clobbered(m, j)
  BY DEF PrintState, ComparePoint
<1>3. step \in {"record", "check"} /\ IsProc(m) /\ Calling
  BY <1>1 DEF MachineOK
<1>4. /\ IsProc(m') /\ m'.stack = m.stack /\ m'.base = m.base /\ m'.mxcsr = m.mxcsr
      /\ \A r \in Segments : m'.reg[r] = m.reg[r]
  BY <1>2, <1>3, ClobberedIs
<1>5. Calling'
  BY <1>1, <1>3, <1>4 DEF Calling
<1>6. IsSeq(reports') /\ point' = Len(reports')
  <2>1. CASE PrintState
    BY <2>1 DEF PrintState, MachineOK
  <2>2. CASE ComparePoint
    <3>1. PICK e : reports' = Append(reports, e)
      BY <2>2 DEF ComparePoint
    <3>2. point' = point + 1
      BY <2>2 DEF ComparePoint
    <3> QED BY <3>1, <3>2, Grows DEF MachineOK
  <2> QED BY <2>1, <2>2
<1> QED BY <1>1, <1>3, <1>4, <1>5, <1>6 DEF MachineOK

\* The end of the macro.
LEMMA MachineReturns ==
  ASSUME Tests, MachineOK, CheckMacroEnds
  PROVE  MachineOK'
<1>1. /\ phase = "back" /\ phase' = "op" /\ ip' = ip + 1 /\ UNCHANGED <<step, prog, seen, exe, reports, point>>
      /\ Which' = Which /\ Latest' = Latest /\ m' = check_macro_restore(m)
  BY DEF CheckMacroEnds, files, Which, recording, Latest
<1>2. step \in {"record", "check"} /\ IsProc(m) /\ Calling
  BY <1>1 DEF MachineOK
<1>3. /\ IsProc(m') /\ m'.reg = Latest.p.reg /\ m'.fpu = Latest.p.fpu /\ m'.stack = << >>
      /\ m'.base = Latest.p.base /\ m'.mxcsr = Latest.p.mxcsr
  BY <1>1, <1>2, Restores DEF Calling
<1>4. ip \in 1..Len(prog) /\ Len(prog) \in Nat
  BY <1>2, OperationIs DEF Calling
<1>5. Working'
  <2>1. Latest.ip = ip
    BY <1>2 DEF Calling
  <2> QED BY <1>1, <1>3, <1>4, <2>1 DEF Working
<1> QED BY <1>1, <1>2, <1>3, <1>4, <1>5 DEF MachineOK

LEMMA MachineStutters ==
  ASSUME MachineOK, UNCHANGED vars
  PROVE  MachineOK'
BY DEF MachineOK, vars, Working, Calling, Latest, Which, recording

\* The stack and the saved processor, in every state.
THEOREM MachineAlways == ASSUME Tests PROVE Spec => []MachineOK
<1>1. Init => MachineOK
  BY MachineInit
<1>2. MachineOK /\ [Next]_vars => MachineOK'
  BY MachineScript, MachineMoves, MachineChecks, MachineCalls, MachineReturns, MachineStutters DEF Next
<1> QED BY <1>1, <1>2, PTL DEF Spec

\* A check point leaves the stack and the processor as it found them
\* (output_file_wrapper.c:43-81, check_macro).
THEOREM CheckPointsAreTransparent == Spec => []Transparent
<1>1. MachineOK => Transparent
  <2> SUFFICES ASSUME MachineOK PROVE TypeOK /\ StateKept
    BY DEF Transparent
  <2>1. TypeOK
    <3>1. step \in {"record", "check"} => Len(m.stack) = IF phase = "op" THEN 0 ELSE 18
      BY DEF MachineOK, Working, Calling, OnStack
    <3> QED BY <3>1 DEF MachineOK, TypeOK
  <2>2. StateKept
    BY DEF MachineOK, StateKept, running, Working, Latest
  <2> QED BY <2>1, <2>2
<1>2. Spec => []MachineOK
  BY CheckRunAssumption, MachineAlways DEF Tests
<1> QED BY <1>1, <1>2, PTL

-----------------------------------------------------------------------------
(* What is recorded, compiled in and compared.                             *)

\* The parameters of a check function as a function of the processor.
StateOf(p) ==
  [X86 |-> [r \in DOMAIN X86StandardRegisters |-> Passed(p, r)], X87 |-> [f \in X87Status |-> fsa_get(f, fsave(p))],
   fpregs |-> fsave(p).st, SSE |-> [xmm |-> p.xmm, mxcsr |-> p.mxcsr]]

\* The line that outputlib prints of them.
Line(s) == [s EXCEPT !.X86 = [k \in 1..16 |-> @[X86RegsOutput[k]]]]

\* The x87 state; fsw holds its top apart.
FpuOK(f) ==
  f = [fcw |-> f.fcw, fsw |-> <<0>>, top |-> f.top, ftw |-> f.ftw, fip |-> f.fip, fop |-> f.fop, fdp |-> f.fdp, r |-> f.r]

EntryOK(e) == IsProc(e.p) /\ e.p.stack = << >> /\ FpuOK(e.p.fpu) /\ e.at \in Checks

\* A check point that the function has not come to yet.
Pending == IF phase = "call" THEN 1 ELSE 0

\* Whether check point k reports a difference.
Differs(k) ==
  Compared(seen[2][k].at, StateOf(seen[2][k].p)) # Compared(seen[2][k].at, StateOf(seen[1][k].p))

Recorded(lines) ==
  IsSeq(lines) /\ Len(lines) <= Len(seen[1]) /\ \A k \in 1..Len(lines) : lines[k] = Line(StateOf(seen[1][k].p))

RecordOK ==
  /\ step \in {"compile", "link1"} => exe # "own"
  /\ exe = "own" => obj
  /\ step = "record" => Recorded(stdout) /\ Len(seen[1]) = Len(stdout) + Pending
  /\ step = "link2" /\ obj => Recorded(rst) /\ Len(seen[1]) = Len(rst)
  /\ step = "check" => /\ IsSeq(output) /\ Len(output) = Len(seen[1]) + 1
                       /\ \A k \in 1..Len(seen[1]) : output[k] = StateOf(seen[1][k].p)

EntriesOK ==
  /\ \A w \in {1, 2} : \A k \in 1..Len(seen[w]) : EntryOK(seen[w][k])
  /\ step \in {"record", "check"} =>
       /\ phase = "op" => FpuOK(m.fpu)
       /\ phase # "op" => Latest.at = prog[ip].at
       /\ phase = "call" => m.fxstate = [xmm |-> Latest.p.xmm, mxcsr |-> Latest.p.mxcsr]

ReportsOK ==
  /\ step # "check" /\ step # "done" => reports = << >>
  /\ step = "check" => Len(seen[2]) = Len(reports) + Pending
  /\ Len(reports) <= Len(seen[2])
  /\ \A k \in 1..Len(reports) : k <= Len(seen[1]) => reports[k] = Differs(k)

ComparesOK == MachineOK /\ EntriesOK /\ RecordOK /\ ReportsOK

\* The check function gets the state at the check point (verification.h).
LEMMA Handed ==
  ASSUME NEW p, NEW q, OnStack(p, q.stack), q.fxstate = [xmm |-> p.xmm, mxcsr |-> p.mxcsr]
  PROVE  State(q) = StateOf(p)
<1>1. q.stack[1] = Val("fxstate") /\ q.stack[2] = fsave(p)
  BY DEF OnStack
<1>2. x86regs(q) = [r \in DOMAIN X86StandardRegisters |-> Passed(p, r)]
  BY DEF OnStack, x86regs
<1>3. ssestate(q) = [xmm |-> p.xmm, mxcsr |-> p.mxcsr]
  BY <1>1 DEF ssestate
<1> QED BY <1>1, <1>2, <1>3, Zenon DEF State, StateOf

\* What is printed in the order of X86RegsOutput is compiled in where it belongs.
LEMMA ReadsBack ==
  ASSUME NEW p
  PROVE  Compiled(Line(StateOf(p))) = StateOf(p)
<1> DEFINE x == [r \in DOMAIN X86StandardRegisters |-> Passed(p, r)]
           y == [f \in X87Status |-> fsa_get(f, fsave(p))]
           st == fsave(p).st
           sse == [xmm |-> p.xmm, mxcsr |-> p.mxcsr]
           printed == [k \in 1..16 |-> x[X86RegsOutput[k]]]
           back == [r \in DOMAIN X86StandardRegisters |-> printed[X86StandardRegisters[r]]]
<1>1. StateOf(p) = [X86 |-> x, X87 |-> y, fpregs |-> st, SSE |-> sse]
  BY Zenon DEF StateOf
<1>2. ASSUME NEW r \in DOMAIN X86StandardRegisters PROVE printed[X86StandardRegisters[r]] = x[r]
  <2> HIDE DEF x
  <2>1. X86StandardRegisters[r] \in 1..16 /\ X86RegsOutput[X86StandardRegisters[r]] = r
    BY DEF X86StandardRegisters, X86RegsOutput
  <2> QED BY <2>1
<1>3. back = x
  BY <1>2
<1> HIDE DEF x, y, st, sse
<1>4. Line(StateOf(p)) = [X86 |-> printed, X87 |-> y, fpregs |-> st, SSE |-> sse]
  BY <1>1 DEF Line
<1> HIDE DEF printed
<1>5. Line(StateOf(p)).X86 = printed
  BY <1>4
<1>6. Compiled(Line(StateOf(p))) = [X86 |-> back, X87 |-> y, fpregs |-> st, SSE |-> sse]
  BY <1>4, <1>5 DEF Compiled
<1> QED BY <1>1, <1>3, <1>6

\* An assignment to a part of the x87 state other than fsw.
LEMMA FpuAssigned ==
  ASSUME NEW f, FpuOK(f), NEW v
  PROVE  /\ FpuOK([f EXCEPT !.fcw = v]) /\ FpuOK([f EXCEPT !.top = v]) /\ FpuOK([f EXCEPT !.ftw = v])
         /\ FpuOK([f EXCEPT !.fip = v]) /\ FpuOK([f EXCEPT !.fop = v]) /\ FpuOK([f EXCEPT !.fdp = v])
         /\ FpuOK([f EXCEPT !.r = v])
<1>1. f = [fcw |-> f.fcw, fsw |-> <<0>>, top |-> f.top, ftw |-> f.ftw, fip |-> f.fip, fop |-> f.fop, fdp |-> f.fdp, r |-> f.r]
  BY DEF FpuOK
<1> QED BY <1>1 DEF FpuOK

\* What the instructions of the test leave of the x87 state.
LEMMA FpuWritten ==
  ASSUME NEW p, IsProc(p), FpuOK(p.fpu), NEW at \in Writable, NEW v
  PROVE  FpuOK(Written(p, at, v).fpu)
<1> DEFINE Good(q) == FpuOK(q.fpu)
           f == p.fpu
<1>0. FpuOK(f)
  OBVIOUS
<1>1. FpuOK(fld(f, v))
  <2> DEFINE top == (f.top + 7) % 8
             a == [f EXCEPT !.top = top]
             regs == [a.r EXCEPT ![(f.top + 7) % 8] = <<v[1], v[2]>>]
             b == [a EXCEPT !.r = regs]
             ip1 == <<v[3], 1>>
             c == [b EXCEPT !.fip = ip1]
             op1 == <<1>>
             d == [c EXCEPT !.fop = op1]
             dp1 == <<1, 1>>
             e == [d EXCEPT !.fdp = dp1]
             g == [e EXCEPT !.ftw = op1]
  <2>1. fld(f, v) = g
    BY Zenon DEF fld
  <2> HIDE DEF f, top, ip1, op1, dp1
  <2>2. FpuOK(a)
    BY <1>0, FpuAssigned
  <2> HIDE DEF a, regs
  <2>3. FpuOK(b)
    BY <2>2, FpuAssigned
  <2> HIDE DEF b
  <2>4. FpuOK(c)
    BY <2>3, FpuAssigned
  <2> HIDE DEF c
  <2>5. FpuOK(d)
    BY <2>4, FpuAssigned
  <2> HIDE DEF d
  <2>6. FpuOK(e)
    BY <2>5, FpuAssigned
  <2> HIDE DEF e
  <2>7. FpuOK(g)
    BY <2>6, FpuAssigned
  <2> QED BY <2>1, <2>7
<1>2. FpuOK(movd(f, MM[at], v))
  <2> DEFINE a == [f EXCEPT !.top = 0]
             tag == <<1>>
             b == [a EXCEPT !.ftw = tag]
             regs == [b.r EXCEPT ![MM[at]] = <<v[1], "ones">>]
             c == [b EXCEPT !.r = regs]
  <2>1. movd(f, MM[at], v) = c
    BY Zenon DEF movd
  <2> HIDE DEF f, tag
  <2>2. FpuOK(a)
    BY <1>0, FpuAssigned
  <2> HIDE DEF a
  <2>3. FpuOK(b)
    BY <2>2, FpuAssigned
  <2> HIDE DEF b, regs
  <2>4. FpuOK(c)
    BY <2>3, FpuAssigned
  <2> QED BY <2>1, <2>4
<1>3. FpuOK([f EXCEPT !.fcw = <<v[1]>>])
  BY FpuAssigned
<1>4. ASSUME NEW w, FpuOK(w) PROVE Good([p EXCEPT !.fpu = w])
  <2> DEFINE q == [p EXCEPT !.fpu = w]
  <2>1. q = Processor(p.reg, p.base, p.stack, w, p.xmm, p.mxcsr, p.fxstate)
    BY Assigned
  <2> HIDE DEF q
  <2>2. q.fpu = w
    BY <2>1, Parts
  <2> QED BY <1>4, <2>2 DEF q
<1>5. ASSUME NEW w PROVE Good([p EXCEPT !.reg = w]) /\ Good([p EXCEPT !.xmm = w]) /\ Good([p EXCEPT !.mxcsr = w])
  <2> DEFINE q == [p EXCEPT !.reg = w]
             x == [p EXCEPT !.xmm = w]
             y == [p EXCEPT !.mxcsr = w]
  <2>1. /\ q = Processor(w, p.base, p.stack, p.fpu, p.xmm, p.mxcsr, p.fxstate)
        /\ x = Processor(p.reg, p.base, p.stack, p.fpu, w, p.mxcsr, p.fxstate)
        /\ y = Processor(p.reg, p.base, p.stack, p.fpu, p.xmm, w, p.fxstate)
    BY Assigned
  <2> HIDE DEF q, x, y
  <2>2. q.fpu = p.fpu /\ x.fpu = p.fpu /\ y.fpu = p.fpu
    BY <2>1, Parts
  <2> QED BY <2>2 DEF q, x, y
<1>6. at \in GPR \cup {"eflags"} \/ at = "fld" \/ at = "fldcw" \/ at \in DOMAIN MM \/ at \in DOMAIN XMM \/ at = "mxcsr"
  BY DEF Writable
<1> HIDE DEF Good
<1>7. /\ Good([p EXCEPT !.fpu = fld(@, v)])
      /\ Good([p EXCEPT !.fpu = [@ EXCEPT !.fcw = <<v[1]>>]])
      /\ Good([p EXCEPT !.fpu = movd(@, MM[at], v)])
  BY <1>1, <1>2, <1>3, <1>4
<1>8. /\ Good([p EXCEPT !.reg = [@ EXCEPT ![at] = v]])
      /\ Good([p EXCEPT !.xmm = [@ EXCEPT ![XMM[at]] = <<v[1], v[2]>>]])
      /\ Good([p EXCEPT !.mxcsr = <<v[1]>>])
  BY <1>5
<1>9. Good(Written(p, at, v))
  BY <1>6, <1>7, <1>8, Zenon DEF Written
<1> QED BY <1>9 DEF Good

\* fninit in init_regs.
LEMMA FpuStarts ==
  ASSUME NEW j
  PROVE  FpuOK(init_regs(j).fpu)
<1> DEFINE raw == [fcw |-> <<j>>, fsw |-> <<j>>, top |-> 0, ftw |-> <<j>>, fip |-> <<j, j>>, fop |-> <<j>>, fdp |-> <<j, j>>,
                   r |-> [i \in 0..7 |-> <<0, 0>>]]
           a == [raw EXCEPT !.fcw = <<0>>]
           b == [a EXCEPT !.fsw = <<0>>]
           c == [b EXCEPT !.top = 0]
           d == [c EXCEPT !.ftw = <<0>>]
           e == [d EXCEPT !.fip = <<0, 0>>]
           g == [e EXCEPT !.fop = <<0>>]
           h == [g EXCEPT !.fdp = <<0, 0>>]
<1>1. init_regs(j).fpu = fninit(raw)
  BY DEF init_regs
<1>2. fninit(raw) = h
  BY Zenon DEF fninit
<1>3. FpuOK(b)
  <2> DEFINE regs == [i \in 0..7 |-> <<0, 0>>]
  <2> HIDE DEF regs
  <2>1. a = [fcw |-> <<0>>, fsw |-> <<j>>, top |-> 0, ftw |-> <<j>>, fip |-> <<j, j>>, fop |-> <<j>>, fdp |-> <<j, j>>, r |-> regs]
    BY DEF regs
  <2> HIDE DEF a
  <2>2. b = [fcw |-> <<0>>, fsw |-> <<0>>, top |-> 0, ftw |-> <<j>>, fip |-> <<j, j>>, fop |-> <<j>>, fdp |-> <<j, j>>, r |-> regs]
    BY <2>1
  <2> HIDE DEF b
  <2> QED BY <2>2 DEF FpuOK
<1> HIDE DEF a, b
<1>4. FpuOK(c)
  BY <1>3, FpuAssigned
<1> HIDE DEF c
<1>5. FpuOK(d)
  BY <1>4, FpuAssigned
<1> HIDE DEF d
<1>6. FpuOK(e)
  BY <1>5, FpuAssigned
<1> HIDE DEF e
<1>7. FpuOK(g)
  BY <1>6, FpuAssigned
<1> HIDE DEF g
<1>8. FpuOK(h)
  BY <1>7, FpuAssigned
<1> HIDE DEF h, raw
<1> QED BY <1>1, <1>2, <1>8

\* The part of the state that a check compares, by its type (checklib.c).
LEMMA ComparedIs ==
  ASSUME NEW t, NEW s
  PROVE  /\ t \in DOMAIN Low => Compared(t, s) = s.X86[Low[t]][1]
         /\ t \in DOMAIN High => Compared(t, s) = s.X86[High[t]][2]
         /\ t \in DOMAIN Word => Compared(t, s) = <<s.X86[Word[t]][1], s.X86[Word[t]][2]>>
         /\ t \in Segments => Compared(t, s) = <<s.X86[t][1], s.X86[t][2]>>
         /\ t \in GPR \cup {"esp", "eflags"} => Compared(t, s) = s.X86[t]
         /\ t = "x86_state" => Compared(t, s) = [r \in X86StateRegisters |-> s.X86[r]]
         /\ t \in DOMAIN ST => Compared(t, s) = s.fpregs[ST[t]]
         /\ t \in DOMAIN MM => Compared(t, s) = s.fpregs[MM[t]][1]
         /\ t \in X87Status => Compared(t, s) = s.X87[t]
         /\ t = "x87_env" => Compared(t, s) = s.X87
         /\ t \in DOMAIN XMM => Compared(t, s) = s.SSE.xmm[XMM[t]]
         /\ t = "mxcsr" => Compared(t, s) = s.SSE.mxcsr
<1>1. ASSUME t \in DOMAIN Low PROVE Compared(t, s) = s.X86[Low[t]][1]
  <2>1. /\ t \notin DOMAIN High /\ t \notin DOMAIN Word /\ t \notin Segments /\ t \notin GPR \cup {"esp", "eflags"}
        /\ t # "x86_state" /\ t \notin DOMAIN ST /\ t \notin DOMAIN MM /\ t \notin X87Status
        /\ t # "x87_env" /\ t \notin DOMAIN XMM /\ t # "mxcsr"
    BY <1>1 DEF Low, High, Word, Segments, GPR, ST, MM, XMM, X87Status
  <2> QED BY <1>1, <2>1, Zenon DEF Compared
<1>2. ASSUME t \in DOMAIN High PROVE Compared(t, s) = s.X86[High[t]][2]
  <2>1. /\ t \notin DOMAIN Low /\ t \notin DOMAIN Word /\ t \notin Segments /\ t \notin GPR \cup {"esp", "eflags"}
        /\ t # "x86_state" /\ t \notin DOMAIN ST /\ t \notin DOMAIN MM /\ t \notin X87Status
        /\ t # "x87_env" /\ t \notin DOMAIN XMM /\ t # "mxcsr"
    BY <1>2 DEF Low, High, Word, Segments, GPR, ST, MM, XMM, X87Status
  <2> QED BY <1>2, <2>1, Zenon DEF Compared
<1>3. ASSUME t \in DOMAIN Word PROVE Compared(t, s) = <<s.X86[Word[t]][1], s.X86[Word[t]][2]>>
  <2>1. /\ t \notin DOMAIN Low /\ t \notin DOMAIN High /\ t \notin Segments /\ t \notin GPR \cup {"esp", "eflags"}
        /\ t # "x86_state" /\ t \notin DOMAIN ST /\ t \notin DOMAIN MM /\ t \notin X87Status
        /\ t # "x87_env" /\ t \notin DOMAIN XMM /\ t # "mxcsr"
    BY <1>3 DEF Low, High, Word, Segments, GPR, ST, MM, XMM, X87Status
  <2> QED BY <1>3, <2>1, Zenon DEF Compared
<1>4. ASSUME t \in Segments PROVE Compared(t, s) = <<s.X86[t][1], s.X86[t][2]>>
  <2>1. /\ t \notin DOMAIN Low /\ t \notin DOMAIN High /\ t \notin DOMAIN Word /\ t \notin GPR \cup {"esp", "eflags"}
        /\ t # "x86_state" /\ t \notin DOMAIN ST /\ t \notin DOMAIN MM /\ t \notin X87Status
        /\ t # "x87_env" /\ t \notin DOMAIN XMM /\ t # "mxcsr"
    BY <1>4 DEF Low, High, Word, Segments, GPR, ST, MM, XMM, X87Status
  <2> QED BY <1>4, <2>1, Zenon DEF Compared
<1>5. ASSUME t \in GPR \cup {"esp", "eflags"} PROVE Compared(t, s) = s.X86[t]
  <2>1. /\ t \notin DOMAIN Low /\ t \notin DOMAIN High /\ t \notin DOMAIN Word /\ t \notin Segments
        /\ t # "x86_state" /\ t \notin DOMAIN ST /\ t \notin DOMAIN MM /\ t \notin X87Status
        /\ t # "x87_env" /\ t \notin DOMAIN XMM /\ t # "mxcsr"
    BY <1>5 DEF Low, High, Word, Segments, GPR, ST, MM, XMM, X87Status
  <2> QED BY <1>5, <2>1, Zenon DEF Compared
<1>6. ASSUME t = "x86_state" PROVE Compared(t, s) = [r \in X86StateRegisters |-> s.X86[r]]
  <2>1. /\ t \notin DOMAIN Low /\ t \notin DOMAIN High /\ t \notin DOMAIN Word /\ t \notin Segments
        /\ t \notin GPR \cup {"esp", "eflags"} /\ t \notin DOMAIN ST /\ t \notin DOMAIN MM /\ t \notin X87Status
        /\ t # "x87_env" /\ t \notin DOMAIN XMM /\ t # "mxcsr"
    BY <1>6 DEF Low, High, Word, Segments, GPR, ST, MM, XMM, X87Status
  <2> QED BY <1>6, <2>1, Zenon DEF Compared
<1>7. ASSUME t \in DOMAIN ST PROVE Compared(t, s) = s.fpregs[ST[t]]
  <2>1. /\ t \notin DOMAIN Low /\ t \notin DOMAIN High /\ t \notin DOMAIN Word /\ t \notin Segments
        /\ t \notin GPR \cup {"esp", "eflags"} /\ t # "x86_state" /\ t \notin DOMAIN MM /\ t \notin X87Status
        /\ t # "x87_env" /\ t \notin DOMAIN XMM /\ t # "mxcsr"
    BY <1>7 DEF Low, High, Word, Segments, GPR, ST, MM, XMM, X87Status
  <2> QED BY <1>7, <2>1, Zenon DEF Compared
<1>8. ASSUME t \in DOMAIN MM PROVE Compared(t, s) = s.fpregs[MM[t]][1]
  <2>1. /\ t \notin DOMAIN Low /\ t \notin DOMAIN High /\ t \notin DOMAIN Word /\ t \notin Segments
        /\ t \notin GPR \cup {"esp", "eflags"} /\ t # "x86_state" /\ t \notin DOMAIN ST /\ t \notin X87Status
        /\ t # "x87_env" /\ t \notin DOMAIN XMM /\ t # "mxcsr"
    BY <1>8 DEF Low, High, Word, Segments, GPR, ST, MM, XMM, X87Status
  <2> QED BY <1>8, <2>1, Zenon DEF Compared
<1>9. ASSUME t \in X87Status PROVE Compared(t, s) = s.X87[t]
  <2>1. /\ t \notin DOMAIN Low /\ t \notin DOMAIN High /\ t \notin DOMAIN Word /\ t \notin Segments
        /\ t \notin GPR \cup {"esp", "eflags"} /\ t # "x86_state" /\ t \notin DOMAIN ST /\ t \notin DOMAIN MM
        /\ t # "x87_env" /\ t \notin DOMAIN XMM /\ t # "mxcsr"
    BY <1>9 DEF Low, High, Word, Segments, GPR, ST, MM, XMM, X87Status
  <2> QED BY <1>9, <2>1, Zenon DEF Compared
<1>10. ASSUME t = "x87_env" PROVE Compared(t, s) = s.X87
  <2>1. /\ t \notin DOMAIN Low /\ t \notin DOMAIN High /\ t \notin DOMAIN Word /\ t \notin Segments
        /\ t \notin GPR \cup {"esp", "eflags"} /\ t # "x86_state" /\ t \notin DOMAIN ST /\ t \notin DOMAIN MM
        /\ t \notin X87Status /\ t \notin DOMAIN XMM /\ t # "mxcsr"
    BY <1>10 DEF Low, High, Word, Segments, GPR, ST, MM, XMM, X87Status
  <2> QED BY <1>10, <2>1, Zenon DEF Compared
<1>11. ASSUME t \in DOMAIN XMM PROVE Compared(t, s) = s.SSE.xmm[XMM[t]]
  <2>1. /\ t \notin DOMAIN Low /\ t \notin DOMAIN High /\ t \notin DOMAIN Word /\ t \notin Segments
        /\ t \notin GPR \cup {"esp", "eflags"} /\ t # "x86_state" /\ t \notin DOMAIN ST /\ t \notin DOMAIN MM
        /\ t \notin X87Status /\ t # "x87_env" /\ t # "mxcsr"
    BY <1>11 DEF Low, High, Word, Segments, GPR, ST, MM, XMM, X87Status
  <2> QED BY <1>11, <2>1, Zenon DEF Compared
<1>12. ASSUME t = "mxcsr" PROVE Compared(t, s) = s.SSE.mxcsr
  <2>1. /\ t \notin DOMAIN Low /\ t \notin DOMAIN High /\ t \notin DOMAIN Word /\ t \notin Segments
        /\ t \notin GPR \cup {"esp", "eflags"} /\ t # "x86_state" /\ t \notin DOMAIN ST /\ t \notin DOMAIN MM
        /\ t \notin X87Status /\ t # "x87_env" /\ t \notin DOMAIN XMM
    BY <1>12 DEF Low, High, Word, Segments, GPR, ST, MM, XMM, X87Status
  <2> QED BY <1>12, <2>1, Zenon DEF Compared
<1> QED BY <1>1, <1>2, <1>3, <1>4, <1>5, <1>6, <1>7, <1>8, <1>9, <1>10, <1>11, <1>12

\* The part of the processor a check is about, by its type.
LEMMA CoversIs ==
  ASSUME NEW t, NEW p
  PROVE  /\ t \in DOMAIN Low => Covers(t, p) = p.reg[Low[t]][1]
         /\ t \in DOMAIN High => Covers(t, p) = p.reg[High[t]][2]
         /\ t \in {"sp", "esp"} => Covers(t, p) = p.base
         /\ t \in DOMAIN Word \ {"sp"} => Covers(t, p) = <<p.reg[Word[t]][1], p.reg[Word[t]][2]>>
         /\ t \in Segments => Covers(t, p) = <<p.reg[t][1], p.reg[t][2]>>
         /\ t \in GPR \cup {"eflags"} => Covers(t, p) = p.reg[t]
         /\ t = "x86_state" => Covers(t, p) = [r \in Locations(t) |-> p.reg[r]]
         /\ t \in DOMAIN ST => Covers(t, p) = p.fpu.r[(p.fpu.top + ST[t]) % 8]
         /\ t \in DOMAIN MM => Covers(t, p) = p.fpu.r[MM[t]][1]
         /\ t = "fsw" => Covers(t, p) = <<p.fpu.fsw, p.fpu.top>>
         /\ t \in {"fcw", "ftw"} => Covers(t, p) = p.fpu[t]
         /\ t \in DOMAIN XMM => Covers(t, p) = p.xmm[XMM[t]]
         /\ t = "mxcsr" => Covers(t, p) = p.mxcsr
<1>1. ASSUME t \in DOMAIN Low PROVE Covers(t, p) = p.reg[Low[t]][1]
  <2>1. /\ t \notin DOMAIN High /\ t \notin {"sp", "esp"} /\ ~(t \in DOMAIN Word \ {"sp"}) /\ t \notin Segments
        /\ t \notin GPR \cup {"eflags"} /\ t # "x86_state" /\ t \notin DOMAIN ST /\ t \notin DOMAIN MM
        /\ t # "fsw" /\ t \notin {"fcw", "ftw"} /\ t \notin {"ffop", "ffip", "ffdp", "x87_env"} /\ t \notin DOMAIN XMM
        /\ t # "mxcsr"
    BY <1>1 DEF Low, High, Word, Segments, GPR, ST, MM, XMM, X87Status
  <2> QED BY <1>1, <2>1, Zenon DEF Covers
<1>2. ASSUME t \in DOMAIN High PROVE Covers(t, p) = p.reg[High[t]][2]
  <2>1. /\ t \notin DOMAIN Low /\ t \notin {"sp", "esp"} /\ ~(t \in DOMAIN Word \ {"sp"}) /\ t \notin Segments
        /\ t \notin GPR \cup {"eflags"} /\ t # "x86_state" /\ t \notin DOMAIN ST /\ t \notin DOMAIN MM
        /\ t # "fsw" /\ t \notin {"fcw", "ftw"} /\ t \notin {"ffop", "ffip", "ffdp", "x87_env"} /\ t \notin DOMAIN XMM
        /\ t # "mxcsr"
    BY <1>2 DEF Low, High, Word, Segments, GPR, ST, MM, XMM, X87Status
  <2> QED BY <1>2, <2>1, Zenon DEF Covers
<1>3. ASSUME t \in {"sp", "esp"} PROVE Covers(t, p) = p.base
  <2>1. /\ t \notin DOMAIN Low /\ t \notin DOMAIN High /\ ~(t \in DOMAIN Word \ {"sp"}) /\ t \notin Segments
        /\ t \notin GPR \cup {"eflags"} /\ t # "x86_state" /\ t \notin DOMAIN ST /\ t \notin DOMAIN MM
        /\ t # "fsw" /\ t \notin {"fcw", "ftw"} /\ t \notin {"ffop", "ffip", "ffdp", "x87_env"} /\ t \notin DOMAIN XMM
        /\ t # "mxcsr"
    BY <1>3 DEF Low, High, Word, Segments, GPR, ST, MM, XMM, X87Status
  <2> QED BY <1>3, <2>1, Zenon DEF Covers
<1>4. ASSUME t \in DOMAIN Word \ {"sp"} PROVE Covers(t, p) = <<p.reg[Word[t]][1], p.reg[Word[t]][2]>>
  <2>1. /\ t \notin DOMAIN Low /\ t \notin DOMAIN High /\ t \notin {"sp", "esp"} /\ t \notin Segments
        /\ t \notin GPR \cup {"eflags"} /\ t # "x86_state" /\ t \notin DOMAIN ST /\ t \notin DOMAIN MM
        /\ t # "fsw" /\ t \notin {"fcw", "ftw"} /\ t \notin {"ffop", "ffip", "ffdp", "x87_env"} /\ t \notin DOMAIN XMM
        /\ t # "mxcsr"
    BY <1>4 DEF Low, High, Word, Segments, GPR, ST, MM, XMM, X87Status
  <2> QED BY <1>4, <2>1, Zenon DEF Covers
<1>5. ASSUME t \in Segments PROVE Covers(t, p) = <<p.reg[t][1], p.reg[t][2]>>
  <2>1. /\ t \notin DOMAIN Low /\ t \notin DOMAIN High /\ t \notin {"sp", "esp"} /\ ~(t \in DOMAIN Word \ {"sp"})
        /\ t \notin GPR \cup {"eflags"} /\ t # "x86_state" /\ t \notin DOMAIN ST /\ t \notin DOMAIN MM
        /\ t # "fsw" /\ t \notin {"fcw", "ftw"} /\ t \notin {"ffop", "ffip", "ffdp", "x87_env"} /\ t \notin DOMAIN XMM
        /\ t # "mxcsr"
    BY <1>5 DEF Low, High, Word, Segments, GPR, ST, MM, XMM, X87Status
  <2> QED BY <1>5, <2>1, Zenon DEF Covers
<1>6. ASSUME t \in GPR \cup {"eflags"} PROVE Covers(t, p) = p.reg[t]
  <2>1. /\ t \notin DOMAIN Low /\ t \notin DOMAIN High /\ t \notin {"sp", "esp"} /\ ~(t \in DOMAIN Word \ {"sp"})
        /\ t \notin Segments /\ t # "x86_state" /\ t \notin DOMAIN ST /\ t \notin DOMAIN MM
        /\ t # "fsw" /\ t \notin {"fcw", "ftw"} /\ t \notin {"ffop", "ffip", "ffdp", "x87_env"} /\ t \notin DOMAIN XMM
        /\ t # "mxcsr"
    BY <1>6 DEF Low, High, Word, Segments, GPR, ST, MM, XMM, X87Status
  <2> QED BY <1>6, <2>1, Zenon DEF Covers
<1>7. ASSUME t = "x86_state" PROVE Covers(t, p) = [r \in Locations(t) |-> p.reg[r]]
  <2>1. /\ t \notin DOMAIN Low /\ t \notin DOMAIN High /\ t \notin {"sp", "esp"} /\ ~(t \in DOMAIN Word \ {"sp"})
        /\ t \notin Segments /\ t \notin GPR \cup {"eflags"} /\ t \notin DOMAIN ST /\ t \notin DOMAIN MM
        /\ t # "fsw" /\ t \notin {"fcw", "ftw"} /\ t \notin {"ffop", "ffip", "ffdp", "x87_env"} /\ t \notin DOMAIN XMM
        /\ t # "mxcsr"
    BY <1>7 DEF Low, High, Word, Segments, GPR, ST, MM, XMM, X87Status
  <2> QED BY <1>7, <2>1, Zenon DEF Covers
<1>8. ASSUME t \in DOMAIN ST PROVE Covers(t, p) = p.fpu.r[(p.fpu.top + ST[t]) % 8]
  <2>1. /\ t \notin DOMAIN Low /\ t \notin DOMAIN High /\ t \notin {"sp", "esp"} /\ ~(t \in DOMAIN Word \ {"sp"})
        /\ t \notin Segments /\ t \notin GPR \cup {"eflags"} /\ t # "x86_state" /\ t \notin DOMAIN MM
        /\ t # "fsw" /\ t \notin {"fcw", "ftw"} /\ t \notin {"ffop", "ffip", "ffdp", "x87_env"} /\ t \notin DOMAIN XMM
        /\ t # "mxcsr"
    BY <1>8 DEF Low, High, Word, Segments, GPR, ST, MM, XMM, X87Status
  <2> QED BY <1>8, <2>1, Zenon DEF Covers
<1>9. ASSUME t \in DOMAIN MM PROVE Covers(t, p) = p.fpu.r[MM[t]][1]
  <2>1. /\ t \notin DOMAIN Low /\ t \notin DOMAIN High /\ t \notin {"sp", "esp"} /\ ~(t \in DOMAIN Word \ {"sp"})
        /\ t \notin Segments /\ t \notin GPR \cup {"eflags"} /\ t # "x86_state" /\ t \notin DOMAIN ST
        /\ t # "fsw" /\ t \notin {"fcw", "ftw"} /\ t \notin {"ffop", "ffip", "ffdp", "x87_env"} /\ t \notin DOMAIN XMM
        /\ t # "mxcsr"
    BY <1>9 DEF Low, High, Word, Segments, GPR, ST, MM, XMM, X87Status
  <2> QED BY <1>9, <2>1, Zenon DEF Covers
<1>10. ASSUME t = "fsw" PROVE Covers(t, p) = <<p.fpu.fsw, p.fpu.top>>
  <2>1. /\ t \notin DOMAIN Low /\ t \notin DOMAIN High /\ t \notin {"sp", "esp"} /\ ~(t \in DOMAIN Word \ {"sp"})
        /\ t \notin Segments /\ t \notin GPR \cup {"eflags"} /\ t # "x86_state" /\ t \notin DOMAIN ST
        /\ t \notin DOMAIN MM /\ t \notin {"fcw", "ftw"} /\ t \notin {"ffop", "ffip", "ffdp", "x87_env"} /\ t \notin DOMAIN XMM
        /\ t # "mxcsr"
    BY <1>10 DEF Low, High, Word, Segments, GPR, ST, MM, XMM, X87Status
  <2> QED BY <1>10, <2>1, Zenon DEF Covers
<1>11. ASSUME t \in {"fcw", "ftw"} PROVE Covers(t, p) = p.fpu[t]
  <2>1. /\ t \notin DOMAIN Low /\ t \notin DOMAIN High /\ t \notin {"sp", "esp"} /\ ~(t \in DOMAIN Word \ {"sp"})
        /\ t \notin Segments /\ t \notin GPR \cup {"eflags"} /\ t # "x86_state" /\ t \notin DOMAIN ST
        /\ t \notin DOMAIN MM /\ t # "fsw" /\ t \notin {"ffop", "ffip", "ffdp", "x87_env"} /\ t \notin DOMAIN XMM
        /\ t # "mxcsr"
    BY <1>11 DEF Low, High, Word, Segments, GPR, ST, MM, XMM, X87Status
  <2> QED BY <1>11, <2>1, Zenon DEF Covers
<1>13. ASSUME t \in DOMAIN XMM PROVE Covers(t, p) = p.xmm[XMM[t]]
  <2>1. /\ t \notin DOMAIN Low /\ t \notin DOMAIN High /\ t \notin {"sp", "esp"} /\ ~(t \in DOMAIN Word \ {"sp"})
        /\ t \notin Segments /\ t \notin GPR \cup {"eflags"} /\ t # "x86_state" /\ t \notin DOMAIN ST
        /\ t \notin DOMAIN MM /\ t # "fsw" /\ t \notin {"fcw", "ftw"} /\ t \notin {"ffop", "ffip", "ffdp", "x87_env"}
        /\ t # "mxcsr"
    BY <1>13 DEF Low, High, Word, Segments, GPR, ST, MM, XMM, X87Status
  <2> QED BY <1>13, <2>1, Zenon DEF Covers
<1>14. ASSUME t = "mxcsr" PROVE Covers(t, p) = p.mxcsr
  <2>1. /\ t \notin DOMAIN Low /\ t \notin DOMAIN High /\ t \notin {"sp", "esp"} /\ ~(t \in DOMAIN Word \ {"sp"})
        /\ t \notin Segments /\ t \notin GPR \cup {"eflags"} /\ t # "x86_state" /\ t \notin DOMAIN ST
        /\ t \notin DOMAIN MM /\ t # "fsw" /\ t \notin {"fcw", "ftw"} /\ t \notin {"ffop", "ffip", "ffdp", "x87_env"}
        /\ t \notin DOMAIN XMM
    BY <1>14 DEF Low, High, Word, Segments, GPR, ST, MM, XMM, X87Status
  <2> QED BY <1>14, <2>1, Zenon DEF Covers
<1> QED BY <1>1, <1>2, <1>3, <1>4, <1>5, <1>6, <1>7, <1>8, <1>9, <1>10, <1>11, <1>13, <1>14

\* The x87 environment, and the status word with the top of the stack.
LEMMA CoversX87 ==
  ASSUME NEW t, NEW p
  PROVE  /\ t \in {"ffop", "ffip", "ffdp", "x87_env"} => Covers(t, p) = [f \in Env \cup {"top"} |-> p.fpu[f]]
         /\ t = "fsw" => Covers(t, p) = <<p.fpu.fsw, p.fpu.top>>
<1>1. ASSUME t \in {"ffop", "ffip", "ffdp", "x87_env"} PROVE Covers(t, p) = [f \in Env \cup {"top"} |-> p.fpu[f]]
  <2>1. /\ t \notin DOMAIN Low /\ t \notin DOMAIN High /\ t \notin {"sp", "esp"} /\ ~(t \in DOMAIN Word \ {"sp"})
        /\ t \notin Segments /\ t \notin GPR \cup {"eflags"} /\ t # "x86_state" /\ t \notin DOMAIN ST
        /\ t \notin DOMAIN MM /\ t # "fsw" /\ t \notin {"fcw", "ftw"} /\ t \notin DOMAIN XMM
        /\ t # "mxcsr"
    BY <1>1 DEF Low, High, Word, Segments, GPR, ST, MM, XMM, X87Status
  <2> QED BY <1>1, <2>1, Zenon DEF Covers
<1>2. t = "fsw" => Covers(t, p) = <<p.fpu.fsw, p.fpu.top>>
  BY CoversIs
<1> QED BY <1>1, <1>2

\* The locations a check is about, by its type.
LEMMA LocationsIs ==
  ASSUME NEW t
  PROVE  /\ t \in DOMAIN Low => Locations(t) = {Low[t]}
         /\ t \in DOMAIN High => Locations(t) = {High[t]}
         /\ t \in DOMAIN Word => Locations(t) = {Word[t]}
         /\ t = "x86_state" => Locations(t) = (GPR \ {"ebp"}) \cup (Segments \ {"gs"}) \cup {"eflags"}
         /\ t \in DOMAIN ST \cup DOMAIN MM => Locations(t) = {"fpregs"}
         /\ t \in X87Status \cup {"x87_env"} => Locations(t) = Env
         /\ t \in Segments \cup GPR \cup {"esp", "eflags", "mxcsr"} \cup DOMAIN XMM => Locations(t) = {t}
<1>1. ASSUME t \in DOMAIN Low PROVE Locations(t) = {Low[t]}
  <2>1. /\ t \notin DOMAIN High /\ t \notin DOMAIN Word /\ t # "x86_state" /\ t \notin DOMAIN ST \cup DOMAIN MM
        /\ t \notin X87Status \cup {"x87_env"}
    BY <1>1 DEF Low, High, Word, Segments, GPR, ST, MM, XMM, X87Status
  <2> QED BY <1>1, <2>1, Zenon DEF Locations
<1>2. ASSUME t \in DOMAIN High PROVE Locations(t) = {High[t]}
  <2>1. /\ t \notin DOMAIN Low /\ t \notin DOMAIN Word /\ t # "x86_state" /\ t \notin DOMAIN ST \cup DOMAIN MM
        /\ t \notin X87Status \cup {"x87_env"}
    BY <1>2 DEF Low, High, Word, Segments, GPR, ST, MM, XMM, X87Status
  <2> QED BY <1>2, <2>1, Zenon DEF Locations
<1>3. ASSUME t \in DOMAIN Word PROVE Locations(t) = {Word[t]}
  <2>1. /\ t \notin DOMAIN Low /\ t \notin DOMAIN High /\ t # "x86_state" /\ t \notin DOMAIN ST \cup DOMAIN MM
        /\ t \notin X87Status \cup {"x87_env"}
    BY <1>3 DEF Low, High, Word, Segments, GPR, ST, MM, XMM, X87Status
  <2> QED BY <1>3, <2>1, Zenon DEF Locations
<1>4. ASSUME t = "x86_state" PROVE Locations(t) = (GPR \ {"ebp"}) \cup (Segments \ {"gs"}) \cup {"eflags"}
  <2>1. /\ t \notin DOMAIN Low /\ t \notin DOMAIN High /\ t \notin DOMAIN Word /\ t \notin DOMAIN ST \cup DOMAIN MM
        /\ t \notin X87Status \cup {"x87_env"}
    BY <1>4 DEF Low, High, Word, Segments, GPR, ST, MM, XMM, X87Status
  <2> QED BY <1>4, <2>1, Zenon DEF Locations
<1>5. ASSUME t \in DOMAIN ST \cup DOMAIN MM PROVE Locations(t) = {"fpregs"}
  <2>1. /\ t \notin DOMAIN Low /\ t \notin DOMAIN High /\ t \notin DOMAIN Word /\ t # "x86_state"
        /\ t \notin X87Status \cup {"x87_env"}
    BY <1>5 DEF Low, High, Word, Segments, GPR, ST, MM, XMM, X87Status
  <2> QED BY <1>5, <2>1, Zenon DEF Locations
<1>6. ASSUME t \in X87Status \cup {"x87_env"} PROVE Locations(t) = Env
  <2>1. /\ t \notin DOMAIN Low /\ t \notin DOMAIN High /\ t \notin DOMAIN Word /\ t # "x86_state"
        /\ t \notin DOMAIN ST \cup DOMAIN MM
    BY <1>6 DEF Low, High, Word, Segments, GPR, ST, MM, XMM, X87Status
  <2> QED BY <1>6, <2>1, Zenon DEF Locations
<1>7. ASSUME t \in Segments \cup GPR \cup {"esp", "eflags", "mxcsr"} \cup DOMAIN XMM PROVE Locations(t) = {t}
  <2>1. /\ t \notin DOMAIN Low /\ t \notin DOMAIN High /\ t \notin DOMAIN Word /\ t # "x86_state"
        /\ t \notin DOMAIN ST \cup DOMAIN MM /\ t \notin X87Status \cup {"x87_env"}
    BY <1>7 DEF Low, High, Word, Segments, GPR, ST, MM, XMM, X87Status
  <2> QED BY <1>7, <2>1, Zenon DEF Locations
<1> QED BY <1>1, <1>2, <1>3, <1>4, <1>5, <1>6, <1>7

\* The fields of the state.
LEMMA StateParts ==
  ASSUME NEW p
  PROVE  /\ \A r \in DOMAIN X86StandardRegisters : StateOf(p).X86[r] = Passed(p, r)
         /\ \A f \in X87Status : StateOf(p).X87[f] = fsa_get(f, fsave(p))
         /\ StateOf(p).X87 = [f \in X87Status |-> fsa_get(f, fsave(p))]
         /\ StateOf(p).fpregs = fsave(p).st /\ StateOf(p).SSE.xmm = p.xmm /\ StateOf(p).SSE.mxcsr = p.mxcsr
<1> DEFINE x == [r \in DOMAIN X86StandardRegisters |-> Passed(p, r)]
           y == [f \in X87Status |-> fsa_get(f, fsave(p))]
           sse == [xmm |-> p.xmm, mxcsr |-> p.mxcsr]
<1>1. StateOf(p) = [X86 |-> x, X87 |-> y, fpregs |-> fsave(p).st, SSE |-> sse]
  BY Zenon DEF StateOf
<1>2. sse.xmm = p.xmm /\ sse.mxcsr = p.mxcsr
  OBVIOUS
<1>3. /\ \A r \in DOMAIN X86StandardRegisters : x[r] = Passed(p, r)
      /\ \A f \in X87Status : y[f] = fsa_get(f, fsave(p))
  OBVIOUS
<1> HIDE DEF x, sse, y
<1>4. StateOf(p).X86 = x /\ StateOf(p).X87 = y /\ StateOf(p).fpregs = fsave(p).st /\ StateOf(p).SSE = sse
  BY <1>1
<1> QED BY <1>2, <1>3, <1>4 DEF y

\* What the getters of verification.h read.
LEMMA GettersRead ==
  ASSUME NEW p
  PROVE  /\ fsa_get("fsw", fsave(p)) = p.fpu.fsw \o <<p.fpu.top>>
         /\ fsa_get("ffop", fsave(p)) = <<"fcs">>
         /\ fsa_get("ffip", fsave(p)) = <<p.fpu.fip[1], p.fpu.fop>>
         /\ fsa_get("ffdp", fsave(p)) = <<p.fpu.fdp[1], "fds">>
         /\ fsa_get("fcw", fsave(p)) = p.fpu["fcw"] /\ fsa_get("ftw", fsave(p)) = p.fpu["ftw"]
         /\ \A i \in 0..7 : fsave(p).st[i] = p.fpu.r[(p.fpu.top + i) % 8]
<1>1. fsave(p).env = p.fpu /\ \A i \in 0..7 : fsave(p).st[i] = p.fpu.r[(p.fpu.top + i) % 8]
  BY DEF fsave
<1>2. /\ "fsw" # "ffop" /\ "fsw" # "ffip" /\ "fsw" # "ffdp" /\ "ffop" # "ffip" /\ "ffop" # "ffdp" /\ "ffip" # "ffdp"
      /\ "fcw" # "fsw" /\ "fcw" # "ffop" /\ "fcw" # "ffip" /\ "fcw" # "ffdp"
      /\ "ftw" # "fsw" /\ "ftw" # "ffop" /\ "ftw" # "ffip" /\ "ftw" # "ffdp"
  OBVIOUS
<1> DEFINE a == fsave(p)
<1>3. /\ fsa_get("fsw", a) = a.env.fsw \o <<a.env.top>>
      /\ fsa_get("ffop", a) = <<"fcs">>
      /\ fsa_get("ffip", a) = <<a.env.fip[1], a.env.fop>>
      /\ fsa_get("ffdp", a) = <<a.env.fdp[1], "fds">>
      /\ fsa_get("fcw", a) = a.env["fcw"] /\ fsa_get("ftw", a) = a.env["ftw"]
  <2> HIDE DEF a
  <2> QED BY <1>2, Zenon DEF fsa_get
<1> QED BY <1>1, <1>3

\* Two processors whose parts that the check is about are the same, or not.
Same(t, p, q) == Covers(t, p) = Covers(t, q)
Accepted(t, p, q) == Compared(t, StateOf(p)) = Compared(t, StateOf(q))

\* A check of one of the general registers.
LEMMA TruthRegisters ==
  ASSUME NEW p, NEW q, p.stack = << >>, q.stack = << >>,
         NEW t \in DOMAIN Low \cup DOMAIN High \cup DOMAIN Word \cup Segments \cup GPR \cup {"esp", "eflags", "x86_state"}
  PROVE  Same(t, p, q) <=> Accepted(t, p, q)
<1>1. /\ \A r \in DOMAIN X86StandardRegisters : StateOf(p).X86[r] = Passed(p, r)
      /\ \A r \in DOMAIN X86StandardRegisters : StateOf(q).X86[r] = Passed(q, r)
  BY StateParts
<1>2. GPR \cup Segments \cup {"eflags", "esp"} \subseteq DOMAIN X86StandardRegisters
  BY DEF GPR, Segments, X86StandardRegisters
<1>3. \A r \in GPR \cup Segments \cup {"eflags"} : Passed(p, r) = p.reg[r] /\ Passed(q, r) = q.reg[r]
  BY DEF Passed, GPR, Segments
<1>4. \A r \in GPR \cup Segments \cup {"eflags"} : StateOf(p).X86[r] = p.reg[r] /\ StateOf(q).X86[r] = q.reg[r]
  BY <1>1, <1>2, <1>3
<1>5. StateOf(p).X86["esp"] = <<p.base, 0, 0>> /\ StateOf(q).X86["esp"] = <<q.base, 0, 0>>
  BY <1>1, <1>2 DEF Passed, esp
<1>6. CASE t \in DOMAIN Low
  <2>1. Low[t] \in GPR
    BY <1>6 DEF Low, GPR
  <2> QED BY <1>4, <1>6, <2>1, ComparedIs, CoversIs DEF Same, Accepted
<1>7. CASE t \in DOMAIN High
  <2>1. High[t] \in GPR
    BY <1>7 DEF High, GPR
  <2> QED BY <1>4, <1>7, <2>1, ComparedIs, CoversIs DEF Same, Accepted
<1>8. CASE t = "sp"
  <2>1. t \in DOMAIN Word /\ Word[t] = "esp"
    BY <1>8 DEF Word
  <2>2. /\ Compared(t, StateOf(p)) = <<StateOf(p).X86[Word[t]][1], StateOf(p).X86[Word[t]][2]>>
        /\ Compared(t, StateOf(q)) = <<StateOf(q).X86[Word[t]][1], StateOf(q).X86[Word[t]][2]>>
        /\ Covers(t, p) = p.base /\ Covers(t, q) = q.base
    BY <1>8, <2>1, ComparedIs, CoversIs
  <2>3. Compared(t, StateOf(p)) = <<p.base, 0>> /\ Compared(t, StateOf(q)) = <<q.base, 0>>
    BY <1>5, <2>1, <2>2
  <2> QED BY <2>2, <2>3 DEF Same, Accepted
<1>9. CASE t \in DOMAIN Word \ {"sp"}
  <2>1. Word[t] \in GPR
    BY <1>9 DEF Word, GPR
  <2> QED BY <1>4, <1>9, <2>1, ComparedIs, CoversIs DEF Same, Accepted
<1>10. CASE t \in Segments
  BY <1>4, <1>10, ComparedIs, CoversIs DEF Same, Accepted
<1>11. CASE t \in GPR \cup {"eflags"}
  BY <1>4, <1>11, ComparedIs, CoversIs DEF Same, Accepted
<1>12. CASE t = "esp"
  <2>1. Compared(t, StateOf(p)) = <<p.base, 0, 0>> /\ Compared(t, StateOf(q)) = <<q.base, 0, 0>>
    BY <1>5, <1>12, ComparedIs
  <2>2. Covers(t, p) = p.base /\ Covers(t, q) = q.base
    BY <1>12, CoversIs
  <2> QED BY <2>1, <2>2 DEF Same, Accepted
<1>13. CASE t = "x86_state"
  <2>1. Locations(t) = X86StateRegisters
    <3>1. Locations(t) = (GPR \ {"ebp"}) \cup (Segments \ {"gs"}) \cup {"eflags"}
      BY <1>13, LocationsIs
    <3> QED BY <3>1 DEF X86StateRegisters, GPR, Segments
  <2>2. X86StateRegisters \subseteq GPR \cup Segments \cup {"eflags"}
    BY DEF X86StateRegisters, GPR, Segments
  <2>3. /\ Compared(t, StateOf(p)) = [r \in X86StateRegisters |-> StateOf(p).X86[r]]
        /\ Compared(t, StateOf(q)) = [r \in X86StateRegisters |-> StateOf(q).X86[r]]
        /\ Covers(t, p) = [r \in Locations(t) |-> p.reg[r]] /\ Covers(t, q) = [r \in Locations(t) |-> q.reg[r]]
    BY <1>13, ComparedIs, CoversIs
  <2>4. /\ [r \in X86StateRegisters |-> StateOf(p).X86[r]] = [r \in X86StateRegisters |-> p.reg[r]]
        /\ [r \in X86StateRegisters |-> StateOf(q).X86[r]] = [r \in X86StateRegisters |-> q.reg[r]]
    BY <1>4, <2>2
  <2> QED BY <2>1, <2>3, <2>4 DEF Same, Accepted
<1> QED BY <1>6, <1>7, <1>8, <1>9, <1>10, <1>11, <1>12, <1>13

\* What is compared of the x87, MMX and SSE state.
LEMMA FloatingIs ==
  ASSUME NEW p, NEW t
  PROVE  /\ t \in DOMAIN ST => Compared(t, StateOf(p)) = p.fpu.r[(p.fpu.top + ST[t]) % 8]
         /\ t \in DOMAIN MM => Compared(t, StateOf(p)) = p.fpu.r[(p.fpu.top + MM[t]) % 8][1]
         /\ t \in DOMAIN XMM => Compared(t, StateOf(p)) = p.xmm[XMM[t]]
         /\ t = "mxcsr" => Compared(t, StateOf(p)) = p.mxcsr
         /\ t \in X87Status => Compared(t, StateOf(p)) = fsa_get(t, fsave(p))
         /\ t = "x87_env" => Compared(t, StateOf(p)) = [f \in X87Status |-> fsa_get(f, fsave(p))]
<1> DEFINE s == StateOf(p)
<1>1. /\ \A f \in X87Status : s.X87[f] = fsa_get(f, fsave(p))
      /\ s.X87 = [f \in X87Status |-> fsa_get(f, fsave(p))]
      /\ s.fpregs = fsave(p).st /\ s.SSE.xmm = p.xmm /\ s.SSE.mxcsr = p.mxcsr
  BY StateParts
<1>2. \A i \in 0..7 : fsave(p).st[i] = p.fpu.r[(p.fpu.top + i) % 8]
  BY GettersRead
<1> HIDE DEF s
<1>3. ASSUME t \in DOMAIN ST PROVE Compared(t, s) = p.fpu.r[(p.fpu.top + ST[t]) % 8]
  <2>1. ST[t] \in 0..7
    BY <1>3 DEF ST
  <2>2. Compared(t, s) = s.fpregs[ST[t]]
    BY <1>3, ComparedIs
  <2> QED BY <1>1, <1>2, <2>1, <2>2
<1>4. ASSUME t \in DOMAIN MM PROVE Compared(t, s) = p.fpu.r[(p.fpu.top + MM[t]) % 8][1]
  <2>1. MM[t] \in 0..7
    BY <1>4 DEF MM
  <2>2. Compared(t, s) = s.fpregs[MM[t]][1]
    BY <1>4, ComparedIs
  <2> QED BY <1>1, <1>2, <2>1, <2>2
<1>5. ASSUME t \in DOMAIN XMM PROVE Compared(t, s) = p.xmm[XMM[t]]
  <2>1. Compared(t, s) = s.SSE.xmm[XMM[t]]
    BY <1>5, ComparedIs
  <2> QED BY <1>1, <2>1
<1>6. ASSUME t = "mxcsr" PROVE Compared(t, s) = p.mxcsr
  <2>1. Compared(t, s) = s.SSE.mxcsr
    BY <1>6, ComparedIs
  <2> QED BY <1>1, <2>1
<1>7. ASSUME t \in X87Status PROVE Compared(t, s) = fsa_get(t, fsave(p))
  <2>1. Compared(t, s) = s.X87[t]
    BY <1>7, ComparedIs
  <2> QED BY <1>1, <1>7, <2>1
<1>8. ASSUME t = "x87_env" PROVE Compared(t, s) = [f \in X87Status |-> fsa_get(f, fsave(p))]
  <2>1. Compared(t, s) = s.X87
    BY <1>8, ComparedIs
  <2> QED BY <1>1, <2>1
<1> QED BY <1>3, <1>4, <1>5, <1>6, <1>7, <1>8 DEF s

\* A check of the x87 state other than its registers.
LEMMA TruthX87 ==
  ASSUME NEW p, NEW q, FpuOK(p.fpu), FpuOK(q.fpu), NEW t \in X87Status \cup {"x87_env"}
  PROVE  /\ Same(t, p, q) => Accepted(t, p, q)
         /\ t \notin {"ffop", "ffip", "ffdp", "x87_env"} => (Accepted(t, p, q) => Same(t, p, q))
<1>1. p.fpu.fsw = <<0>> /\ q.fpu.fsw = <<0>>
  <2>1. ASSUME NEW f, FpuOK(f) PROVE f.fsw = <<0>>
    BY <2>1 DEF FpuOK
  <2> QED BY <2>1
<1> DEFINE cp == Compared(t, StateOf(p))
           cq == Compared(t, StateOf(q))
           vp == Covers(t, p)
           vq == Covers(t, q)
<1> SUFFICES /\ vp = vq => cp = cq
             /\ t \notin {"ffop", "ffip", "ffdp", "x87_env"} => (cp = cq => vp = vq)
  BY DEF Same, Accepted
<1>2. CASE t = "fsw"
  <2>1. t \in X87Status
    BY <1>2 DEF X87Status
  <2>2. cp = fsa_get(t, fsave(p)) /\ cq = fsa_get(t, fsave(q))
    BY <2>1, FloatingIs
  <2>3. cp = <<0>> \o <<p.fpu.top>> /\ cq = <<0>> \o <<q.fpu.top>>
    BY <1>1, <1>2, <2>2, GettersRead
  <2>4. vp = << <<0>>, p.fpu.top >> /\ vq = << <<0>>, q.fpu.top >>
    <3>1. vp = <<p.fpu.fsw, p.fpu.top>> /\ vq = <<q.fpu.fsw, q.fpu.top>>
      BY <1>2, CoversX87, Zenon
    <3> QED BY <1>1, <3>1
  <2>5. ASSUME NEW x PROVE (<<0>> \o <<x>>)[2] = x
    <3> DEFINE S == {0, x}
               a == <<0>>
               b == <<x>>
    <3>1. a \in Seq(S) /\ b \in Seq(S) /\ Len(a) = 1 /\ Len(b) = 1 /\ 1 \in Nat /\ b[1] = x /\ 1 + 1 = 2
      OBVIOUS
    <3> HIDE DEF S, a, b
    <3>2. Stacked(S, a \o b, a, 1, b, 1)
      BY <3>1, OnTop
    <3>3. (a \o b)[1 + 1] = b[1]
      BY <3>2 DEF Stacked
    <3> QED BY <3>1, <3>3 DEF a, b
  <2>6. cp = cq => p.fpu.top = q.fpu.top
    BY <2>3, <2>5
  <2>7. vp = vq => p.fpu.top = q.fpu.top
    BY <2>4
  <2> QED BY <2>3, <2>4, <2>6, <2>7
<1>3. CASE t \in {"fcw", "ftw"}
  <2>1. t \in X87Status
    BY <1>3 DEF X87Status
  <2>2. cp = fsa_get(t, fsave(p)) /\ cq = fsa_get(t, fsave(q))
    BY <2>1, FloatingIs
  <2>3. vp = p.fpu[t] /\ vq = q.fpu[t]
    BY <1>3, CoversIs
  <2>4. cp = p.fpu[t] /\ cq = q.fpu[t]
    BY <1>3, <2>2, GettersRead
  <2> QED BY <2>3, <2>4
<1>4. CASE t \in {"ffop", "ffip", "ffdp", "x87_env"}
  <2> SUFFICES ASSUME vp = vq PROVE cp = cq
    BY <1>4
  <2>1. /\ vp = [f \in Env \cup {"top"} |-> p.fpu[f]]
        /\ vq = [f \in Env \cup {"top"} |-> q.fpu[f]]
    <3>1. Covers(t, p) = [f \in Env \cup {"top"} |-> p.fpu[f]]
      BY <1>4, CoversX87, Zenon
    <3>2. Covers(t, q) = [f \in Env \cup {"top"} |-> q.fpu[f]]
      BY <1>4, CoversX87, Zenon
    <3> QED BY <3>1, <3>2, Zenon
  <2>2. \A f \in Env \cup {"top"} : p.fpu[f] = q.fpu[f]
    <3> HIDE DEF vp, vq
    <3>1. [f \in Env \cup {"top"} |-> p.fpu[f]] = [f \in Env \cup {"top"} |-> q.fpu[f]]
      BY <2>1
    <3> QED BY <3>1
  <2>3. /\ p.fpu.fcw = q.fpu.fcw /\ p.fpu.fsw = q.fpu.fsw /\ p.fpu.ftw = q.fpu.ftw /\ p.fpu.fip = q.fpu.fip
        /\ p.fpu.fop = q.fpu.fop /\ p.fpu.fdp = q.fpu.fdp /\ p.fpu.top = q.fpu.top
    BY <2>2 DEF Env
  <2>4. \A f \in X87Status : fsa_get(f, fsave(p)) = fsa_get(f, fsave(q))
    <3>1. /\ fsa_get("fsw", fsave(p)) = fsa_get("fsw", fsave(q))
          /\ fsa_get("ffop", fsave(p)) = fsa_get("ffop", fsave(q))
          /\ fsa_get("ffip", fsave(p)) = fsa_get("ffip", fsave(q))
          /\ fsa_get("ffdp", fsave(p)) = fsa_get("ffdp", fsave(q))
          /\ fsa_get("fcw", fsave(p)) = fsa_get("fcw", fsave(q))
          /\ fsa_get("ftw", fsave(p)) = fsa_get("ftw", fsave(q))
      BY <2>3, GettersRead
    <3> QED BY <3>1 DEF X87Status
  <2>5. CASE t = "x87_env"
    <3>1. cp = [f \in X87Status |-> fsa_get(f, fsave(p))] /\ cq = [f \in X87Status |-> fsa_get(f, fsave(q))]
      BY <2>5, FloatingIs
    <3> HIDE DEF cp, cq
    <3> QED BY <2>4, <3>1
  <2>6. CASE t \in {"ffop", "ffip", "ffdp"}
    <3>1. t \in X87Status
      BY <2>6 DEF X87Status
    <3>2. cp = fsa_get(t, fsave(p)) /\ cq = fsa_get(t, fsave(q))
      BY <3>1, FloatingIs
    <3> QED BY <2>4, <3>1, <3>2
  <2> QED BY <1>4, <2>5, <2>6
<1> QED BY <1>2, <1>3, <1>4 DEF X87Status

\* A check of the x87, MMX or SSE state.
LEMMA TruthFloating ==
  ASSUME NEW p, NEW q, FpuOK(p.fpu), FpuOK(q.fpu),
         NEW t \in X87Status \cup DOMAIN ST \cup DOMAIN MM \cup DOMAIN XMM \cup {"x87_env", "mxcsr"},
         t \in DOMAIN MM => p.fpu.top = 0 /\ q.fpu.top = 0
  PROVE  /\ Same(t, p, q) => Accepted(t, p, q)
         /\ t \notin {"ffop", "ffip", "ffdp", "x87_env"} => (Accepted(t, p, q) => Same(t, p, q))
<1> DEFINE cp == Compared(t, StateOf(p))
           cq == Compared(t, StateOf(q))
           vp == Covers(t, p)
           vq == Covers(t, q)
<1> SUFFICES /\ vp = vq => cp = cq
             /\ t \notin {"ffop", "ffip", "ffdp", "x87_env"} => (cp = cq => vp = vq)
  BY DEF Same, Accepted
<1>2. CASE t \in DOMAIN ST
  <2>1. /\ cp = p.fpu.r[(p.fpu.top + ST[t]) % 8] /\ cq = q.fpu.r[(q.fpu.top + ST[t]) % 8]
    BY <1>2, FloatingIs
  <2>2. /\ vp = p.fpu.r[(p.fpu.top + ST[t]) % 8] /\ vq = q.fpu.r[(q.fpu.top + ST[t]) % 8]
    BY <1>2, CoversIs
  <2> QED BY <2>1, <2>2
<1>3. CASE t \in DOMAIN MM
  <2>1. p.fpu.top = 0 /\ q.fpu.top = 0 /\ (0 + MM[t]) % 8 = MM[t]
    <3>1. MM[t] \in 0..7
      BY <1>3 DEF MM
    <3> QED BY <1>3, <3>1
  <2>2. cp = p.fpu.r[(p.fpu.top + MM[t]) % 8][1] /\ cq = q.fpu.r[(q.fpu.top + MM[t]) % 8][1]
    BY <1>3, FloatingIs
  <2>3. vp = p.fpu.r[MM[t]][1] /\ vq = q.fpu.r[MM[t]][1]
    BY <1>3, CoversIs
  <2>4. cp = p.fpu.r[MM[t]][1] /\ cq = q.fpu.r[MM[t]][1]
    BY <2>1, <2>2
  <2> QED BY <2>3, <2>4
<1>4. CASE t \in DOMAIN XMM
  <2>1. cp = p.xmm[XMM[t]] /\ cq = q.xmm[XMM[t]]
    BY <1>4, FloatingIs
  <2>2. vp = p.xmm[XMM[t]] /\ vq = q.xmm[XMM[t]]
    BY <1>4, CoversIs
  <2> QED BY <2>1, <2>2
<1>5. CASE t = "mxcsr"
  <2>1. cp = p.mxcsr /\ cq = q.mxcsr
    BY <1>5, FloatingIs
  <2>2. vp = p.mxcsr /\ vq = q.mxcsr
    BY <1>5, CoversIs
  <2> QED BY <2>1, <2>2
<1>6. CASE t \in X87Status \cup {"x87_env"}
  BY <1>6, TruthX87 DEF Same, Accepted
<1> QED BY <1>2, <1>3, <1>4, <1>5, <1>6

\* The last element of a sequence that is not empty.
LEMMA LastIs ==
  ASSUME NEW s, IsSeq(s), s # << >>
  PROVE  Len(s) \in Nat \ {0} /\ Last(s) = s[Len(s)]
<1>1. Len(s) # 0
  <2> SUFFICES ASSUME Len(s) = 0 PROVE FALSE
    OBVIOUS
  <2>1. s = [i \in 1..0 |-> s[i]]
    BY DEF IsSeq
  <2>2. [i \in 1..0 |-> s[i]] \in Seq({0}) /\ Len([i \in 1..0 |-> s[i]]) = 0
    OBVIOUS
  <2> QED BY <2>1, <2>2, EmptySeq
<1> QED BY <1>1 DEF IsSeq, Last

\* A sequence followed by one element.
LEMMA Followed ==
  ASSUME NEW s, IsSeq(s), NEW e
  PROVE  /\ IsSeq(s \o <<e>>) /\ Len(s \o <<e>>) = Len(s) + 1
         /\ \A k \in 1..Len(s) : (s \o <<e>>)[k] = s[k]
<1> DEFINE S == {s[k] : k \in 1..Len(s)} \cup {e}
           b == <<e>>
           n == Len(s)
<1>1. s \in Seq(S) /\ n \in Nat
  BY DEF IsSeq
<1>2. b \in Seq(S) /\ Len(b) = 1 /\ 1 \in Nat
  OBVIOUS
<1> HIDE DEF S, b, n
<1>3. Len(s) = n
  BY DEF n
<1>4. Stacked(S, s \o b, s, n, b, 1)
  BY <1>1, <1>2, <1>3, OnTop
<1>5. (s \o b) \in Seq(S) /\ Len(s \o b) = n + 1 /\ \A k \in 1..n : (s \o b)[k] = s[k]
  BY <1>4 DEF Stacked
<1>6. IsSeq(s \o b)
  BY <1>5, LenProperties DEF IsSeq
<1> QED BY <1>5, <1>6 DEF n, b

LEMMA ComparesInit == Init => EntriesOK /\ RecordOK /\ ReportsOK
<1> SUFFICES ASSUME Init PROVE EntriesOK /\ RecordOK /\ ReportsOK
  OBVIOUS
<1>1. seen[1] = << >> /\ seen[2] = << >> /\ Len(<< >>) = 0 /\ 1..0 = {}
  BY DEF Init
<1>2. EntriesOK
  BY <1>1 DEF Init, EntriesOK
<1>3. RecordOK
  BY DEF Init, RecordOK
<1>4. ReportsOK
  BY <1>1 DEF Init, ReportsOK
<1> QED BY <1>2, <1>3, <1>4

\* The script, between the runs.
LEMMA ComparesScript ==
  ASSUME Tests, ComparesOK, compile_asm \/ link_with_outputlib \/ link_with_checklib \/ safe_exit \/ Trap
  PROVE  EntriesOK' /\ RecordOK' /\ ReportsOK'
<1> USE DEF ComparesOK
<1>1. seen' = seen
  BY DEF compile_asm, link_with_outputlib, link_with_checklib, safe_exit, Trap, history, Start
<1>2. reports' = reports
  BY DEF compile_asm, link_with_outputlib, link_with_checklib, safe_exit, Trap
<1>3. (\A k : Differs(k)' = Differs(k)) /\ \A lines : Recorded(lines)' = Recorded(lines)
  BY <1>1 DEF Differs, Recorded
<1>4. (\A w \in {1, 2} : \A k \in 1..Len(seen[w]) : EntryOK(seen[w][k]))'
  BY <1>1 DEF EntriesOK
<1>5. /\ Len(reports) <= Len(seen[2])
      /\ \A k \in 1..Len(reports) : k <= Len(seen[1]) => reports[k] = Differs(k)
  BY DEF ReportsOK
<1>6. Len(reports') <= Len(seen'[2]) /\ \A k \in 1..Len(reports') : k <= Len(seen'[1]) => reports'[k] = Differs(k)'
  BY <1>1, <1>2, <1>3, <1>5
<1>7. ASSUME step' \notin {"record", "check"}, step' = "done" \/ reports = << >>
      PROVE  EntriesOK' /\ ReportsOK'
  <2>1. EntriesOK'
    BY <1>4, <1>7 DEF EntriesOK
  <2>2. ReportsOK'
    BY <1>2, <1>6, <1>7 DEF ReportsOK
  <2> QED BY <2>1, <2>2
<1>8. CASE compile_asm
  <2>1. step = "compile" /\ step' = "link1" /\ exe' = exe
    BY <1>8 DEF compile_asm
  <2>2. EntriesOK' /\ ReportsOK'
    BY <1>7, <2>1 DEF ReportsOK
  <2>3. RecordOK'
    BY <2>1 DEF RecordOK
  <2> QED BY <2>2, <2>3
<1>9. ASSUME NEW s, Start(s)
      PROVE  /\ phase' = "op" /\ step' = s /\ stdout' = << >> /\ FpuOK(m'.fpu)
             /\ Pending' = 0
  BY <1>9, FpuStarts DEF Start, Pending
<1>10. CASE link_with_outputlib
  <2>1. step = "link1" /\ reports = << >> /\ seen[1] = << >> /\ obj' = obj /\ exe' = IF obj THEN "own" ELSE exe
    BY <1>10 DEF link_with_outputlib, ReportsOK, MachineOK
  <2>2. exe' = "own" => obj
    BY <2>1 DEF RecordOK
  <2>3. CASE exe' = "own"
    <3>1. Start("record")
      BY <1>10, <2>3 DEF link_with_outputlib
    <3>2. EntriesOK'
      BY <1>4, <1>9, <3>1 DEF EntriesOK
    <3>3. IsSeq(<< >>) /\ Len(<< >>) = 0
      BY DEF IsSeq
    <3>4. RecordOK'
      BY <1>1, <1>9, <2>1, <2>2, <3>1, <3>3 DEF RecordOK, Recorded
    <3>5. ReportsOK'
      BY <1>2, <1>6, <1>9, <2>1, <3>1 DEF ReportsOK
    <3> QED BY <3>2, <3>4, <3>5
  <2>4. CASE exe' # "own"
    <3>1. step' \in {"link2", "done"} /\ ~obj
      BY <1>10, <2>1, <2>4 DEF link_with_outputlib
    <3>2. EntriesOK' /\ ReportsOK'
      BY <1>7, <2>1, <3>1
    <3>3. RecordOK'
      BY <2>1, <2>4, <3>1 DEF RecordOK
    <3> QED BY <3>2, <3>3
  <2> QED BY <2>3, <2>4
<1>11. CASE link_with_checklib
  <2>1. step = "link2" /\ reports = << >> /\ seen[2] = << >> /\ obj' = obj /\ exe' = exe
    BY <1>11 DEF link_with_checklib, ReportsOK, MachineOK
  <2>2. CASE obj
    <3>1. /\ Start("check")
          /\ output' = [k \in DOMAIN rst |-> Compiled(rst[k])] \o <<Zero>>
      BY <1>11, <2>2 DEF link_with_checklib
    <3>2. EntriesOK'
      BY <1>4, <1>9, <3>1 DEF EntriesOK
    <3>3. /\ IsSeq(rst) /\ Len(seen[1]) = Len(rst)
          /\ \A k \in 1..Len(rst) : rst[k] = Line(StateOf(seen[1][k].p))
      BY <2>1, <2>2 DEF RecordOK, Recorded
    <3>4. Len(rst) \in Nat /\ DOMAIN rst = 1..Len(rst)
      BY <3>3 DEF IsSeq
    <3> DEFINE all == [k \in 1..Len(rst) |-> Compiled(rst[k])]
    <3>5. Len(all) = Len(rst) /\ IsSeq(all)
      BY <3>4 DEF IsSeq
    <3>6. \A k \in 1..Len(rst) : all[k] = StateOf(seen[1][k].p)
      BY <3>3, ReadsBack
    <3>7. output' = all \o <<Zero>>
      BY <3>1, <3>4
    <3> HIDE DEF all
    <3>8. IsSeq(output') /\ Len(output') = Len(rst) + 1 /\ \A k \in 1..Len(rst) : output'[k] = all[k]
      BY <3>5, <3>7, Followed
    <3>9. RecordOK'
      <4>1. step' = "check"
        BY <1>9, <3>1
      <4>2. /\ IsSeq(output') /\ Len(output') = Len(seen'[1]) + 1
            /\ \A k \in 1..Len(seen'[1]) : output'[k] = StateOf(seen'[1][k].p)
        BY <1>1, <3>3, <3>6, <3>8
      <4> QED BY <2>1, <2>2, <4>1, <4>2 DEF RecordOK
    <3>10. ReportsOK'
      BY <1>1, <1>2, <1>6, <1>9, <2>1, <3>1 DEF ReportsOK
    <3> QED BY <3>2, <3>9, <3>10
  <2>3. CASE ~obj
    <3>1. step' = "done"
      BY <1>11, <2>3 DEF link_with_checklib
    <3>2. EntriesOK' /\ ReportsOK'
      BY <1>7, <3>1
    <3>3. RecordOK'
      BY <2>1, <3>1 DEF RecordOK
    <3> QED BY <3>2, <3>3
  <2> QED BY <2>2, <2>3
<1>12. CASE safe_exit
  <2>1. /\ running /\ exe' = exe /\ obj' = obj /\ step' = IF recording THEN "link2" ELSE "done"
        /\ rst' = IF recording THEN stdout ELSE rst
    BY <1>12 DEF safe_exit, Ended
  <2>2. CASE recording
    <3>1. step = "record" /\ step' = "link2" /\ rst' = stdout /\ phase = "op" /\ reports = << >>
      BY <2>1, <2>2 DEF recording, running, ReportsOK
    <3>2. EntriesOK' /\ ReportsOK'
      BY <1>7, <3>1
    <3>3. Recorded(stdout) /\ Len(seen[1]) = Len(stdout)
      BY <3>1 DEF RecordOK, Pending, Recorded, IsSeq
    <3>4. RecordOK'
      BY <1>1, <1>3, <2>1, <3>1, <3>3 DEF RecordOK
    <3> QED BY <3>2, <3>4
  <2>3. CASE ~recording
    <3>1. step' = "done"
      BY <2>1, <2>3
    <3>2. EntriesOK' /\ ReportsOK'
      BY <1>7, <3>1
    <3>3. RecordOK'
      BY <2>1, <3>1 DEF RecordOK
    <3> QED BY <3>2, <3>3
  <2> QED BY <2>2, <2>3
<1>13. CASE Trap
  <2>1. step' = "done" /\ exe' = exe /\ obj' = obj
    BY <1>13 DEF Trap, Ended
  <2>2. EntriesOK' /\ ReportsOK'
    BY <1>7, <2>1
  <2>3. RecordOK'
    BY <2>1 DEF RecordOK
  <2> QED BY <2>2, <2>3
<1> QED BY <1>8, <1>10, <1>11, <1>12, <1>13

\* An operation of the test.
LEMMA ComparesMoves ==
  ASSUME Tests, ComparesOK, Set \/ Skip
  PROVE  EntriesOK' /\ RecordOK' /\ ReportsOK'
<1> USE DEF ComparesOK
<1>1. /\ UNCHANGED <<step, phase, seen, reports, exe, obj, stdout, rst, output>>
      /\ running /\ ip \in DOMAIN prog /\ Latest' = Latest /\ Pending' = Pending
  BY DEF Set, Skip, files, Latest, Which, recording, Pending
<1>2. phase = "op" /\ step \in {"record", "check"} /\ FpuOK(m.fpu) /\ IsProc(m)
  BY <1>1 DEF running, EntriesOK, MachineOK
<1>3. FpuOK(m'.fpu)
  <2>1. CASE Skip
    BY <1>2, <2>1 DEF Skip
  <2>2. CASE Set
    <3>1. PICK v : m' = Written(m, prog[ip].at, v)
      BY <2>2 DEF Set
    <3>2. prog[ip].at \in Writable
      BY <1>1, <2>2, OperationIs DEF Set
    <3> QED BY <1>2, <3>1, <3>2, FpuWritten
  <2> QED BY <2>1, <2>2
<1>4. EntriesOK'
  BY <1>1, <1>2, <1>3 DEF EntriesOK
<1>5. RecordOK'
  BY <1>1 DEF RecordOK, Recorded
<1>6. ReportsOK'
  BY <1>1 DEF ReportsOK, Differs
<1> QED BY <1>4, <1>5, <1>6

\* A check point.
LEMMA ComparesChecks ==
  ASSUME Tests, ComparesOK, CheckMacro
  PROVE  EntriesOK' /\ RecordOK' /\ ReportsOK'
<1> USE DEF ComparesOK
<1> DEFINE e == [at |-> prog[ip].at, ip |-> ip, p |-> m, det |-> det]
<1>1. Working /\ IsProc(m) /\ ip \in DOMAIN prog /\ step \in {"record", "check"} /\ Which \in {1, 2} /\ FpuOK(m.fpu)
  BY DEF CheckMacro, running, MachineOK, Which, EntriesOK
<1>2. IsSeq(seen[1]) /\ IsSeq(seen[2]) /\ IsSeq(seen[Which]) /\ DOMAIN seen = {1, 2}
  BY <1>1 DEF MachineOK
<1>3. /\ seen'[Which] = Append(seen[Which], e) /\ \A w \in {1, 2} \ {Which} : seen'[w] = seen[w]
      /\ DOMAIN seen' = {1, 2}
  BY <1>1, <1>2 DEF CheckMacro
<1>4. /\ UNCHANGED <<step, prog, ip, reports, exe, obj, stdout, rst, output>> /\ phase' = "call" /\ Which' = Which
      /\ Pending = 0 /\ Pending' = 1
  BY DEF CheckMacro, files, Which, recording, Pending, running
<1>5. e.p = m /\ e.at = prog[ip].at
  OBVIOUS
<1>6. EntryOK(e)
  <2>1. prog[ip].at \in Checks
    BY <1>1, OperationIs DEF CheckMacro
  <2> QED BY <1>1, <1>5, <2>1 DEF EntryOK, Working
<1> HIDE DEF e
<1>7. /\ Len(seen'[Which]) = Len(seen[Which]) + 1 /\ seen'[Which] # << >> /\ Last(seen'[Which]) = e
      /\ seen'[Which][Len(seen[Which]) + 1] = e /\ \A k \in 1..Len(seen[Which]) : seen'[Which][k] = seen[Which][k]
  BY <1>2, <1>3, Grows
<1>8. Latest' = e
  BY <1>4, <1>7 DEF Latest
<1>9. m'.fxstate = [xmm |-> m.xmm, mxcsr |-> m.mxcsr]
  BY <1>1, Saves DEF CheckMacro, Working
<1>10. \A w \in {1, 2} : \A k \in 1..Len(seen'[w]) : EntryOK(seen'[w][k])
  <2> TAKE w \in {1, 2}
  <2> TAKE k \in 1..Len(seen'[w])
  <2>1. \A i \in 1..Len(seen[w]) : EntryOK(seen[w][i])
    BY DEF EntriesOK
  <2>2. CASE w # Which
    BY <1>3, <2>1, <2>2
  <2>3. CASE w = Which
    <3>1. k \in 1..Len(seen[w]) \/ k = Len(seen[w]) + 1
      BY <1>2, <1>7, <2>3 DEF IsSeq
    <3> QED BY <1>6, <1>7, <2>1, <2>3, <3>1
  <2> QED BY <2>2, <2>3
<1>11. EntriesOK'
  BY <1>4, <1>5, <1>8, <1>9, <1>10 DEF EntriesOK
<1>12. CASE step = "record"
  <2>1. Which = 1
    BY <1>12 DEF Which, recording
  <2>2. Recorded(stdout) /\ Len(seen[1]) = Len(stdout)
    BY <1>4, <1>12 DEF RecordOK, Recorded, IsSeq
  <2>3. Recorded(stdout)' /\ Len(seen'[1]) = Len(stdout') + Pending'
    <3>1. Len(seen'[1]) = Len(seen[1]) + 1 /\ \A k \in 1..Len(seen[1]) : seen'[1][k] = seen[1][k]
      BY <1>7, <2>1
    <3> QED BY <1>4, <2>2, <3>1 DEF Recorded, IsSeq
  <2>4. RecordOK'
    BY <1>4, <1>12, <2>3 DEF RecordOK
  <2>5. ReportsOK'
    <3>1. reports = << >> /\ Len(reports) = 0 /\ 1..0 = {}
      BY <1>12 DEF ReportsOK
    <3>2. 0 <= Len(seen'[2])
      BY <1>2, <1>3, <2>1 DEF IsSeq
    <3> QED BY <1>4, <1>12, <3>1, <3>2 DEF ReportsOK
  <2> QED BY <1>11, <2>4, <2>5
<1>13. CASE step = "check"
  <2>1. Which = 2 /\ seen'[1] = seen[1]
    BY <1>3, <1>13 DEF Which, recording
  <2>2. RecordOK'
    BY <1>4, <1>13, <2>1 DEF RecordOK
  <2>3. ReportsOK'
    <3>1. Len(seen'[2]) = Len(seen[2]) + 1 /\ \A k \in 1..Len(seen[2]) : seen'[2][k] = seen[2][k]
      BY <1>7, <2>1
    <3>2. Len(reports) \in Nat /\ Len(seen[2]) = Len(reports) /\ Len(seen'[2]) = Len(reports') + Pending'
      <4>1. Len(reports) \in Nat
        BY DEF MachineOK, IsSeq
      <4>2. Len(seen[2]) = Len(reports)
        BY <1>4, <1>13, <4>1 DEF ReportsOK
      <4> QED BY <1>4, <3>1, <4>1, <4>2
    <3>3. \A k \in 1..Len(reports) : Differs(k)' = Differs(k)
      BY <2>1, <3>1, <3>2 DEF Differs
    <3>4. Len(reports') <= Len(seen'[2])
      BY <1>4, <3>1, <3>2
    <3>5. \A k \in 1..Len(reports') : k <= Len(seen'[1]) => reports'[k] = Differs(k)'
      BY <1>4, <2>1, <3>3 DEF ReportsOK
    <3> QED BY <1>4, <1>13, <3>2, <3>4, <3>5 DEF ReportsOK
  <2> QED BY <1>11, <2>2, <2>3
<1> QED BY <1>1, <1>12, <1>13

\* What the check function is called with.
LEMMA CalledWith ==
  ASSUME ComparesOK, phase = "call"
  PROVE  /\ State(m) = StateOf(Latest.p) /\ Latest.at = prog[ip].at
         /\ Len(seen[Which]) \in Nat \ {0} /\ Latest = seen[Which][Len(seen[Which])]
<1>1. step \in {"record", "check"} /\ Calling
  BY DEF ComparesOK, MachineOK
<1>2. m.fxstate = [xmm |-> Latest.p.xmm, mxcsr |-> Latest.p.mxcsr] /\ Latest.at = prog[ip].at
  BY <1>1 DEF ComparesOK, EntriesOK
<1>3. IsSeq(seen[Which]) /\ seen[Which] # << >>
  BY <1>1 DEF ComparesOK, MachineOK, Which, Calling
<1> QED BY <1>1, <1>2, <1>3, Handed, LastIs DEF Calling, Latest

\* outputlib.c
LEMMA ComparesPrints ==
  ASSUME Tests, ComparesOK, PrintState
  PROVE  EntriesOK' /\ RecordOK' /\ ReportsOK'
<1> USE DEF ComparesOK
<1>1. /\ phase = "call" /\ phase' = "back" /\ recording /\ Which = 1 /\ UNCHANGED <<step, prog, ip, seen, exe, obj, rst, output, reports>>
      /\ Latest' = Latest /\ step = "record" /\ stdout' = Append(stdout, Printed(m)) /\ Pending = 1 /\ Pending' = 0
  BY DEF PrintState, files, history, Which, recording, Latest, Pending
<1>2. EntriesOK'
  BY <1>1 DEF EntriesOK
<1>3. ReportsOK'
  BY <1>1 DEF ReportsOK, Differs
<1>4. /\ IsSeq(stdout) /\ Len(seen[1]) = Len(stdout) + 1
      /\ \A k \in 1..Len(stdout) : stdout[k] = Line(StateOf(seen[1][k].p))
  BY <1>1 DEF RecordOK, Recorded
<1>5. Printed(m) = Line(StateOf(seen[1][Len(stdout) + 1].p))
  <2>1. Printed(m) = Line(State(m))
    BY Zenon DEF Printed, Line
  <2> QED BY <1>1, <1>4, <2>1, CalledWith
<1>6. /\ IsSeq(stdout') /\ Len(stdout') = Len(stdout) + 1 /\ stdout'[Len(stdout) + 1] = Printed(m)
      /\ \A k \in 1..Len(stdout) : stdout'[k] = stdout[k]
  BY <1>1, <1>4, Grows
<1>7. \A k \in 1..Len(stdout') : stdout'[k] = Line(StateOf(seen[1][k].p))
  <2> TAKE k \in 1..Len(stdout')
  <2>1. k \in 1..Len(stdout) \/ k = Len(stdout) + 1
    BY <1>4, <1>6 DEF IsSeq
  <2> QED BY <1>4, <1>5, <1>6, <2>1
<1>8. RecordOK'
  <2>1. Len(stdout') <= Len(seen[1]) /\ Len(seen[1]) = Len(stdout') + 0
    BY <1>4, <1>6 DEF IsSeq
  <2> QED BY <1>1, <1>6, <1>7, <2>1 DEF RecordOK, Recorded
<1> QED BY <1>2, <1>3, <1>8

\* checklib.c
LEMMA ComparesCompares ==
  ASSUME Tests, ComparesOK, ComparePoint
  PROVE  EntriesOK' /\ RecordOK' /\ ReportsOK'
<1> USE DEF ComparesOK
<1>1. /\ phase = "call" /\ phase' = "back" /\ UNCHANGED <<step, prog, ip, seen, exe, obj, rst, output, stdout>>
      /\ Latest' = Latest /\ Pending = 1 /\ Pending' = 0
  BY DEF ComparePoint, files, history, Which, recording, Latest, Pending
<1>2. step = "check" /\ Which = 2
  BY <1>1 DEF ComparePoint, MachineOK, Which, recording
<1>3. EntriesOK'
  BY <1>1 DEF EntriesOK
<1>4. RecordOK'
  BY <1>1, <1>2 DEF RecordOK
<1>5. /\ IsSeq(reports) /\ Len(reports) \in Nat /\ point = Len(reports) /\ Len(seen[2]) = Len(reports) + 1
      /\ IsSeq(seen[1]) /\ Len(seen[1]) \in Nat
  BY <1>1, <1>2 DEF ReportsOK, MachineOK, IsSeq
<1> DEFINE t == prog[ip].at
           e == Compared(t, State(m)) # Compared(t, Expected)
           n == Len(reports) + 1
<1>6. reports' = Append(reports, e)
  BY DEF ComparePoint
<1>7. n <= Len(seen[1]) => e = Differs(n)
  <2> SUFFICES ASSUME n <= Len(seen[1]) PROVE e = Differs(n)
    OBVIOUS
  <2>1. Expected = StateOf(seen[1][n].p)
    <3>1. Len(output) = Len(seen[1]) + 1 /\ \A k \in 1..Len(seen[1]) : output[k] = StateOf(seen[1][k].p)
      BY <1>2 DEF RecordOK
    <3>2. point + 1 <= Len(output) /\ n \in 1..Len(seen[1])
      BY <1>5, <3>1
    <3> QED BY <1>5, <3>1, <3>2 DEF Expected
  <2>2. State(m) = StateOf(seen[2][n].p) /\ seen[2][n].at = t
    BY <1>1, <1>2, <1>5, CalledWith
  <2> QED BY <2>1, <2>2 DEF Differs
<1> HIDE DEF e
<1>8. /\ Len(reports') = Len(reports) + 1 /\ reports'[n] = e
      /\ \A k \in 1..Len(reports) : reports'[k] = reports[k]
  BY <1>5, <1>6, Grows
<1>9. \A k : Differs(k)' = Differs(k)
  BY <1>1 DEF Differs
<1>10. \A k \in 1..Len(reports') : k <= Len(seen'[1]) => reports'[k] = Differs(k)'
  <2> TAKE k \in 1..Len(reports')
  <2>1. k \in 1..Len(reports) \/ k = n
    BY <1>5, <1>8
  <2>2. k \in 1..Len(reports) /\ k <= Len(seen[1]) => reports[k] = Differs(k)
    BY DEF ReportsOK
  <2> QED BY <1>1, <1>7, <1>8, <1>9, <2>1, <2>2
<1>11. ReportsOK'
  <2>1. Len(seen'[2]) = Len(reports') + Pending' /\ Len(reports') <= Len(seen'[2])
    BY <1>1, <1>5, <1>8
  <2> QED BY <1>1, <1>2, <1>10, <2>1 DEF ReportsOK
<1> QED BY <1>3, <1>4, <1>11

\* The end of the macro.
LEMMA ComparesReturns ==
  ASSUME Tests, ComparesOK, CheckMacroEnds
  PROVE  EntriesOK' /\ RecordOK' /\ ReportsOK'
<1> USE DEF ComparesOK
<1>1. /\ phase = "back" /\ phase' = "op" /\ UNCHANGED <<step, prog, seen, exe, obj, rst, output, stdout, reports>>
      /\ Latest' = Latest /\ Pending = 0 /\ Pending' = 0 /\ m' = check_macro_restore(m)
  BY DEF CheckMacroEnds, files, history, Which, recording, Latest, Pending
<1>2. step \in {"record", "check"} /\ Calling /\ IsProc(m)
  BY <1>1 DEF MachineOK
<1>3. m'.fpu = Latest.p.fpu
  BY <1>1, <1>2, Restores DEF Calling
<1>4. EntryOK(Latest)
  <2>1. IsSeq(seen[Which]) /\ seen[Which] # << >> /\ Which \in {1, 2}
    BY <1>2 DEF MachineOK, Which, Calling
  <2>2. Len(seen[Which]) \in Nat \ {0} /\ Latest = seen[Which][Len(seen[Which])]
    BY <2>1, LastIs DEF Latest
  <2> QED BY <2>1, <2>2 DEF EntriesOK
<1>5. EntriesOK'
  BY <1>1, <1>3, <1>4 DEF EntriesOK, EntryOK
<1>6. RecordOK'
  BY <1>1 DEF RecordOK, Recorded
<1>7. ReportsOK'
  BY <1>1 DEF ReportsOK, Differs
<1> QED BY <1>5, <1>6, <1>7

LEMMA ComparesStutters ==
  ASSUME ComparesOK, UNCHANGED vars
  PROVE  EntriesOK' /\ RecordOK' /\ ReportsOK'
BY DEF ComparesOK, EntriesOK, RecordOK, ReportsOK, vars, Latest, Which, recording, Pending, Differs, Recorded

\* Every report is the comparison of what was recorded and what was found.
THEOREM ComparesAlways == ASSUME Tests PROVE Spec => []ComparesOK
<1>1. Init => ComparesOK
  BY MachineInit, ComparesInit DEF ComparesOK
<1>2. ComparesOK /\ [Next]_vars => ComparesOK'
  <2> SUFFICES ASSUME ComparesOK, [Next]_vars PROVE ComparesOK'
    OBVIOUS
  <2>1. MachineOK
    BY DEF ComparesOK
  <2>2. MachineOK'
    BY <2>1, MachineScript, MachineMoves, MachineChecks, MachineCalls, MachineReturns, MachineStutters DEF Next
  <2>3. EntriesOK' /\ RecordOK' /\ ReportsOK'
    BY ComparesScript, ComparesMoves, ComparesChecks, ComparesPrints, ComparesCompares, ComparesReturns, ComparesStutters DEF Next
  <2> QED BY <2>2, <2>3 DEF ComparesOK
<1> QED BY <1>1, <1>2, PTL DEF Spec

\* A check reports a difference exactly where there is one (checklib.c).
LEMMA Truthful == ASSUME ComparesOK PROVE ReportsTruly
<1> SUFFICES ASSUME NEW k \in DOMAIN reports \cap DOMAIN seen[1],
                    seen[2][k].at \in DOMAIN MM => seen[1][k].p.fpu.top = 0 /\ seen[2][k].p.fpu.top = 0
             PROVE  /\ Same(seen[2][k].at, seen[1][k].p, seen[2][k].p) => ~reports[k]
                    /\ ~Same(seen[2][k].at, seen[1][k].p, seen[2][k].p) =>
                         (seen[2][k].at \notin {"ffop", "ffip", "ffdp", "x87_env"} => reports[k])
  BY DEF ReportsTruly, Same
<1> DEFINE t == seen[2][k].at
           p == seen[1][k].p
           q == seen[2][k].p
<1>1. /\ DOMAIN reports = 1..Len(reports) /\ DOMAIN seen[1] = 1..Len(seen[1]) /\ Len(reports) \in Nat
      /\ Len(seen[1]) \in Nat /\ Len(seen[2]) \in Nat
  BY DEF ComparesOK, MachineOK, IsSeq
<1>2. k \in 1..Len(reports) /\ k \in 1..Len(seen[1]) /\ k \in 1..Len(seen[2])
  BY <1>1 DEF ComparesOK, ReportsOK
<1>3. reports[k] = (Compared(t, StateOf(q)) # Compared(t, StateOf(p)))
  BY <1>2 DEF ComparesOK, ReportsOK, Differs
<1>4. EntryOK(seen[1][k]) /\ EntryOK(seen[2][k])
  BY <1>2 DEF ComparesOK, EntriesOK
<1>5. p.stack = << >> /\ q.stack = << >> /\ FpuOK(p.fpu) /\ FpuOK(q.fpu) /\ t \in Checks
  BY <1>4 DEF EntryOK
<1>6. t \in DOMAIN MM => p.fpu.top = 0 /\ q.fpu.top = 0
  OBVIOUS
<1> HIDE DEF t, p, q
<1>7. /\ Same(t, p, q) => Accepted(t, p, q)
      /\ t \notin {"ffop", "ffip", "ffdp", "x87_env"} => (Accepted(t, p, q) => Same(t, p, q))
  <2>1. CASE t \in DOMAIN Low \cup DOMAIN High \cup DOMAIN Word \cup Segments \cup GPR \cup {"esp", "eflags", "x86_state"}
    BY <1>5, <2>1, TruthRegisters
  <2>2. CASE t \in X87Status \cup DOMAIN ST \cup DOMAIN MM \cup DOMAIN XMM \cup {"x87_env", "mxcsr"}
    BY <1>5, <1>6, <2>2, TruthFloating
  <2> QED BY <1>5, <2>1, <2>2 DEF Checks
<1>8. reports[k] <=> ~Accepted(t, p, q)
  BY <1>3 DEF Accepted
<1> QED BY <1>7, <1>8 DEF t, p, q

-----------------------------------------------------------------------------
(* The run that the test determines, and the two runs beside it.           *)

\* A step of the test where every instruction computes what it should.
Ideal(P, c) ==
  LET o == P[c.ip]
  IN IF o.op = "set" THEN [ip |-> c.ip + 1, p |-> Written(c.p, o.at, Val(1)), det |-> c.det \cup {o.at}, seen |-> c.seen]
     ELSE IF o.op = "skip" THEN [ip |-> c.ip + IF c.p.reg[o.at][1] = 1 THEN 2 ELSE 1, p |-> c.p, det |-> c.det, seen |-> c.seen]
     ELSE [ip |-> c.ip + 1, p |-> c.p, det |-> c.det \ DOMAIN XMM,
           seen |-> Append(c.seen, [at |-> o.at, ip |-> c.ip, p |-> c.p, det |-> c.det])]

IdealStart == [ip |-> 1, p |-> init_regs(0), det |-> InitiallySet, seen |-> << >>]

\* The first n steps.
IsPath(P, f, n) ==
  /\ f[0] = IdealStart
  /\ \A i \in 0..(n - 1) : f[i].ip \in DOMAIN P /\ P[f[i].ip].op # "trap" /\ f[i + 1] = Ideal(P, f[i])

XmmOK(x) == x = [i \in 0..7 |-> x[i]]

\* Two processors with the same contents in what is determined.
Agree(p, q, d) ==
  /\ p.fpu = q.fpu /\ p.mxcsr = q.mxcsr /\ XmmOK(p.xmm) /\ XmmOK(q.xmm)
  /\ \A r \in d \cap Registers : p.reg[r] = q.reg[r]
  /\ \A t \in d \cap DOMAIN XMM : p.xmm[XMM[t]] = q.xmm[XMM[t]]

\* Check points at the same places of processors that agree.
Alike(s, t) ==
  /\ Len(s) = Len(t)
  /\ \A k \in 1..Len(s) : s[k].at = t[k].at /\ s[k].det = t[k].det /\ Agree(s[k].p, t[k].p, s[k].det)

\* The run is where c is.
Beside(c, i, p, d, s) == c.ip = i /\ c.det = d /\ Agree(p, c.p, d) /\ Alike(s, c.seen)

Complete(P, c, s) == c.ip = Len(P) + 1 /\ Alike(s, c.seen)

\* A run before operation i that has done what the test determines, and one at its end.
Near(P, i, p, d, s) == \E n \in Nat : \E f : IsPath(P, f, n) /\ Beside(f[n], i, p, d, s)
Finished(P, s) == \E n \in Nat : \E f : IsPath(P, f, n) /\ Complete(P, f[n], s)

\* Where the run is or, during a call, will be.
Reached == IF phase = "op" THEN Near(prog, ip, m, det, seen[Which]) ELSE Near(prog, ip + 1, Latest.p, det \ DOMAIN XMM, seen[Which])

DetOK ==
  /\ "esp" \notin det /\ \A k \in 1..Len(seen[2]) : "esp" \notin seen[2][k].det
  /\ phase = "back" => XmmOK(m.xmm)

\* Check points of the second run and those of the first one at the same places.
Matched(s, t) ==
  /\ Len(s) <= Len(t)
  /\ \A k \in 1..Len(s) : t[k].at = s[k].at /\ Agree(t[k].p, s[k].p, s[k].det)

\* The comparing run uses the entries of its own check points.
Paired == Matched(seen[2], seen[1]) /\ (seen[2] # << >> => Len(output) = Len(seen[1]) + 1)

PathOK ==
  ~fault /\ ~lost =>
    /\ step \in {"record", "check"} => Reached
    /\ step = "check" \/ (step = "link2" /\ obj) => Finished(prog, seen[1])
    /\ Paired

ChecksBefore(P, i) == {k \in DOMAIN P : k < i /\ P[k].op = "check"}

CountOK ==
  (\A i \in DOMAIN prog : prog[i].op # "skip") =>
    /\ step = "record" => Len(seen[1]) = Cardinality(ChecksBefore(prog, IF phase = "op" THEN ip ELSE ip + 1))
    /\ step = "check" \/ (step = "link2" /\ obj) => Len(seen[1]) = Cardinality({i \in DOMAIN prog : prog[i].op = "check"})

\* The fields after a step, by operation.
LEMMA IdealIs ==
  ASSUME NEW P, NEW c
  PROVE  LET o == P[c.ip]  d == Ideal(P, c)
         IN /\ o.op = "set" => /\ d.ip = c.ip + 1 /\ d.p = Written(c.p, o.at, Val(1))
                               /\ d.det = c.det \cup {o.at} /\ d.seen = c.seen
            /\ o.op = "skip" => /\ d.ip = c.ip + IF c.p.reg[o.at][1] = 1 THEN 2 ELSE 1
                                /\ d.p = c.p /\ d.det = c.det /\ d.seen = c.seen
            /\ o.op # "set" /\ o.op # "skip" =>
                 /\ d.ip = c.ip + 1 /\ d.p = c.p /\ d.det = c.det \ DOMAIN XMM
                 /\ d.seen = Append(c.seen, [at |-> o.at, ip |-> c.ip, p |-> c.p, det |-> c.det])
<1> DEFINE o == P[c.ip]
           d == Ideal(P, c)
           w == Written(c.p, o.at, Val(1))
           e == Append(c.seen, [at |-> o.at, ip |-> c.ip, p |-> c.p, det |-> c.det])
<1>1. o.op = "set" => d = [ip |-> c.ip + 1, p |-> w, det |-> c.det \cup {o.at}, seen |-> c.seen]
  BY DEF Ideal
<1>2. o.op = "skip" => d = [ip |-> c.ip + IF c.p.reg[o.at][1] = 1 THEN 2 ELSE 1, p |-> c.p, det |-> c.det, seen |-> c.seen]
  BY DEF Ideal
<1>3. o.op # "set" /\ o.op # "skip" => d = [ip |-> c.ip + 1, p |-> c.p, det |-> c.det \ DOMAIN XMM, seen |-> e]
  BY DEF Ideal
<1> HIDE DEF o, d, w, e
<1>4. /\ o.op = "set" => d.ip = c.ip + 1 /\ d.p = w /\ d.det = c.det \cup {o.at} /\ d.seen = c.seen
      /\ o.op = "skip" => /\ d.ip = c.ip + IF c.p.reg[o.at][1] = 1 THEN 2 ELSE 1
                          /\ d.p = c.p /\ d.det = c.det /\ d.seen = c.seen
      /\ o.op # "set" /\ o.op # "skip" => d.ip = c.ip + 1 /\ d.p = c.p /\ d.det = c.det \ DOMAIN XMM /\ d.seen = e
  BY <1>1, <1>2, <1>3
<1> QED BY <1>4 DEF o, d, w, e

\* A path goes on at an operation that the processor does not refuse.
LEMMA PathExtends ==
  ASSUME NEW P, NEW f, NEW n \in Nat, IsPath(P, f, n), f[n].ip \in DOMAIN P, P[f[n].ip].op # "trap"
  PROVE  \E g : IsPath(P, g, n + 1) /\ g[n + 1] = Ideal(P, f[n])
<1> DEFINE g == [i \in 0..(n + 1) |-> IF i <= n THEN f[i] ELSE Ideal(P, f[n])]
<1>1. \A i \in 0..n : g[i] = f[i]
  OBVIOUS
<1>2. g[n + 1] = Ideal(P, f[n])
  OBVIOUS
<1> HIDE DEF g
<1>3. 0 \in 0..n /\ g[0] = IdealStart
  BY <1>1 DEF IsPath
<1>4. ASSUME NEW i \in 0..((n + 1) - 1)
      PROVE  g[i].ip \in DOMAIN P /\ P[g[i].ip].op # "trap" /\ g[i + 1] = Ideal(P, g[i])
  <2>1. CASE i = n
    <3>1. g[i] = f[n] /\ g[i + 1] = Ideal(P, f[n])
      BY <1>1, <1>2, <2>1
    <3> QED BY <3>1
  <2>2. CASE i # n
    <3>1. i \in 0..(n - 1) /\ i \in 0..n /\ i + 1 \in 0..n
      BY <2>2
    <3>2. f[i].ip \in DOMAIN P /\ P[f[i].ip].op # "trap" /\ f[i + 1] = Ideal(P, f[i])
      BY <3>1 DEF IsPath
    <3> QED BY <1>1, <3>1, <3>2
  <2> QED BY <2>1, <2>2
<1>5. IsPath(P, g, n + 1)
  BY <1>3, <1>4 DEF IsPath
<1> QED BY <1>2, <1>5

\* There is one path.
LEMMA PathsAgree ==
  ASSUME NEW P, NEW f, NEW n \in Nat, IsPath(P, f, n), NEW g, NEW k \in Nat, IsPath(P, g, k), k <= n
  PROVE  \A i \in 0..k : g[i] = f[i]
<1> DEFINE S == {i \in 0..k : g[i] = f[i]}
<1>1. 0 \in S
  BY DEF IsPath
<1>2. ASSUME NEW i \in 0..(k - 1), i \in S PROVE i + 1 \in S
  <2>1. i \in 0..(n - 1) /\ i + 1 \in 0..k /\ g[i] = f[i]
    BY <1>2
  <2>2. g[i + 1] = Ideal(P, g[i]) /\ f[i + 1] = Ideal(P, f[i])
    BY <2>1, <1>2 DEF IsPath
  <2> QED BY <2>1, <2>2
<1>3. \A i \in 0..(k - 1) : i \in S => i + 1 \in S
  BY <1>2
<1> HIDE DEF S
<1>4. \A i \in 0..k : i \in S
  BY <1>1, <1>3, IntervalInduction
<1> QED BY <1>4 DEF S

\* No path goes on behind the end of the test.
LEMMA EndIsLast ==
  ASSUME NEW P \in Seq(Operation), NEW f, NEW n \in Nat, IsPath(P, f, n), f[n].ip = Len(P) + 1,
         NEW g, NEW k \in Nat, IsPath(P, g, k)
  PROVE  k <= n
<1> SUFFICES ASSUME n < k PROVE FALSE
  OBVIOUS
<1>1. g[n] = f[n]
  <2>1. n <= k /\ n \in 0..n
    OBVIOUS
  <2>2. \A i \in 0..n : f[i] = g[i]
    BY <2>1, PathsAgree
  <2> QED BY <2>1, <2>2
<1>2. g[n].ip \in DOMAIN P
  <2>1. n \in 0..(k - 1)
    OBVIOUS
  <2> QED BY <2>1 DEF IsPath
<1>3. DOMAIN P = 1..Len(P) /\ Len(P) \in Nat
  BY LenProperties
<1> QED BY <1>1, <1>2, <1>3

\* s comes first in t.
Begins(s, t) == Len(s) \in Nat /\ Len(s) <= Len(t) /\ \A k \in 1..Len(s) : s[k] = t[k]

\* What holds along the path.
PathGood(c) == IsProc(c.p) /\ IsSeq(c.seen)

LEMMA PathStep ==
  ASSUME NEW P, IsTest(P), NEW c, PathGood(c), c.ip \in DOMAIN P
  PROVE  PathGood(Ideal(P, c)) /\ Begins(c.seen, Ideal(P, c).seen)
<1> DEFINE o == P[c.ip]
           d == Ideal(P, c)
<1>1. o.op = "set" => o.at \in Writable
  <2>1. o \in Operation
    BY ElementOfSeq, LenProperties DEF IsTest
  <2> QED BY <2>1 DEF Operation
<1> HIDE DEF o, d
<1>2. Len(c.seen) \in Nat
  BY DEF PathGood, IsSeq
<1>3. CASE o.op = "set"
  <2>1. d.p = Written(c.p, o.at, Val(1)) /\ d.seen = c.seen
    BY <1>3, IdealIs DEF o, d
  <2>2. SameStack(c.p, d.p)
    BY <1>1, <1>3, <2>1, WritesNoStack DEF PathGood
  <2> QED BY <1>2, <2>1, <2>2 DEF PathGood, SameStack, Begins, d
<1>4. CASE o.op = "skip"
  <2>1. d.p = c.p /\ d.seen = c.seen
    BY <1>4, IdealIs DEF o, d
  <2> QED BY <1>2, <2>1 DEF PathGood, Begins, d
<1>5. CASE o.op # "set" /\ o.op # "skip"
  <2> DEFINE e == [at |-> o.at, ip |-> c.ip, p |-> c.p, det |-> c.det]
  <2>1. d.p = c.p /\ d.seen = Append(c.seen, e)
    BY <1>5, IdealIs DEF o, d
  <2> HIDE DEF e
  <2>2. IsSeq(d.seen) /\ Len(d.seen) = Len(c.seen) + 1 /\ \A k \in 1..Len(c.seen) : d.seen[k] = c.seen[k]
    BY <2>1, Grows DEF PathGood
  <2>3. Begins(c.seen, d.seen)
    BY <1>2, <2>2 DEF Begins
  <2> QED BY <2>1, <2>2, <2>3 DEF PathGood, d
<1> QED BY <1>3, <1>4, <1>5

LEMMA PathIsGood ==
  ASSUME NEW P, IsTest(P), NEW f, NEW n \in Nat, IsPath(P, f, n)
  PROVE  \A i \in 0..n : PathGood(f[i]) /\ \A j \in 0..i : Begins(f[j].seen, f[i].seen)
<1> DEFINE S == {i \in 0..n : PathGood(f[i]) /\ \A j \in 0..i : Begins(f[j].seen, f[i].seen)}
<1>1. 0 \in S
  <2>1. f[0] = IdealStart
    BY DEF IsPath
  <2>2. f[0].p = init_regs(0) /\ f[0].seen = << >>
    BY <2>1 DEF IdealStart
  <2>3. IsSeq(<< >>) /\ Begins(<< >>, << >>)
    BY DEF IsSeq, Begins
  <2>4. PathGood(f[0])
    BY <2>2, <2>3, Starts DEF PathGood
  <2>5. \A j \in 0..0 : Begins(f[j].seen, f[0].seen)
    BY <2>2, <2>3
  <2> QED BY <2>4, <2>5
<1>2. ASSUME NEW i \in 0..(n - 1), i \in S PROVE i + 1 \in S
  <2>1. f[i].ip \in DOMAIN P /\ f[i + 1] = Ideal(P, f[i]) /\ i + 1 \in 0..n
    BY DEF IsPath
  <2>2. PathGood(f[i]) /\ \A j \in 0..i : Begins(f[j].seen, f[i].seen)
    BY <1>2
  <2>3. PathGood(f[i + 1]) /\ Begins(f[i].seen, f[i + 1].seen)
    BY <2>1, <2>2, PathStep
  <2>4. ASSUME NEW j \in 0..(i + 1) PROVE Begins(f[j].seen, f[i + 1].seen)
    <3>1. CASE j = i + 1
      BY <2>3, <3>1 DEF Begins, PathGood, IsSeq
    <3>2. CASE j # i + 1
      <4>1. j \in 0..i
        BY <3>2
      <4>2. /\ Len(f[j].seen) <= Len(f[i].seen) /\ \A k \in 1..Len(f[j].seen) : f[j].seen[k] = f[i].seen[k]
            /\ Len(f[i].seen) <= Len(f[i + 1].seen) /\ \A k \in 1..Len(f[i].seen) : f[i].seen[k] = f[i + 1].seen[k]
        BY <2>2, <2>3, <4>1 DEF Begins
      <4>3. Len(f[i].seen) \in Nat /\ Len(f[i + 1].seen) \in Nat
        BY <2>2, <2>3 DEF PathGood, IsSeq
      <4>4. Len(f[j].seen) \in Nat /\ Len(f[j].seen) <= Len(f[i + 1].seen)
        <5>1. Len(f[j].seen) \in Nat
          <6>1. Begins(f[j].seen, f[i].seen)
            BY <2>2, <4>1
          <6> QED BY <6>1 DEF Begins
        <5>2. Len(f[j].seen) <= Len(f[i].seen) /\ Len(f[i].seen) <= Len(f[i + 1].seen)
          BY <4>2
        <5> DEFINE a == Len(f[j].seen)
                   b == Len(f[i].seen)
                   d == Len(f[i + 1].seen)
        <5>3. a \in Nat /\ b \in Nat /\ d \in Nat /\ a <= b /\ b <= d
          BY <4>3, <5>1, <5>2
        <5> HIDE DEF a, b, d
        <5>4. a \in Nat /\ a <= d
          BY <5>3
        <5> QED BY <5>4 DEF a, d
      <4>5. ASSUME NEW k \in 1..Len(f[j].seen) PROVE f[j].seen[k] = f[i + 1].seen[k]
        <5>1. k \in 1..Len(f[i].seen)
          BY <4>2, <4>3, <4>4
        <5> QED BY <4>2, <5>1
      <4> QED BY <4>4, <4>5 DEF Begins
    <3> QED BY <3>1, <3>2
  <2> QED BY <2>1, <2>3, <2>4
<1>3. \A i \in 0..(n - 1) : i \in S => i + 1 \in S
  BY <1>2
<1> HIDE DEF S
<1>4. \A i \in 0..n : i \in S
  BY <1>1, <1>3, IntervalInduction
<1> QED BY <1>4 DEF S

\* The parts that an instruction of the test writes.
WritesRegister(p, at, v, q) ==
  /\ q.reg = [p.reg EXCEPT ![at] = v]
  /\ q.fpu = p.fpu /\ q.xmm = p.xmm /\ q.mxcsr = p.mxcsr
WritesFloating(p, fpu, q) ==
  /\ q.fpu = fpu
  /\ q.reg = p.reg /\ q.xmm = p.xmm /\ q.mxcsr = p.mxcsr
WritesVector(p, at, v, q) ==
  /\ q.xmm = [p.xmm EXCEPT ![XMM[at]] = <<v[1], v[2]>>]
  /\ q.reg = p.reg /\ q.fpu = p.fpu /\ q.mxcsr = p.mxcsr
WritesControl(p, v, q) ==
  /\ q.mxcsr = <<v[1]>>
  /\ q.reg = p.reg /\ q.fpu = p.fpu /\ q.xmm = p.xmm

\* An instruction of the test writes the part of the processor its operand is in.
LEMMA WrittenIs ==
  ASSUME NEW p, IsProc(p), NEW at \in Writable, NEW v
  PROVE  /\ at \in GPR \cup {"eflags"} => WritesRegister(p, at, v, Written(p, at, v))
         /\ at = "fld" => WritesFloating(p, fld(p.fpu, v), Written(p, at, v))
         /\ at = "fldcw" => WritesFloating(p, [p.fpu EXCEPT !.fcw = <<v[1]>>], Written(p, at, v))
         /\ at \in DOMAIN MM => WritesFloating(p, movd(p.fpu, MM[at], v), Written(p, at, v))
         /\ at \in DOMAIN XMM => WritesVector(p, at, v, Written(p, at, v))
         /\ at = "mxcsr" => WritesControl(p, v, Written(p, at, v))
<1> DEFINE q == Written(p, at, v)
<1>1. ASSUME NEW w PROVE LET z == [p EXCEPT !.reg = w] IN z.reg = w /\ z.fpu = p.fpu /\ z.xmm = p.xmm /\ z.mxcsr = p.mxcsr
  BY Assigned, Parts
<1>2. ASSUME NEW w PROVE LET z == [p EXCEPT !.fpu = w] IN z.reg = p.reg /\ z.fpu = w /\ z.xmm = p.xmm /\ z.mxcsr = p.mxcsr
  BY Assigned, Parts
<1>3. ASSUME NEW w PROVE LET z == [p EXCEPT !.xmm = w] IN z.reg = p.reg /\ z.fpu = p.fpu /\ z.xmm = w /\ z.mxcsr = p.mxcsr
  BY Assigned, Parts
<1>4. ASSUME NEW w PROVE LET z == [p EXCEPT !.mxcsr = w] IN z.reg = p.reg /\ z.fpu = p.fpu /\ z.xmm = p.xmm /\ z.mxcsr = w
  BY Assigned, Parts
<1>5. CASE at \in GPR \cup {"eflags"}
  <2>1. at # "fld" /\ at # "fldcw" /\ at \notin DOMAIN MM /\ at \notin DOMAIN XMM /\ at # "mxcsr"
    BY <1>5 DEF GPR, MM, XMM
  <2> DEFINE w == [p.reg EXCEPT ![at] = v]
  <2>2. q = [p EXCEPT !.reg = w]
    BY <1>5, <2>1, Zenon DEF Written
  <2> HIDE DEF q, w
  <2>3. q.reg = w /\ q.fpu = p.fpu /\ q.xmm = p.xmm /\ q.mxcsr = p.mxcsr
    BY <1>1, <2>2
  <2> QED BY <2>1, <2>3 DEF w, q, WritesRegister
<1>6. CASE at = "fld"
  <2>1. at \notin GPR \cup {"eflags"} /\ at # "fldcw" /\ at \notin DOMAIN MM /\ at \notin DOMAIN XMM /\ at # "mxcsr"
    BY <1>6 DEF GPR, MM, XMM
  <2> DEFINE w == fld(p.fpu, v)
  <2>2. q = [p EXCEPT !.fpu = w]
    BY <1>6, <2>1, Zenon DEF Written
  <2> HIDE DEF q, w
  <2>3. q.reg = p.reg /\ q.fpu = w /\ q.xmm = p.xmm /\ q.mxcsr = p.mxcsr
    BY <1>2, <2>2
  <2> QED BY <2>1, <2>3 DEF w, q, WritesFloating
<1>7. CASE at = "fldcw"
  <2>1. at \notin GPR \cup {"eflags"} /\ at # "fld" /\ at \notin DOMAIN MM /\ at \notin DOMAIN XMM /\ at # "mxcsr"
    BY <1>7 DEF GPR, MM, XMM
  <2> DEFINE w == [p.fpu EXCEPT !.fcw = <<v[1]>>]
  <2>2. q = [p EXCEPT !.fpu = w]
    BY <1>7, <2>1, Zenon DEF Written
  <2> HIDE DEF q, w
  <2>3. q.reg = p.reg /\ q.fpu = w /\ q.xmm = p.xmm /\ q.mxcsr = p.mxcsr
    BY <1>2, <2>2
  <2> QED BY <2>1, <2>3 DEF w, q, WritesFloating
<1>8. CASE at \in DOMAIN MM
  <2>1. at \notin GPR \cup {"eflags"} /\ at # "fld" /\ at # "fldcw" /\ at \notin DOMAIN XMM /\ at # "mxcsr"
    BY <1>8 DEF GPR, MM, XMM
  <2> DEFINE w == movd(p.fpu, MM[at], v)
  <2>2. q = [p EXCEPT !.fpu = w]
    BY <1>8, <2>1, Zenon DEF Written
  <2> HIDE DEF q, w
  <2>3. q.reg = p.reg /\ q.fpu = w /\ q.xmm = p.xmm /\ q.mxcsr = p.mxcsr
    BY <1>2, <2>2
  <2> QED BY <2>1, <2>3 DEF w, q, WritesFloating
<1>9. CASE at \in DOMAIN XMM
  <2>1. at \notin GPR \cup {"eflags"} /\ at # "fld" /\ at # "fldcw" /\ at \notin DOMAIN MM /\ at # "mxcsr"
    BY <1>9 DEF GPR, MM, XMM
  <2> DEFINE w == [p.xmm EXCEPT ![XMM[at]] = <<v[1], v[2]>>]
  <2>2. q = [p EXCEPT !.xmm = w]
    BY <1>9, <2>1, Zenon DEF Written
  <2> HIDE DEF q, w
  <2>3. q.reg = p.reg /\ q.fpu = p.fpu /\ q.xmm = w /\ q.mxcsr = p.mxcsr
    BY <1>3, <2>2
  <2> QED BY <2>1, <2>3 DEF w, q, WritesVector
<1>10. CASE at = "mxcsr"
  <2>1. at \notin GPR \cup {"eflags"} /\ at # "fld" /\ at # "fldcw" /\ at \notin DOMAIN MM /\ at \notin DOMAIN XMM
    BY <1>10 DEF GPR, MM, XMM
  <2> DEFINE w == <<v[1]>>
  <2>2. q = [p EXCEPT !.mxcsr = w]
    BY <1>10, <2>1, Zenon DEF Written
  <2> HIDE DEF q, w
  <2>3. q.reg = p.reg /\ q.fpu = p.fpu /\ q.xmm = p.xmm /\ q.mxcsr = w
    BY <1>4, <2>2
  <2> QED BY <2>1, <2>3 DEF w, q, WritesControl
<1> QED BY <1>5, <1>6, <1>7, <1>8, <1>9, <1>10 DEF Writable

\* The same instruction on two processors that agree.
LEMMA AgreeWritten ==
  ASSUME NEW p, IsProc(p), NEW q, IsProc(q), NEW d, Agree(p, q, d), NEW at \in Writable, NEW v
  PROVE  Agree(Written(p, at, v), Written(q, at, v), d \cup {at})
<1> DEFINE a == Written(p, at, v)
           b == Written(q, at, v)
<1>1. /\ p.fpu = q.fpu /\ p.mxcsr = q.mxcsr /\ XmmOK(p.xmm) /\ XmmOK(q.xmm)
      /\ \A r \in d \cap Registers : p.reg[r] = q.reg[r]
      /\ \A t \in d \cap DOMAIN XMM : p.xmm[XMM[t]] = q.xmm[XMM[t]]
  BY DEF Agree
<1>2. CASE at \in GPR \cup {"eflags"}
  <2>1. /\ a.reg = [p.reg EXCEPT ![at] = v] /\ a.fpu = p.fpu /\ a.xmm = p.xmm /\ a.mxcsr = p.mxcsr
        /\ b.reg = [q.reg EXCEPT ![at] = v] /\ b.fpu = q.fpu /\ b.xmm = q.xmm /\ b.mxcsr = q.mxcsr
    <3>1. WritesRegister(p, at, v, a) /\ WritesRegister(q, at, v, b)
      BY <1>2, WrittenIs
    <3> HIDE DEF a, b
    <3> QED BY <3>1 DEF WritesRegister
  <2>2. DOMAIN p.reg = Registers /\ DOMAIN q.reg = Registers /\ at \notin DOMAIN XMM
    BY <1>2 DEF IsProc, IsRegs, GPR, XMM
  <2> HIDE DEF a, b
  <2>3. \A r \in (d \cup {at}) \cap Registers : a.reg[r] = b.reg[r]
    BY <1>1, <2>1, <2>2
  <2>4. \A t \in (d \cup {at}) \cap DOMAIN XMM : a.xmm[XMM[t]] = b.xmm[XMM[t]]
    BY <1>1, <2>1, <2>2
  <2>5. Agree(a, b, d \cup {at})
    BY <1>1, <2>1, <2>3, <2>4 DEF Agree
  <2> QED BY <2>5 DEF a, b
<1>3. CASE at \in {"fld", "fldcw", "mxcsr"} \cup DOMAIN MM
  <2>1. /\ a.reg = p.reg /\ b.reg = q.reg /\ a.xmm = p.xmm /\ b.xmm = q.xmm /\ a.fpu = b.fpu /\ a.mxcsr = b.mxcsr
    <3>1. CASE at = "fld"
      <4>1. WritesFloating(p, fld(p.fpu, v), a) /\ WritesFloating(q, fld(q.fpu, v), b)
        BY <3>1, WrittenIs
      <4> HIDE DEF a, b
      <4> QED BY <1>1, <4>1 DEF WritesFloating
    <3>2. CASE at = "fldcw"
      <4> DEFINE f == [p.fpu EXCEPT !.fcw = <<v[1]>>]
                 g == [q.fpu EXCEPT !.fcw = <<v[1]>>]
      <4>1. WritesFloating(p, f, a) /\ WritesFloating(q, g, b)
        BY <3>2, WrittenIs
      <4>2. f = g
        BY <1>1
      <4> HIDE DEF a, b, f, g
      <4> QED BY <1>1, <4>1, <4>2 DEF WritesFloating
    <3>3. CASE at = "mxcsr"
      <4>1. WritesControl(p, v, a) /\ WritesControl(q, v, b)
        BY <3>3, WrittenIs
      <4> HIDE DEF a, b
      <4> QED BY <1>1, <4>1 DEF WritesControl
    <3>4. CASE at \in DOMAIN MM
      <4>1. WritesFloating(p, movd(p.fpu, MM[at], v), a) /\ WritesFloating(q, movd(q.fpu, MM[at], v), b)
        BY <3>4, WrittenIs
      <4> HIDE DEF a, b
      <4> QED BY <1>1, <4>1 DEF WritesFloating
    <3> QED BY <1>3, <3>1, <3>2, <3>3, <3>4
  <2>2. at \notin Registers /\ at \notin DOMAIN XMM
    BY <1>3 DEF Registers, GPR, Segments, MM, XMM
  <2> HIDE DEF a, b
  <2>3. Agree(a, b, d \cup {at})
    BY <1>1, <2>1, <2>2 DEF Agree
  <2> QED BY <2>3 DEF a, b
<1>4. CASE at \in DOMAIN XMM
  <2> DEFINE w == <<v[1], v[2]>>
             i == XMM[at]
  <2>1. /\ a.reg = p.reg /\ a.fpu = p.fpu /\ a.xmm = [p.xmm EXCEPT ![i] = w] /\ a.mxcsr = p.mxcsr
        /\ b.reg = q.reg /\ b.fpu = q.fpu /\ b.xmm = [q.xmm EXCEPT ![i] = w] /\ b.mxcsr = q.mxcsr
    <3>1. WritesVector(p, at, v, a) /\ WritesVector(q, at, v, b)
      BY <1>4, WrittenIs
    <3> HIDE DEF a, b
    <3> QED BY <3>1 DEF WritesVector
  <2>2. at \notin Registers /\ \A t \in DOMAIN XMM : XMM[t] \in 0..7
    BY <1>4 DEF Registers, GPR, Segments, XMM
  <2> HIDE DEF a, b, w
  <2>3. i \in 0..7
    BY <1>4, <2>2
  <2> HIDE DEF i
  <2>4. XmmOK(a.xmm) /\ XmmOK(b.xmm)
    BY <1>1, <2>1 DEF XmmOK
  <2>5. DOMAIN p.xmm = 0..7 /\ DOMAIN q.xmm = 0..7
    BY <1>1 DEF XmmOK
  <2>6. \A t \in (d \cup {at}) \cap DOMAIN XMM : a.xmm[XMM[t]] = b.xmm[XMM[t]]
    <3> TAKE t \in (d \cup {at}) \cap DOMAIN XMM
    <3>1. XMM[t] \in 0..7
      BY <2>2
    <3>2. CASE XMM[t] = i
      BY <2>1, <2>3, <2>5, <3>2
    <3>3. CASE XMM[t] # i
      <4>1. t \in d
        BY <3>3 DEF i
      <4> QED BY <1>1, <2>1, <2>5, <3>1, <3>3, <4>1
    <3> QED BY <3>2, <3>3
  <2>7. Agree(a, b, d \cup {at})
    BY <1>1, <2>1, <2>2, <2>4, <2>6 DEF Agree
  <2> QED BY <2>7 DEF a, b
<1> QED BY <1>2, <1>3, <1>4 DEF Writable

\* Two programs that start.
LEMMA AgreeStart ==
  ASSUME NEW j
  PROVE  Agree(init_regs(j), init_regs(0), InitiallySet)
<1> DEFINE regs == [i \in 0..7 |-> <<0, 0>>]
           raw(k) == [fcw |-> <<k>>, fsw |-> <<k>>, top |-> 0, ftw |-> <<k>>, fip |-> <<k, k>>, fop |-> <<k>>, fdp |-> <<k, k>>,
                      r |-> regs]
           blank == [fcw |-> <<0>>, fsw |-> <<0>>, top |-> 0, ftw |-> <<0>>, fip |-> <<0, 0>>, fop |-> <<0>>, fdp |-> <<0, 0>>,
                     r |-> regs]
<1>1. ASSUME NEW k
      PROVE  /\ init_regs(k).fpu = blank /\ init_regs(k).mxcsr = <<0>> /\ init_regs(k).xmm = [i \in 0..7 |-> <<k, k>>]
             /\ init_regs(k).reg = [r \in Registers |-> IF r \in {"ebp", "gs"} THEN Val(k) ELSE Val(0)]
  <2> DEFINE reg == [r \in Registers |-> IF r \in {"ebp", "gs"} THEN Val(k) ELSE Val(0)]
             xmm == [i \in 0..7 |-> <<k, k>>]
             fx == [xmm |-> [i \in 0..7 |-> <<0, 0>>], mxcsr |-> <<0>>]
             f == raw(k)
             b1 == [f EXCEPT !.fcw = <<0>>]
             b2 == [b1 EXCEPT !.fsw = <<0>>]
             b3 == [b2 EXCEPT !.top = 0]
             b4 == [b3 EXCEPT !.ftw = <<0>>]
             b5 == [b4 EXCEPT !.fip = <<0, 0>>]
             b6 == [b5 EXCEPT !.fop = <<0>>]
             b7 == [b6 EXCEPT !.fdp = <<0, 0>>]
  <2>1. init_regs(k) = Processor(reg, k, << >>, fninit(f), xmm, <<0>>, fx)
    BY Zenon DEF init_regs, Processor, Registers
  <2>2. fninit(f) = b7
    BY Zenon DEF fninit
  <2>3. f = raw(k)
    OBVIOUS
  <2> HIDE DEF regs
  <2>4. b7 = blank
    <3>1. b1 = [fcw |-> <<0>>, fsw |-> <<k>>, top |-> 0, ftw |-> <<k>>, fip |-> <<k, k>>, fop |-> <<k>>, fdp |-> <<k, k>>, r |-> regs]
      OBVIOUS
    <3> HIDE DEF b1
    <3>2. b2 = [fcw |-> <<0>>, fsw |-> <<0>>, top |-> 0, ftw |-> <<k>>, fip |-> <<k, k>>, fop |-> <<k>>, fdp |-> <<k, k>>, r |-> regs]
      BY <3>1
    <3> HIDE DEF b2
    <3>3. b3 = [fcw |-> <<0>>, fsw |-> <<0>>, top |-> 0, ftw |-> <<k>>, fip |-> <<k, k>>, fop |-> <<k>>, fdp |-> <<k, k>>, r |-> regs]
      BY <3>2
    <3> HIDE DEF b3
    <3>4. b4 = [fcw |-> <<0>>, fsw |-> <<0>>, top |-> 0, ftw |-> <<0>>, fip |-> <<k, k>>, fop |-> <<k>>, fdp |-> <<k, k>>, r |-> regs]
      BY <3>3
    <3> HIDE DEF b4
    <3>5. b5 = [fcw |-> <<0>>, fsw |-> <<0>>, top |-> 0, ftw |-> <<0>>, fip |-> <<0, 0>>, fop |-> <<k>>, fdp |-> <<k, k>>, r |-> regs]
      BY <3>4
    <3> HIDE DEF b5
    <3>6. b6 = [fcw |-> <<0>>, fsw |-> <<0>>, top |-> 0, ftw |-> <<0>>, fip |-> <<0, 0>>, fop |-> <<0>>, fdp |-> <<k, k>>, r |-> regs]
      BY <3>5
    <3> HIDE DEF b6
    <3>7. b7 = blank
      BY <3>6
    <3> QED BY <3>7
  <2> HIDE DEF reg, xmm, fx, f, b7, blank
  <2>5. init_regs(k).fpu = blank /\ init_regs(k).mxcsr = <<0>> /\ init_regs(k).xmm = xmm /\ init_regs(k).reg = reg
    BY <2>1, <2>2, <2>4, Parts
  <2> QED BY <2>5 DEF reg, xmm
<1> HIDE DEF blank
<1>2. XmmOK(init_regs(j).xmm) /\ XmmOK(init_regs(0).xmm)
  BY <1>1 DEF XmmOK
<1>3. \A r \in InitiallySet \cap Registers : init_regs(j).reg[r] = init_regs(0).reg[r]
  <2>1. "ebp" \notin InitiallySet
    BY DEF InitiallySet, GPR, Segments, Env
  <2>2. "gs" \notin InitiallySet
    BY DEF InitiallySet, GPR, Segments, Env
  <2>3. \A r \in Registers \ {"ebp", "gs"} : init_regs(j).reg[r] = Val(0)
    <3>1. init_regs(j).reg = [r \in Registers |-> IF r \in {"ebp", "gs"} THEN Val(j) ELSE Val(0)]
      BY <1>1, Zenon
    <3> TAKE r \in Registers \ {"ebp", "gs"}
    <3> QED BY <3>1
  <2>4. \A r \in Registers \ {"ebp", "gs"} : init_regs(0).reg[r] = Val(0)
    <3>1. init_regs(0).reg = [r \in Registers |-> IF r \in {"ebp", "gs"} THEN Val(0) ELSE Val(0)]
      BY <1>1, Zenon
    <3> TAKE r \in Registers \ {"ebp", "gs"}
    <3> QED BY <3>1
  <2> QED BY <2>1, <2>2, <2>3, <2>4
<1>4. \A t \in DOMAIN XMM : t \notin InitiallySet
  BY DEF InitiallySet, GPR, Segments, Env, XMM
<1> QED BY <1>1, <1>2, <1>3, <1>4 DEF Agree

\* What agrees in more agrees in less, and both ways; agreement is passed on.
LEMMA AgreeLess ==
  ASSUME NEW p, NEW q, NEW d, Agree(p, q, d), NEW e, e \subseteq d
  PROVE  Agree(p, q, e) /\ Agree(q, p, e)
BY DEF Agree

LEMMA AgreeBoth ==
  ASSUME NEW p, NEW q, NEW z, NEW d, Agree(p, z, d), Agree(q, z, d)
  PROVE  Agree(p, q, d)
BY DEF Agree

\* A check of something determined finds no difference.
LEMMA NoDifference ==
  ASSUME NEW p, NEW q, p.stack = << >>, q.stack = << >>, NEW d, Agree(p, q, d), "esp" \notin d,
         NEW t \in Checks, Locations(t) \subseteq d
  PROVE  Accepted(t, p, q)
<1>1. /\ p.fpu = q.fpu /\ p.mxcsr = q.mxcsr
      /\ \A r \in d \cap Registers : p.reg[r] = q.reg[r]
      /\ \A n \in d \cap DOMAIN XMM : p.xmm[XMM[n]] = q.xmm[XMM[n]]
  BY DEF Agree
<1>2. CASE t \in DOMAIN Low \cup DOMAIN High \cup DOMAIN Word \cup Segments \cup GPR \cup {"esp", "eflags", "x86_state"}
  <2>1. SUFFICES Same(t, p, q)
    BY <1>2, TruthRegisters
  <2>2. CASE t \in DOMAIN Low
    <3>1. Low[t] \in d \cap Registers
      <4>1. Low[t] \in d
        BY <2>2, LocationsIs
      <4> QED BY <2>2, <4>1 DEF Low, Registers, GPR
    <3> QED BY <1>1, <2>2, <3>1, CoversIs DEF Same
  <2>3. CASE t \in DOMAIN High
    <3>1. High[t] \in d \cap Registers
      <4>1. High[t] \in d
        BY <2>3, LocationsIs
      <4> QED BY <2>3, <4>1 DEF High, Registers, GPR
    <3> QED BY <1>1, <2>3, <3>1, CoversIs DEF Same
  <2>4. CASE t \in DOMAIN Word
    <3>1. Word[t] \in d
      BY <2>4, LocationsIs
    <3>2. t # "sp" /\ Word[t] \in Registers
      BY <2>4, <3>1 DEF Word, Registers, GPR
    <3> QED BY <1>1, <2>4, <3>1, <3>2, CoversIs DEF Same
  <2>5. CASE t \in Segments
    <3>1. t \in d \cap Registers
      BY <2>5, LocationsIs DEF Registers
    <3> QED BY <1>1, <2>5, <3>1, CoversIs DEF Same
  <2>6. CASE t \in GPR \cup {"eflags"}
    <3>1. t \in d \cap Registers
      BY <2>6, LocationsIs DEF Registers
    <3> QED BY <1>1, <2>6, <3>1, CoversIs DEF Same
  <2>7. CASE t = "esp"
    <3>1. Locations(t) = {t}
      BY <2>7, LocationsIs
    <3> QED BY <2>7, <3>1
  <2>8. CASE t = "x86_state"
    <3>1. Locations(t) = (GPR \ {"ebp"}) \cup (Segments \ {"gs"}) \cup {"eflags"}
      BY <2>8, LocationsIs
    <3>2. \A r \in Locations(t) : p.reg[r] = q.reg[r]
      BY <1>1, <3>1 DEF Registers
    <3>3. Covers(t, p) = [r \in Locations(t) |-> p.reg[r]] /\ Covers(t, q) = [r \in Locations(t) |-> q.reg[r]]
      BY <2>8, CoversIs
    <3> QED BY <3>2, <3>3 DEF Same
  <2> QED BY <1>2, <2>2, <2>3, <2>4, <2>5, <2>6, <2>7, <2>8
<1>3. CASE t \in X87Status \cup DOMAIN ST \cup DOMAIN MM \cup {"x87_env"}
  <2>1. fsave(p) = fsave(q)
    BY <1>1 DEF fsave
  <2>2. CASE t \in DOMAIN ST
    BY <1>1, <2>2, FloatingIs DEF Accepted
  <2>3. CASE t \in DOMAIN MM
    BY <1>1, <2>3, FloatingIs DEF Accepted
  <2>4. CASE t \in X87Status
    BY <2>1, <2>4, FloatingIs DEF Accepted
  <2>5. CASE t = "x87_env"
    BY <2>1, <2>5, FloatingIs DEF Accepted
  <2> QED BY <1>3, <2>2, <2>3, <2>4, <2>5
<1>4. CASE t \in DOMAIN XMM
  <2>1. t \in d
    BY <1>4, LocationsIs
  <2> QED BY <1>1, <1>4, <2>1, FloatingIs DEF Accepted
<1>5. CASE t = "mxcsr"
  BY <1>1, <1>5, FloatingIs DEF Accepted
<1> QED BY <1>2, <1>3, <1>4, <1>5 DEF Checks


\* The next check points of two runs that are alike.
LEMMA AlikeGrows ==
  ASSUME NEW s, IsSeq(s), NEW t, IsSeq(t), Alike(s, t), NEW e, NEW x, e.at = x.at, e.det = x.det, Agree(e.p, x.p, e.det)
  PROVE  Alike(Append(s, e), Append(t, x))
<1> DEFINE a == Append(s, e)
           b == Append(t, x)
<1>1. /\ Len(a) = Len(s) + 1 /\ a[Len(s) + 1] = e /\ \A k \in 1..Len(s) : a[k] = s[k]
      /\ Len(b) = Len(t) + 1 /\ b[Len(t) + 1] = x /\ \A k \in 1..Len(t) : b[k] = t[k]
  BY Grows
<1>2. Len(s) = Len(t) /\ Len(s) \in Nat
  BY DEF Alike, IsSeq
<1> HIDE DEF a, b
<1>3. ASSUME NEW k \in 1..Len(a) PROVE a[k].at = b[k].at /\ a[k].det = b[k].det /\ Agree(a[k].p, b[k].p, a[k].det)
  <2>1. CASE k = Len(s) + 1
    <3>1. a[k] = e /\ b[k] = x
      BY <1>1, <1>2, <2>1
    <3> QED BY <3>1
  <2>2. CASE k # Len(s) + 1
    <3>1. k \in 1..Len(s)
      BY <1>1, <1>2, <2>2
    <3>2. a[k] = s[k] /\ b[k] = t[k]
      BY <1>1, <1>2, <3>1
    <3> QED BY <3>1, <3>2 DEF Alike
  <2> QED BY <2>1, <2>2
<1>4. Alike(a, b)
  BY <1>1, <1>2, <1>3 DEF Alike
<1> QED BY <1>4 DEF a, b

\* A program that starts.
LEMMA NearStart ==
  ASSUME NEW P, NEW j
  PROVE  Near(P, 1, init_regs(j), InitiallySet, << >>)
<1> DEFINE f == [i \in {0} |-> IdealStart]
<1>1. IsPath(P, f, 0)
  <2>1. f[0] = IdealStart /\ 0..(0 - 1) = {}
    OBVIOUS
  <2> HIDE DEF f
  <2> QED BY <2>1 DEF IsPath
<1>2. f[0].ip = 1 /\ f[0].det = InitiallySet /\ f[0].p = init_regs(0) /\ f[0].seen = << >>
  BY DEF IdealStart
<1> HIDE DEF f
<1>3. Alike(<< >>, << >>)
  BY DEF Alike
<1>4. Beside(f[0], 1, init_regs(j), InitiallySet, << >>)
  BY <1>2, <1>3, AgreeStart DEF Beside
<1> QED BY <1>1, <1>4 DEF Near

\* The end of a path and the step behind it.
LEMMA NearGoesOn ==
  ASSUME NEW P, IsTest(P), NEW i \in DOMAIN P, P[i].op # "trap", NEW p, NEW d, NEW s, Near(P, i, p, d, s)
  PROVE  \E c : /\ Beside(c, i, p, d, s) /\ PathGood(c)
                /\ \A j, q, e, t : Beside(Ideal(P, c), j, q, e, t) => Near(P, j, q, e, t)
<1>1. PICK n \in Nat : \E f : IsPath(P, f, n) /\ Beside(f[n], i, p, d, s)
  BY DEF Near
<1>2. PICK f : IsPath(P, f, n) /\ Beside(f[n], i, p, d, s)
  BY <1>1
<1>3. PathGood(f[n])
  <2>1. n \in 0..n
    OBVIOUS
  <2> QED BY <1>2, <2>1, PathIsGood
<1>4. f[n].ip = i
  BY <1>2 DEF Beside
<1>5. PICK g : IsPath(P, g, n + 1) /\ g[n + 1] = Ideal(P, f[n])
  BY <1>2, <1>4, PathExtends
<1>6. ASSUME NEW j, NEW q, NEW e, NEW t, Beside(Ideal(P, f[n]), j, q, e, t)
      PROVE  Near(P, j, q, e, t)
  <2>1. n + 1 \in Nat /\ Beside(g[n + 1], j, q, e, t)
    BY <1>5, <1>6
  <2> QED BY <1>5, <2>1 DEF Near
<1> QED BY <1>2, <1>3, <1>6

\* An instruction of the test.
LEMMA NearSet ==
  ASSUME NEW P, IsTest(P), NEW i \in DOMAIN P, P[i].op = "set", P[i].at \in Writable,
         NEW p, IsProc(p), NEW d, NEW s, Near(P, i, p, d, s)
  PROVE  Near(P, i + 1, Written(p, P[i].at, Val(1)), d \cup {P[i].at}, s)
<1>1. PICK c : /\ Beside(c, i, p, d, s) /\ PathGood(c)
               /\ \A j, q, e, t : Beside(Ideal(P, c), j, q, e, t) => Near(P, j, q, e, t)
  BY NearGoesOn
<1>2. c.ip = i /\ c.det = d /\ Agree(p, c.p, d) /\ Alike(s, c.seen) /\ IsProc(c.p)
  BY <1>1 DEF Beside, PathGood
<1> DEFINE x == Ideal(P, c)
           at == P[i].at
<1>3. x.ip = i + 1 /\ x.p = Written(c.p, at, Val(1)) /\ x.det = d \cup {at} /\ x.seen = c.seen
  BY <1>2, IdealIs
<1>4. Agree(Written(p, at, Val(1)), Written(c.p, at, Val(1)), d \cup {at})
  BY <1>2, AgreeWritten
<1> HIDE DEF x
<1>5. Beside(x, i + 1, Written(p, at, Val(1)), d \cup {at}, s)
  BY <1>2, <1>3, <1>4 DEF Beside
<1> QED BY <1>1, <1>5 DEF x

\* A jump that the test determines.
LEMMA NearSkip ==
  ASSUME NEW P, IsTest(P), NEW i \in DOMAIN P, P[i].op = "skip", P[i].at \in GPR,
         NEW p, NEW d, P[i].at \in d, NEW s, Near(P, i, p, d, s)
  PROVE  Near(P, i + IF p.reg[P[i].at][1] = 1 THEN 2 ELSE 1, p, d, s)
<1>1. PICK c : /\ Beside(c, i, p, d, s) /\ PathGood(c)
               /\ \A j, q, e, t : Beside(Ideal(P, c), j, q, e, t) => Near(P, j, q, e, t)
  BY NearGoesOn
<1>2. c.ip = i /\ c.det = d /\ Agree(p, c.p, d) /\ Alike(s, c.seen)
  BY <1>1 DEF Beside
<1> DEFINE x == Ideal(P, c)
           at == P[i].at
           k == i + IF p.reg[at][1] = 1 THEN 2 ELSE 1
<1>3. p.reg[at] = c.p.reg[at]
  BY <1>2 DEF Agree, Registers
<1>4. x.ip = k /\ x.p = c.p /\ x.det = d /\ x.seen = c.seen
  <2>1. P[c.ip] = P[i] /\ P[c.ip].op = "skip"
    BY <1>2
  <2>2. x.ip = c.ip + IF c.p.reg[P[c.ip].at][1] = 1 THEN 2 ELSE 1
    BY <2>1, IdealIs
  <2>3. x.p = c.p /\ x.det = c.det /\ x.seen = c.seen
    BY <2>1, IdealIs
  <2> HIDE DEF x
  <2>4. x.ip = i + IF c.p.reg[at][1] = 1 THEN 2 ELSE 1
    BY <1>2, <2>2
  <2> QED BY <1>2, <1>3, <2>3, <2>4
<1> HIDE DEF x, k
<1>5. Beside(x, k, p, d, s)
  BY <1>2, <1>4 DEF Beside
<1>6. Near(P, k, p, d, s)
  BY <1>1, <1>5 DEF x
<1> QED BY <1>6 DEF k

\* A check point.
LEMMA NearCheck ==
  ASSUME NEW P, IsTest(P), NEW i \in DOMAIN P, P[i].op = "check",
         NEW p, NEW d, NEW s, IsSeq(s), Near(P, i, p, d, s)
  PROVE  Near(P, i + 1, p, d \ DOMAIN XMM, Append(s, [at |-> P[i].at, ip |-> i, p |-> p, det |-> d]))
<1>1. PICK c : /\ Beside(c, i, p, d, s) /\ PathGood(c)
               /\ \A j, q, e, t : Beside(Ideal(P, c), j, q, e, t) => Near(P, j, q, e, t)
  BY NearGoesOn
<1>2. c.ip = i /\ c.det = d /\ Agree(p, c.p, d) /\ Alike(s, c.seen) /\ IsSeq(c.seen)
  BY <1>1 DEF Beside, PathGood
<1> DEFINE x == Ideal(P, c)
           e == [at |-> P[i].at, ip |-> i, p |-> p, det |-> d]
           z == [at |-> P[i].at, ip |-> i, p |-> c.p, det |-> d]
<1>3. x.ip = i + 1 /\ x.p = c.p /\ x.det = d \ DOMAIN XMM /\ x.seen = Append(c.seen, z)
  BY <1>2, IdealIs
<1>4. e.at = z.at /\ e.det = z.det /\ e.det = d /\ e.p = p /\ z.p = c.p
  OBVIOUS
<1> HIDE DEF x, e, z
<1>5. Alike(Append(s, e), Append(c.seen, z))
  BY <1>2, <1>4, AlikeGrows
<1>6. Agree(p, c.p, d \ DOMAIN XMM)
  BY <1>2, AgreeLess
<1>7. Beside(x, i + 1, p, d \ DOMAIN XMM, Append(s, e))
  BY <1>3, <1>5, <1>6 DEF Beside
<1> QED BY <1>1, <1>7 DEF x, e

\* A processor that differs in the XMM registers only.
LEMMA NearElse ==
  ASSUME NEW P, NEW i, NEW p, NEW d, d \cap DOMAIN XMM = {}, NEW s, Near(P, i, p, d, s),
         NEW q, q.reg = p.reg, q.fpu = p.fpu, q.mxcsr = p.mxcsr, XmmOK(q.xmm)
  PROVE  Near(P, i, q, d, s)
<1>1. PICK n \in Nat : \E f : IsPath(P, f, n) /\ Beside(f[n], i, p, d, s)
  BY DEF Near
<1>2. PICK f : IsPath(P, f, n) /\ Beside(f[n], i, p, d, s)
  BY <1>1
<1>3. Agree(q, f[n].p, d)
  BY <1>2 DEF Beside, Agree
<1>4. Beside(f[n], i, q, d, s)
  BY <1>2, <1>3 DEF Beside
<1> QED BY <1>2, <1>4 DEF Near

\* The end of a run.
LEMMA NearEnd ==
  ASSUME NEW P, NEW p, NEW d, NEW s, Near(P, Len(P) + 1, p, d, s)
  PROVE  Finished(P, s)
BY DEF Near, Finished, Beside, Complete

\* A run beside a finished one.
LEMMA Pairs ==
  ASSUME NEW P, IsTest(P), NEW i, NEW p, NEW d, NEW s, Near(P, i, p, d, s), NEW t, Finished(P, t)
  PROVE  Matched(s, t)
<1>1. PICK k \in Nat : \E g : IsPath(P, g, k) /\ Beside(g[k], i, p, d, s)
  BY DEF Near
<1>2. PICK g : IsPath(P, g, k) /\ Beside(g[k], i, p, d, s)
  BY <1>1
<1>3. PICK n \in Nat : \E f : IsPath(P, f, n) /\ Complete(P, f[n], t)
  BY DEF Finished
<1>4. PICK f : IsPath(P, f, n) /\ Complete(P, f[n], t)
  BY <1>3
<1>5. k <= n
  <2>1. P \in Seq(Operation) /\ f[n].ip = Len(P) + 1
    BY <1>4 DEF IsTest, Complete
  <2> QED BY <1>2, <1>4, <2>1, EndIsLast
<1>6. g[k] = f[k]
  <2>1. k \in 0..k
    OBVIOUS
  <2> QED BY <1>2, <1>4, <1>5, <2>1, PathsAgree
<1>7. Begins(f[k].seen, f[n].seen)
  <2>1. n \in 0..n /\ k \in 0..n
    BY <1>5
  <2> QED BY <1>4, <2>1, PathIsGood
<1> DEFINE a == f[k].seen
           b == f[n].seen
<1>8. Alike(s, a) /\ Alike(t, b)
  BY <1>2, <1>4, <1>6 DEF Beside, Complete
<1> HIDE DEF a, b
<1>9. Len(a) \in Nat /\ Len(a) <= Len(b) /\ (\A j \in 1..Len(a) : a[j] = b[j]) /\ Len(s) = Len(a) /\ Len(t) = Len(b)
  BY <1>7, <1>8 DEF Begins, Alike, a, b
<1>10. Len(s) <= Len(t)
  BY <1>9
<1>11. ASSUME NEW j \in 1..Len(s) PROVE t[j].at = s[j].at /\ Agree(t[j].p, s[j].p, s[j].det)
  <2>1. j \in 1..Len(a) /\ a[j] = b[j]
    BY <1>9
  <2>2. j \in 1..Len(t)
    <3> DEFINE x == Len(a)
               y == Len(b)
    <3>1. x \in Nat /\ x <= y /\ j \in 1..x /\ y = Len(t)
      BY <1>9, <2>1
    <3>2. y \in Int
      <4>1. IsSeq(b)
        <5>1. n \in 0..n
          OBVIOUS
        <5> QED BY <1>4, <5>1, PathIsGood DEF PathGood, b
      <4> QED BY <4>1 DEF IsSeq
    <3> HIDE DEF x, y
    <3>3. j \in 1..y
      BY <3>1, <3>2
    <3> QED BY <3>1, <3>3
  <2>3. s[j].at = a[j].at /\ s[j].det = a[j].det /\ Agree(s[j].p, a[j].p, s[j].det)
    BY <1>8 DEF Alike
  <2>4. t[j].at = b[j].at /\ t[j].det = b[j].det /\ Agree(t[j].p, b[j].p, t[j].det)
    BY <1>8, <2>2 DEF Alike
  <2>5. t[j].det = s[j].det /\ a[j].p = b[j].p /\ t[j].at = s[j].at
    BY <2>1, <2>3, <2>4
  <2>6. Agree(t[j].p, a[j].p, s[j].det) /\ Agree(s[j].p, a[j].p, s[j].det)
    BY <2>3, <2>4, <2>5
  <2> QED BY <2>5, <2>6, AgreeBoth
<1> QED BY <1>10, <1>11 DEF Matched


\* The XMM registers that a C function leaves.
LEMMA ClobberedXmm ==
  ASSUME NEW p, IsProc(p), NEW j
  PROVE  XmmOK(Clobbered(p, j).xmm)
<1> DEFINE q == Clobbered(p, j)
           w == [r \in DOMAIN p.reg |-> IF r \in {"eax", "ecx", "edx", "eflags"} THEN Val(j) ELSE p.reg[r]]
           x == [i \in 0..7 |-> <<j, j>>]
           a == [p EXCEPT !.reg = w]
<1>1. q = [a EXCEPT !.xmm = x]
  BY Zenon DEF Clobbered
<1>2. IsRegs(w)
  BY DEF IsProc, IsRegs
<1>3. XmmOK(x)
  BY DEF XmmOK
<1> HIDE DEF w, x, q
<1>4. a = Processor(w, p.base, p.stack, p.fpu, p.xmm, p.mxcsr, p.fxstate)
  BY Assigned
<1> HIDE DEF a
<1>5. IsProc(a)
  BY <1>2, <1>4, Parts
<1>6. q = Processor(a.reg, a.base, a.stack, a.fpu, x, a.mxcsr, a.fxstate)
  BY <1>1, <1>5, Assigned
<1> HIDE DEF q
<1>7. q.xmm = x
  BY <1>6, Parts
<1>8. XmmOK(q.xmm)
  BY <1>3, <1>7
<1> QED BY <1>8 DEF q

\* The runs follow what the test determines.
FollowOK == DetOK /\ PathOK /\ CountOK

\* The check points before an operation (compile-test.sh runs the test from its first one).
LEMMA CheckCounted ==
  ASSUME NEW P, IsTest(P)
  PROVE  /\ Cardinality(ChecksBefore(P, 1)) = 0
         /\ \A i \in DOMAIN P : P[i].op # "check" => ChecksBefore(P, i + 1) = ChecksBefore(P, i)
         /\ \A i \in DOMAIN P : P[i].op = "check" =>
              Cardinality(ChecksBefore(P, i + 1)) = Cardinality(ChecksBefore(P, i)) + 1
         /\ ChecksBefore(P, Len(P) + 1) = {i \in DOMAIN P : P[i].op = "check"}
<1>1. DOMAIN P = 1..Len(P) /\ Len(P) \in Nat
  BY LenProperties DEF IsTest
<1>2. ChecksBefore(P, 1) = {}
  BY <1>1 DEF ChecksBefore
<1>3. ASSUME NEW i \in DOMAIN P, P[i].op # "check" PROVE ChecksBefore(P, i + 1) = ChecksBefore(P, i)
  <2>1. \A k \in DOMAIN P : k < i + 1 <=> (k < i \/ k = i)
    BY <1>1
  <2> QED BY <1>3, <2>1 DEF ChecksBefore
<1>4. ASSUME NEW i \in DOMAIN P, P[i].op = "check"
      PROVE  Cardinality(ChecksBefore(P, i + 1)) = Cardinality(ChecksBefore(P, i)) + 1
  <2>1. ChecksBefore(P, i + 1) = ChecksBefore(P, i) \cup {i}
    <3>1. \A k \in DOMAIN P : k < i + 1 <=> (k < i \/ k = i)
      BY <1>1
    <3> QED BY <1>4, <3>1 DEF ChecksBefore
  <2>2. i \notin ChecksBefore(P, i)
    BY <1>1 DEF ChecksBefore
  <2>3. IsFiniteSet(ChecksBefore(P, i))
    <3>1. IsFiniteSet(1..Len(P))
      BY <1>1, FS_Interval
    <3>2. ChecksBefore(P, i) \subseteq 1..Len(P)
      BY <1>1 DEF ChecksBefore
    <3> QED BY <3>1, <3>2, FS_Subset
  <2> QED BY <2>1, <2>2, <2>3, FS_AddElement
<1>5. ChecksBefore(P, Len(P) + 1) = {i \in DOMAIN P : P[i].op = "check"}
  <2>1. \A k \in DOMAIN P : k < Len(P) + 1
    BY <1>1
  <2> QED BY <2>1 DEF ChecksBefore
<1> QED BY <1>2, <1>3, <1>4, <1>5, FS_EmptySet

LEMMA FollowInit == Init => FollowOK
<1> SUFFICES ASSUME Init PROVE FollowOK
  OBVIOUS
<1>1. seen[1] = << >> /\ seen[2] = << >> /\ Len(<< >>) = 0 /\ 1..0 = {}
  BY DEF Init
<1>2. step = "compile" /\ phase = "op" /\ det = {}
  BY DEF Init
<1>3. Paired
  BY <1>1 DEF Paired, Matched
<1>4. DetOK
  BY <1>1, <1>2 DEF DetOK
<1>5. PathOK
  BY <1>2, <1>3 DEF PathOK
<1>6. CountOK
  BY <1>2 DEF CountOK
<1> QED BY <1>4, <1>5, <1>6 DEF FollowOK

\* The script, between the runs.
LEMMA FollowScript ==
  ASSUME Tests, ComparesOK, FollowOK, compile_asm \/ link_with_outputlib \/ link_with_checklib \/ safe_exit \/ Trap
  PROVE  FollowOK'
<1> USE DEF FollowOK
<1>1. MachineOK /\ seen' = seen /\ prog' = prog /\ lost' = lost /\ fault' = fault
  BY DEF ComparesOK, compile_asm, link_with_outputlib, link_with_checklib, safe_exit, Trap, history, Start
<1>2. IsTest(prog)
  BY <1>1 DEF MachineOK, Tests
<1>3. ASSUME output' = output PROVE Paired => Paired'
  BY <1>1, <1>3 DEF Paired, Matched
<1>4. ASSUME output' = output, step' \notin {"record", "check"}, step' = "link2" => ~obj', UNCHANGED <<det, m, phase>>
      PROVE  FollowOK'
  <2>1. DetOK'
    BY <1>1, <1>4 DEF DetOK
  <2>2. PathOK'
    BY <1>1, <1>3, <1>4 DEF PathOK
  <2>3. CountOK'
    BY <1>4 DEF CountOK
  <2> QED BY <2>1, <2>2, <2>3
<1>5. ASSUME NEW s, Start(s), s \in {"record", "check"}, seen[Which'] = << >>
      PROVE  DetOK' /\ Reached' /\ step' = s /\ phase' = "op" /\ ip' = 1
  <2>1. PICK j : m' = init_regs(j)
    BY <1>5 DEF Start
  <2>2. step' = s /\ phase' = "op" /\ ip' = 1 /\ det' = InitiallySet
    BY <1>5 DEF Start
  <2>3. "esp" \notin InitiallySet
    BY DEF InitiallySet, GPR, Segments, Env
  <2>4. DetOK'
    BY <1>1, <2>2, <2>3 DEF DetOK
  <2>5. Near(prog, 1, init_regs(j), InitiallySet, << >>)
    BY NearStart
  <2>6. Reached'
    BY <1>1, <1>5, <2>1, <2>2, <2>5 DEF Reached
  <2> QED BY <2>2, <2>4, <2>6
<1>6. CASE compile_asm
  BY <1>4, <1>6 DEF compile_asm, history
<1>7. CASE link_with_outputlib
  <2>1. step = "link1" /\ output' = output /\ obj' = obj /\ exe' = (IF obj THEN "own" ELSE exe) /\ seen[1] = << >>
    BY <1>1, <1>7 DEF link_with_outputlib, MachineOK
  <2>2. CASE exe' = "own"
    <3>1. Start("record")
      BY <1>7, <2>2 DEF link_with_outputlib
    <3>2. step' = "record"
      BY <3>1 DEF Start
    <3>3. Which' = 1
      BY <3>2 DEF Which, recording
    <3>4. DetOK' /\ Reached' /\ phase' = "op" /\ ip' = 1
      BY <1>5, <2>1, <3>1, <3>3
    <3>5. PathOK'
      BY <1>1, <1>3, <2>1, <3>2, <3>4 DEF PathOK
    <3>6. CountOK'
      <4>1. Len(<< >>) = 0
        OBVIOUS
      <4> QED BY <1>1, <1>2, <2>1, <3>2, <3>4, <4>1, CheckCounted DEF CountOK
    <3> QED BY <3>4, <3>5, <3>6
  <2>3. CASE exe' # "own"
    BY <1>4, <1>7, <2>1, <2>3 DEF link_with_outputlib, history
  <2> QED BY <2>2, <2>3
<1>8. CASE link_with_checklib
  <2>1. step = "link2" /\ obj' = obj /\ seen[2] = << >>
    BY <1>1, <1>8 DEF link_with_checklib, MachineOK
  <2>2. CASE obj
    <3>1. Start("check")
      BY <1>8, <2>2 DEF link_with_checklib
    <3>2. step' = "check"
      BY <3>1 DEF Start
    <3>3. Which' = 2
      BY <3>2 DEF Which, recording
    <3>4. DetOK' /\ Reached' /\ phase' = "op" /\ ip' = 1
      BY <1>5, <2>1, <3>1, <3>3
    <3>5. ~fault /\ ~lost => Finished(prog, seen[1])
      BY <2>1, <2>2 DEF PathOK
    <3>6. Paired'
      <4>1. Len(<< >>) = 0 /\ 1..0 = {}
        OBVIOUS
      <4>2. Len(seen[1]) \in Nat
        BY <1>1 DEF MachineOK, IsSeq
      <4> QED BY <1>1, <2>1, <4>1, <4>2 DEF Paired, Matched
    <3>7. PathOK'
      BY <1>1, <3>2, <3>4, <3>5, <3>6 DEF PathOK
    <3>8. CountOK'
      BY <1>1, <2>1, <2>2, <3>2 DEF CountOK
    <3> QED BY <3>4, <3>7, <3>8
  <2>3. CASE ~obj
    BY <1>4, <1>8, <2>1, <2>3 DEF link_with_checklib
  <2> QED BY <2>2, <2>3
<1>9. CASE safe_exit
  <2>1. /\ running /\ ip = Len(prog) + 1 /\ UNCHANGED <<det, m, phase, output, obj>>
        /\ step' = IF recording THEN "link2" ELSE "done"
    BY <1>9 DEF safe_exit, Ended, history
  <2>2. CASE recording
    <3>1. step = "record" /\ step' = "link2" /\ phase = "op" /\ Which = 1
      BY <2>1, <2>2 DEF recording, running, Which
    <3>2. DetOK'
      BY <1>1, <2>1 DEF DetOK
    <3>3. ~fault /\ ~lost => Finished(prog, seen[1])
      <4> SUFFICES ASSUME ~fault /\ ~lost PROVE Finished(prog, seen[1])
        OBVIOUS
      <4>1. Near(prog, Len(prog) + 1, m, det, seen[1])
        BY <2>1, <3>1 DEF PathOK, Reached
      <4> QED BY <4>1, NearEnd
    <3>4. PathOK'
      BY <1>1, <1>3, <2>1, <3>1, <3>3 DEF PathOK
    <3>5. CountOK'
      BY <1>1, <1>2, <2>1, <3>1, CheckCounted DEF CountOK
    <3> QED BY <3>2, <3>4, <3>5
  <2>3. CASE ~recording
    BY <1>4, <2>1, <2>3
  <2> QED BY <2>2, <2>3
<1>10. CASE Trap
  BY <1>4, <1>10 DEF Trap, Ended, history
<1> QED BY <1>6, <1>7, <1>8, <1>9, <1>10

\* An operation of the test.
LEMMA FollowMoves ==
  ASSUME Tests, ComparesOK, FollowOK, Set \/ Skip
  PROVE  FollowOK'
<1> USE DEF FollowOK
<1>1. /\ UNCHANGED <<step, prog, phase, seen, exe, obj, output>> /\ running /\ ip \in DOMAIN prog /\ Which' = Which
      /\ phase = "op" /\ step \in {"record", "check"}
  BY DEF Set, Skip, files, Which, recording, running
<1>2. MachineOK /\ IsTest(prog) /\ IsProc(m)
  BY <1>1 DEF ComparesOK, MachineOK, Tests
<1>3. Paired => Paired'
  BY <1>1 DEF Paired, Matched
<1>4. CASE Skip
  <2>1. prog[ip].op = "skip" /\ prog[ip].at \in GPR
    BY <1>1, <1>2, <1>4, OperationIs DEF Skip
  <2>2. /\ UNCHANGED <<m, det, fault>> /\ lost' = (lost \/ prog[ip].at \notin det)
        /\ ip' = ip + IF m.reg[prog[ip].at][1] = 1 THEN 2 ELSE 1
    BY <1>4 DEF Skip
  <2>3. DetOK'
    BY <1>1, <2>2 DEF DetOK
  <2>4. PathOK'
    <3> SUFFICES ASSUME ~fault', ~lost' PROVE Reached' /\ (step = "check" => Finished(prog, seen[1])) /\ Paired'
      BY <1>1 DEF PathOK
    <3>1. ~fault /\ ~lost /\ prog[ip].at \in det
      BY <2>2
    <3>2. Near(prog, ip, m, det, seen[Which]) /\ (step = "check" => Finished(prog, seen[1])) /\ Paired
      BY <1>1, <3>1 DEF PathOK, Reached
    <3>3. Near(prog, ip', m, det, seen[Which])
      BY <1>1, <1>2, <2>1, <2>2, <3>1, <3>2, NearSkip
    <3> QED BY <1>1, <1>3, <2>2, <3>2, <3>3 DEF Reached
  <2>5. CountOK'
    BY <1>1, <2>1 DEF CountOK
  <2> QED BY <2>3, <2>4, <2>5
<1>5. CASE Set
  <2>1. prog[ip].op = "set" /\ prog[ip].at \in Writable
    BY <1>1, <1>2, <1>5, OperationIs DEF Set
  <2>2. /\ ip' = ip + 1 /\ det' = det \cup {prog[ip].at} /\ lost' = lost
    BY <1>5 DEF Set
  <2>3. PICK wrong \in 0..3 : /\ m' = Written(m, prog[ip].at, [k \in 1..3 |-> IF k = wrong THEN 2 ELSE 1])
                              /\ fault' = (fault \/ wrong # 0)
    BY <1>5 DEF Set
  <2>4. DetOK'
    <3>1. prog[ip].at # "esp"
      BY <2>1 DEF Writable, GPR, MM, XMM
    <3> QED BY <1>1, <2>2, <3>1 DEF DetOK
  <2>5. PathOK'
    <3> SUFFICES ASSUME ~fault', ~lost' PROVE Reached' /\ (step = "check" => Finished(prog, seen[1])) /\ Paired'
      BY <1>1 DEF PathOK
    <3>1. ~fault /\ ~lost /\ wrong = 0
      BY <2>2, <2>3
    <3>2. Near(prog, ip, m, det, seen[Which]) /\ (step = "check" => Finished(prog, seen[1])) /\ Paired
      BY <1>1, <3>1 DEF PathOK, Reached
    <3>3. m' = Written(m, prog[ip].at, Val(1))
      <4>1. [k \in 1..3 |-> IF k = 0 THEN 2 ELSE 1] = Val(1)
        BY DEF Val
      <4> QED BY <2>3, <3>1, <4>1
    <3>4. Near(prog, ip + 1, m', det', seen[Which])
      BY <1>1, <1>2, <2>1, <2>2, <3>2, <3>3, NearSet
    <3> QED BY <1>1, <1>3, <2>2, <3>2, <3>4 DEF Reached
  <2>6. CountOK'
    BY <1>1, <1>2, <2>1, <2>2, CheckCounted DEF CountOK
  <2> QED BY <2>4, <2>5, <2>6
<1> QED BY <1>4, <1>5

\* A check point.
LEMMA FollowChecks ==
  ASSUME Tests, ComparesOK, ComparesOK', FollowOK, CheckMacro
  PROVE  FollowOK'
<1> USE DEF FollowOK
<1> DEFINE e == [at |-> prog[ip].at, ip |-> ip, p |-> m, det |-> det]
<1>1. /\ UNCHANGED <<step, prog, ip, det, lost, fault, exe, obj, output>> /\ ip \in DOMAIN prog /\ Which' = Which
      /\ phase = "op" /\ phase' = "call" /\ step \in {"record", "check"} /\ prog[ip].op = "check"
  BY DEF CheckMacro, files, Which, recording, running
<1>2. MachineOK /\ IsTest(prog) /\ Which \in {1, 2} /\ DOMAIN seen = {1, 2} /\ IsSeq(seen[1]) /\ IsSeq(seen[2]) /\ IsSeq(seen[Which])
  BY <1>1 DEF ComparesOK, MachineOK, Tests, Which
<1>3. /\ seen'[Which] = Append(seen[Which], e) /\ \A w \in {1, 2} \ {Which} : seen'[w] = seen[w]
  BY <1>2 DEF CheckMacro
<1>4. e.p = m /\ e.det = det
  OBVIOUS
<1>5. ~fault /\ ~lost => Near(prog, ip + 1, m, det \ DOMAIN XMM, Append(seen[Which], e))
  <2> SUFFICES ASSUME ~fault, ~lost PROVE Near(prog, ip + 1, m, det \ DOMAIN XMM, Append(seen[Which], e))
    OBVIOUS
  <2>1. Near(prog, ip, m, det, seen[Which])
    BY <1>1 DEF PathOK, Reached
  <2> QED BY <1>1, <1>2, <2>1, NearCheck
<1> HIDE DEF e
<1>6. /\ Len(seen'[Which]) = Len(seen[Which]) + 1 /\ Last(seen'[Which]) = e
      /\ seen'[Which][Len(seen[Which]) + 1] = e /\ \A k \in 1..Len(seen[Which]) : seen'[Which][k] = seen[Which][k]
  BY <1>2, <1>3, Grows
<1>7. Latest' = e
  BY <1>1, <1>6 DEF Latest
<1>8. DetOK'
  <2>1. \A k \in 1..Len(seen'[2]) : "esp" \notin seen'[2][k].det
    <3>1. CASE Which = 2
      <4> TAKE k \in 1..Len(seen'[2])
      <4>1. k \in 1..Len(seen[2]) \/ k = Len(seen[2]) + 1
        BY <1>2, <1>6, <3>1 DEF IsSeq
      <4> QED BY <1>4, <1>6, <3>1, <4>1 DEF DetOK
    <3>2. CASE Which # 2
      BY <1>3, <3>2 DEF DetOK
    <3> QED BY <3>1, <3>2
  <2> QED BY <1>1, <2>1 DEF DetOK
<1>9. ~fault /\ ~lost => Reached'
  BY <1>1, <1>3, <1>4, <1>5, <1>7 DEF Reached
<1>10. CASE step = "record"
  <2>1. Which = 1 /\ seen'[2] = << >>
    BY <1>2, <1>3, <1>10 DEF Which, recording, MachineOK
  <2>2. Paired'
    <3>1. Len(<< >>) = 0 /\ 1..0 = {}
      OBVIOUS
    <3>2. Len(seen'[1]) \in Nat
      BY <1>2, <1>6, <2>1 DEF IsSeq
    <3> QED BY <2>1, <3>1, <3>2 DEF Paired, Matched
  <2>3. PathOK'
    BY <1>1, <1>9, <1>10, <2>2 DEF PathOK
  <2>4. CountOK'
    BY <1>1, <1>2, <1>6, <1>10, <2>1, CheckCounted DEF CountOK
  <2> QED BY <1>8, <2>3, <2>4
<1>11. CASE step = "check"
  <2>1. Which = 2 /\ seen'[1] = seen[1]
    BY <1>3, <1>11 DEF Which, recording
  <2>2. Len(output) = Len(seen[1]) + 1
    BY <1>11 DEF ComparesOK, RecordOK
  <2>3. PathOK'
    <3> SUFFICES ASSUME ~fault, ~lost PROVE Reached' /\ Finished(prog, seen[1]) /\ Paired'
      BY <1>1, <1>11, <2>1 DEF PathOK
    <3>1. Finished(prog, seen[1])
      BY <1>11 DEF PathOK
    <3>2. Matched(seen'[2], seen'[1])
      BY <1>2, <1>3, <1>5, <2>1, <3>1, Pairs
    <3> QED BY <1>1, <1>9, <2>1, <2>2, <3>1, <3>2 DEF Paired
  <2>4. CountOK'
    BY <1>1, <1>11, <2>1 DEF CountOK
  <2> QED BY <1>8, <2>3, <2>4
<1> QED BY <1>1, <1>10, <1>11

\* The check function.
LEMMA FollowCalls ==
  ASSUME Tests, ComparesOK, FollowOK, PrintState \/ ComparePoint
  PROVE  FollowOK'
<1> USE DEF FollowOK
<1>1. /\ phase = "call" /\ phase' = "back" /\ UNCHANGED <<step, prog, ip, seen, det, lost, fault, exe, obj, output>>
      /\ Which' = Which /\ Latest' = Latest
  BY DEF PrintState, ComparePoint, files, history, Which, recording, Latest
<1>2. PICK j : m' = Clobbered(m, j)
  BY DEF PrintState, ComparePoint
<1>3. IsProc(m)
  BY <1>1 DEF ComparesOK, MachineOK
<1>4. XmmOK(m'.xmm)
  BY <1>2, <1>3, ClobberedXmm
<1>5. DetOK'
  BY <1>1, <1>4 DEF DetOK
<1>6. Paired => Paired'
  BY <1>1 DEF Paired, Matched
<1>7. Reached => Reached'
  BY <1>1 DEF Reached
<1>8. PathOK'
  BY <1>1, <1>6, <1>7 DEF PathOK
<1>9. CountOK'
  BY <1>1 DEF CountOK
<1> QED BY <1>5, <1>8, <1>9

\* The end of the macro.
LEMMA FollowReturns ==
  ASSUME Tests, ComparesOK, FollowOK, CheckMacroEnds
  PROVE  FollowOK'
<1> USE DEF FollowOK
<1>1. /\ phase = "back" /\ phase' = "op" /\ ip' = ip + 1 /\ UNCHANGED <<step, prog, seen, lost, fault, exe, obj, output>>
      /\ Which' = Which /\ Latest' = Latest /\ m' = check_macro_restore(m) /\ det' = det \ DOMAIN XMM
  BY DEF CheckMacroEnds, files, Which, recording, Latest
<1>2. step \in {"record", "check"} /\ IsProc(m) /\ Calling
  BY <1>1 DEF ComparesOK, MachineOK
<1>3. m'.reg = Latest.p.reg /\ m'.fpu = Latest.p.fpu /\ m'.mxcsr = Latest.p.mxcsr /\ m'.xmm = m.xmm
  BY <1>1, <1>2, Restores DEF Calling
<1>4. DetOK'
  BY <1>1 DEF DetOK
<1>5. Paired => Paired'
  BY <1>1 DEF Paired, Matched
<1>6. Reached => Reached'
  <2> SUFFICES ASSUME Reached PROVE Reached'
    OBVIOUS
  <2>1. Near(prog, ip + 1, Latest.p, det', seen[Which]) /\ det' \cap DOMAIN XMM = {} /\ XmmOK(m'.xmm)
    BY <1>1, <1>3 DEF Reached, DetOK
  <2>2. Near(prog, ip + 1, m', det', seen[Which])
    BY <1>3, <2>1, NearElse
  <2> QED BY <1>1, <2>2 DEF Reached
<1>7. PathOK'
  BY <1>1, <1>5, <1>6 DEF PathOK
<1>8. CountOK'
  BY <1>1 DEF CountOK
<1> QED BY <1>4, <1>7, <1>8

LEMMA FollowStutters ==
  ASSUME FollowOK, UNCHANGED vars
  PROVE  FollowOK'
BY DEF FollowOK, DetOK, PathOK, CountOK, Paired, Matched, Reached, vars, Latest, Which, recording

\* Both runs follow what the test determines, and its own recording is compared with.
THEOREM FollowAlways == ASSUME Tests PROVE Spec => [](ComparesOK /\ FollowOK)
<1>1. Init => ComparesOK /\ FollowOK
  BY MachineInit, ComparesInit, FollowInit DEF ComparesOK
<1>2. ComparesOK /\ FollowOK /\ [Next]_vars /\ ComparesOK' => FollowOK'
  <2> SUFFICES ASSUME ComparesOK, FollowOK, [Next]_vars, ComparesOK' PROVE FollowOK'
    OBVIOUS
  <2> QED BY FollowScript, FollowMoves, FollowChecks, FollowCalls, FollowReturns, FollowStutters DEF Next
<1>3. Spec => []ComparesOK
  BY ComparesAlways
<1> QED BY <1>1, <1>2, <1>3, PTL DEF Spec


\* A check of something determined reports nothing (checklib.c).
LEMMA Silent == ASSUME ComparesOK, FollowOK PROVE NoFalseAlarm
<1> SUFFICES ASSUME ~fault, ~lost, NEW k \in DOMAIN reports, Locations(seen[2][k].at) \subseteq seen[2][k].det
             PROVE  ~reports[k]
  BY DEF NoFalseAlarm
<1> DEFINE t == seen[2][k].at
           d == seen[2][k].det
           p == seen[1][k].p
           q == seen[2][k].p
<1>1. /\ DOMAIN reports = 1..Len(reports) /\ Len(reports) \in Nat /\ Len(seen[1]) \in Nat /\ Len(seen[2]) \in Nat
      /\ Len(reports) <= Len(seen[2])
  BY DEF ComparesOK, MachineOK, IsSeq, ReportsOK
<1>2. Matched(seen[2], seen[1])
  BY DEF FollowOK, PathOK, Paired
<1>3. k \in 1..Len(reports) /\ k \in 1..Len(seen[2]) /\ k \in 1..Len(seen[1])
  <2>1. Len(seen[2]) <= Len(seen[1])
    BY <1>2 DEF Matched
  <2> QED BY <1>1, <2>1
<1>4. reports[k] = (Compared(t, StateOf(q)) # Compared(t, StateOf(p)))
  BY <1>3 DEF ComparesOK, ReportsOK, Differs
<1>5. EntryOK(seen[1][k]) /\ EntryOK(seen[2][k])
  BY <1>3 DEF ComparesOK, EntriesOK
<1>6. p.stack = << >> /\ q.stack = << >> /\ t \in Checks /\ "esp" \notin d /\ Locations(t) \subseteq d
  BY <1>3, <1>5 DEF EntryOK, FollowOK, DetOK
<1>7. Agree(p, q, d)
  BY <1>2, <1>3 DEF Matched
<1> HIDE DEF t, d, p, q
<1>8. Accepted(t, p, q)
  BY <1>6, <1>7, NoDifference
<1> QED BY <1>4, <1>8 DEF Accepted

\* The comparing run reports the differences and nothing else: a check reports
\* one exactly if its part of the processor differs, and none is reported of
\* what the test determines on a processor that works (checklib.c, init_regs,
\* check_macro).
THEOREM ChecksReportExactly == Spec => []ReportsExactly
<1>1. ComparesOK /\ FollowOK => ReportsExactly
  BY Truthful, Silent DEF ReportsExactly
<1>2. Spec => [](ComparesOK /\ FollowOK)
  BY CheckRunAssumption, FollowAlways DEF Tests
<1> QED BY <1>1, <1>2, PTL

\* Both runs pass the same check points and the second one has a complete
\* recording of its own (compile-test.sh:50-56).
THEOREM RunsBelongTogether == Spec => []RunsMatch
<1>1. ComparesOK /\ FollowOK => PairsUp
  <2> SUFFICES ASSUME ComparesOK, FollowOK, ~fault, ~lost, NEW k \in DOMAIN seen[2]
               PROVE  k \in DOMAIN seen[1] /\ k < Len(output) /\ seen[1][k].at = seen[2][k].at
    BY DEF PairsUp
  <2>1. /\ DOMAIN seen[1] = 1..Len(seen[1]) /\ DOMAIN seen[2] = 1..Len(seen[2])
        /\ Len(seen[1]) \in Nat /\ Len(seen[2]) \in Nat
    BY DEF ComparesOK, MachineOK, IsSeq
  <2>2. Paired
    BY DEF FollowOK, PathOK
  <2>3. k \in 1..Len(seen[2]) /\ Len(seen[2]) <= Len(seen[1]) /\ seen[1][k].at = seen[2][k].at
    BY <2>1, <2>2 DEF Paired, Matched
  <2>4. Len(<< >>) = 0
    OBVIOUS
  <2>5. seen[2] # << >>
    BY <2>1, <2>3, <2>4
  <2>6. Len(output) = Len(seen[1]) + 1
    BY <2>2, <2>5 DEF Paired
  <2> QED BY <2>1, <2>3, <2>6
<1>2. ComparesOK /\ FollowOK => OwnExpectations
  BY DEF ComparesOK, RecordOK, FollowOK, CountOK, OwnExpectations
<1>3. ComparesOK /\ FollowOK => RunsMatch
  BY <1>1, <1>2 DEF RunsMatch
<1>4. Spec => [](ComparesOK /\ FollowOK)
  BY CheckRunAssumption, FollowAlways DEF Tests
<1> QED BY <1>3, <1>4, PTL

=============================================================================

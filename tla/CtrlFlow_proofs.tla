--------------------------- MODULE CtrlFlow_proofs ---------------------------
(***************************************************************************)
(* Proofs about the generator core (CtrlFlow) for every value of the       *)
(* constants: whatever the template, the labels drawn and the length of    *)
(* the program, the instruction list, the insert position and labelspos    *)
(* stay consistent.                                                        *)
(***************************************************************************)
EXTENDS CtrlFlow, Lemmas, FiniteSetTheorems

Ids(p) == 1..Len(p.code)

MovesInRange(p) ==
  \A id \in Ids(p) : p.code[id].op = "movecx" => p.code[id].arg \in 0..(CXSize - 1)

\* A generator state between two calls.
Shape(p) ==
  /\ p \in PGState
  /\ \A i \in DOMAIN p.list : p.list[i] \in Ids(p)
  /\ ListComplete(p)
  /\ p.insertpos \in Ids(p) \cup {Wild} \/ (p.insertpos = NoEntry /\ p.code = << >>)
  /\ Len(p.labelspos) = p.labeli
  /\ \A l \in 0..(p.labeli - 1) : LabelPos(p, l) \in Ids(p)
  /\ LabelsMatch(p)
  /\ MovesInRange(p)

\* ... from which generation can go on.
Sound(p) == Shape(p) /\ p.insertpos # Wild

Places == {"before", "after", "tail"}

\* An instruction other than a label, with the count of a mov ecx in range.
PlainInsns == {insn \in Insns : /\ insn.op # "label"
                                /\ insn.op = "movecx" => insn.arg \in 0..(CXSize - 1)}

-----------------------------------------------------------------------------
(* stat_insert_insn and gen_label                                          *)

\* What stat_insert_insn does to a sound state: the new entry is listed and
\* becomes the insert position, and nothing else changes.
Inserted(p, q, insn) ==
  /\ q \in PGState
  /\ q.code = Append(p.code, insn)
  /\ LongerBy(p.list, q.list, Len(p.code) + 1)
  /\ q.insertpos = Len(p.code) + 1
  /\ q.labeli = p.labeli /\ q.labelspos = p.labelspos
  /\ q.lock_ctrl = p.lock_ctrl /\ q.lock_cx = p.lock_cx

\* stat_insert_insn adds one instruction at the insert position and moves that position to it.
LEMMA InsertStep ==
  ASSUME NEW p, Sound(p), NEW insn \in Insns, NEW pos \in Places
  PROVE  Inserted(p, stat_insert_insn(p, insn, pos), insn)
<1> DEFINE id == Len(p.code) + 1
           q == stat_insert_insn(p, insn, pos)
<1>1. /\ p \in PGState /\ p.code \in Seq(Insns) /\ p.list \in Seq(Nat)
      /\ Len(p.list) = Len(p.code)
      /\ p.insertpos \in Ids(p) \/ (p.insertpos = NoEntry /\ p.code = << >>)
  BY DEF Sound, Shape, PGState, ListComplete
<1>2. Len(p.code) \in Nat /\ id \in Nat
  BY <1>1, LenProperties
<1>3. p.list = << >> \/ \E i \in DOMAIN p.list : p.list[i] = p.insertpos
  <2>1. CASE p.insertpos \in Ids(p)
    BY <2>1, <1>1, LenProperties DEF Sound, Shape, ListComplete, Ids
  <2>2. CASE p.code = << >>
    BY <2>2, <1>1, EmptySeq
  <2> QED BY <1>1, <2>1, <2>2
<1>4. p.insertpos = NoEntry => p.list = << >>
  BY <1>1, <1>2, EmptySeq DEF NoEntry, Ids
<1>5. /\ Append(p.list, id) \in Seq(Nat) /\ LongerBy(p.list, Append(p.list, id), id)
      /\ PutBefore(p.list, p.insertpos, id) \in Seq(Nat)
      /\ LongerBy(p.list, PutBefore(p.list, p.insertpos, id), id)
      /\ PutAfter(p.list, p.insertpos, id) \in Seq(Nat)
      /\ LongerBy(p.list, PutAfter(p.list, p.insertpos, id), id)
  BY <1>1, <1>2, <1>3, AppendGrows, PutBeforeGrows, PutAfterGrows
<1>6. PICK list \in {Append(p.list, id), PutBefore(p.list, p.insertpos, id),
                     PutAfter(p.list, p.insertpos, id)} :
        q = [p EXCEPT !.code = Append(@, insn), !.list = list, !.insertpos = id]
  <2>1. ~(pos # "tail" /\ p.insertpos = NoEntry /\ p.list # << >>)
    BY <1>4
  <2> QED BY <2>1 DEF stat_insert_insn, Places
<1>7. list \in Seq(Nat) /\ LongerBy(p.list, list, id)
  BY <1>5, <1>6
<1>8. Append(p.code, insn) \in Seq(Insns)
  BY <1>1, AppendProperties
<1> HIDE DEF q
<1> DEFINE p1 == [p EXCEPT !.code = Append(@, insn)]
           p2 == [p1 EXCEPT !.list = list]
           p3 == [p2 EXCEPT !.insertpos = id]
<1>9. q = p3
  BY <1>6, Zenon DEF p1, p2, p3
<1>10. /\ p1 \in PGState /\ p1.code = Append(p.code, insn)
       /\ p1.labeli = p.labeli /\ p1.labelspos = p.labelspos
       /\ p1.lock_ctrl = p.lock_ctrl /\ p1.lock_cx = p.lock_cx
  BY <1>1, <1>8 DEF PGState
<1> HIDE DEF p1
<1>11. /\ p2 \in PGState /\ p2.code = p1.code /\ p2.list = list
       /\ p2.labeli = p.labeli /\ p2.labelspos = p.labelspos
       /\ p2.lock_ctrl = p.lock_ctrl /\ p2.lock_cx = p.lock_cx
  BY <1>7, <1>10 DEF PGState
<1> HIDE DEF p2
<1>12. /\ p3 \in PGState /\ p3.code = p2.code /\ p3.list = list /\ p3.insertpos = id
       /\ p3.labeli = p.labeli /\ p3.labelspos = p.labelspos
       /\ p3.lock_ctrl = p.lock_ctrl /\ p3.lock_cx = p.lock_cx
  <2>1. id \in Int
    BY <1>2
  <2> HIDE DEF id
  <2> QED BY <2>1, <1>11 DEF PGState
<1> HIDE DEF p3
<1>13. Inserted(p, q, insn)
  BY <1>7, <1>9, <1>10, <1>11, <1>12 DEF Inserted
<1> QED BY <1>13 DEF q

\* What an insertion says about the list, whatever the instruction is.
LEMMA InsertedList ==
  ASSUME NEW p, NEW q, NEW insn \in Insns, Sound(p), Inserted(p, q, insn)
  PROVE  /\ \A i \in DOMAIN q.list : q.list[i] \in Ids(q)
         /\ ListComplete(q)
         /\ Len(q.code) = Len(p.code) + 1
         /\ Len(p.code) \in Nat
         /\ q.code[Len(p.code) + 1] = insn
         /\ \A id \in Ids(p) : q.code[id] = p.code[id]
<1>1. p.code \in Seq(Insns) /\ Len(p.code) \in Nat
  BY LenProperties DEF Sound, Shape, PGState
<1>2. /\ Len(q.code) = Len(p.code) + 1
      /\ q.code[Len(p.code) + 1] = insn
      /\ \A id \in 1..Len(p.code) : q.code[id] = p.code[id]
  BY <1>1, AppendProperties DEF Inserted
<1>3. \A i \in DOMAIN q.list : q.list[i] \in Ids(q)
  <2> TAKE i \in DOMAIN q.list
  <2>1. q.list[i] = Len(p.code) + 1 \/ \E k \in DOMAIN p.list : q.list[i] = p.list[k]
    BY DEF Inserted, LongerBy
  <2>2. \A k \in DOMAIN p.list : p.list[k] \in 1..Len(p.code)
    BY DEF Sound, Shape, Ids
  <2>3. q.list[i] \in 1..(Len(p.code) + 1)
    BY <2>1, <2>2, <1>1
  <2> QED BY <2>3, <1>2 DEF Ids
<1>4. q.code \in Seq(Insns) /\ DOMAIN q.code = 1..Len(q.code) /\ DOMAIN p.code = 1..Len(p.code)
  BY <1>1, LenProperties DEF Inserted, PGState
<1>5. ListComplete(q)
  <2>1. Len(q.list) = Len(q.code)
    BY <1>1, <1>2 DEF Inserted, LongerBy, Sound, Shape, ListComplete
  <2>2. ASSUME NEW id \in DOMAIN q.code PROVE \E i \in DOMAIN q.list : q.list[i] = id
    <3>1. CASE id \in 1..Len(p.code)
      BY <3>1, <1>4 DEF Inserted, LongerBy, Sound, Shape, ListComplete
    <3>2. CASE id = Len(p.code) + 1
      BY <3>2 DEF Inserted, LongerBy
    <3>3. id \in 1..Len(p.code) \/ id = Len(p.code) + 1
      BY <1>1, <1>2, <1>4
    <3> QED BY <3>1, <3>2, <3>3
  <2> QED BY <2>1, <2>2 DEF ListComplete
<1> QED BY <1>1, <1>2, <1>3, <1>5 DEF Ids

\* A position that holds a label of p still does.
LEMMA InsertSound ==
  ASSUME NEW p, Sound(p), NEW insn \in PlainInsns, NEW pos \in Places
  PROVE  LET q == stat_insert_insn(p, insn, pos)
         IN Sound(q) /\ Inserted(p, q, insn)
<1> DEFINE q == stat_insert_insn(p, insn, pos)
<1>1. insn \in Insns
  BY DEF PlainInsns
<1>2. Inserted(p, q, insn)
  BY <1>1, InsertStep
<1> HIDE DEF q
<1>3. /\ \A i \in DOMAIN q.list : q.list[i] \in Ids(q)
      /\ ListComplete(q)
      /\ Len(q.code) = Len(p.code) + 1
      /\ Len(p.code) \in Nat
      /\ q.code[Len(p.code) + 1] = insn
      /\ \A id \in Ids(p) : q.code[id] = p.code[id]
  BY <1>1, <1>2, InsertedList
<1>4. q.insertpos \in Ids(q) /\ q.insertpos # Wild /\ Len(q.labelspos) = q.labeli
  BY <1>2, <1>3 DEF Inserted, Ids, Wild, Sound, Shape
<1>5. \A l \in 0..(q.labeli - 1) : LabelPos(q, l) = LabelPos(p, l) /\ LabelPos(q, l) \in Ids(p)
  BY <1>2 DEF Inserted, LabelPos, Sound, Shape
<1>6. Ids(q) = Ids(p) \cup {Len(p.code) + 1}
  BY <1>3 DEF Ids
<1>7. \A l \in 0..(q.labeli - 1) : LabelPos(q, l) \in Ids(q)
  BY <1>5, <1>6
<1>8. DOMAIN q.code = Ids(q) /\ DOMAIN p.code = Ids(p)
  BY <1>2, LenProperties DEF Ids, Inserted, PGState, Sound, Shape
<1>9. LabelsMatch(q)
  <2>1. \A l \in 0..(q.labeli - 1) : q.code[LabelPos(q, l)] = Insn("label", l)
    BY <1>2, <1>3, <1>5 DEF Sound, Shape, LabelsMatch, Inserted
  <2>2. ASSUME NEW id \in DOMAIN q.code, q.code[id].op = "label"
        PROVE  q.code[id].arg \in 0..(q.labeli - 1) /\ LabelPos(q, q.code[id].arg) = id
    <3>1. id \in Ids(p)
      BY <2>2, <1>3, <1>6, <1>8 DEF PlainInsns
    <3>2. q.code[id] = p.code[id] /\ q.labeli = p.labeli
      BY <3>1, <1>2, <1>3 DEF Inserted
    <3>3. p.code[id].arg \in 0..(p.labeli - 1) /\ LabelPos(p, p.code[id].arg) = id
      BY <2>2, <3>1, <3>2, <1>8 DEF Sound, Shape, LabelsMatch
    <3> QED BY <3>2, <3>3, <1>5
  <2> QED BY <2>1, <2>2, <1>7, <1>8 DEF LabelsMatch
<1>10. MovesInRange(q)
  BY <1>3, <1>6 DEF MovesInRange, PlainInsns, Sound, Shape
<1> QED
  BY <1>2, <1>3, <1>4, <1>7, <1>9, <1>10 DEF Sound, Shape, Inserted, q

\* gen_label defines the next label at the new entry, unless ctrl is locked.
LEMMA GenLabel ==
  ASSUME NEW p, Sound(p), p.lock_ctrl = FALSE, NEW pos \in Places
  PROVE  LET q == gen_label(p, pos)
         IN /\ Sound(q)
            /\ q.code = Append(p.code, Insn("label", p.labeli))
            /\ q.labeli = p.labeli + 1
            /\ q.lock_ctrl = p.lock_ctrl /\ q.lock_cx = p.lock_cx
<1> DEFINE insn == Insn("label", p.labeli)
           a == stat_insert_insn(p, insn, pos)
           n == a.labeli + 1
           b == [a EXCEPT !.labeli = n]
           q == [b EXCEPT !.labelspos = Append(@, a.insertpos)]
<1>1. /\ p.labeli \in Nat /\ p.labelspos \in Seq(Nat) /\ Len(p.labelspos) = p.labeli
      /\ p.code \in Seq(Insns)
  BY DEF Sound, Shape, PGState
<1>2. insn \in Insns /\ insn.op = "label" /\ insn.arg = p.labeli
  BY <1>1 DEF Insn, Insns, Ops
<1>3. Inserted(p, a, insn)
  BY <1>2, InsertStep
<1> HIDE DEF insn
<1> HIDE DEF a
<1>4. /\ \A i \in DOMAIN a.list : a.list[i] \in Ids(a)
      /\ ListComplete(a)
      /\ Len(a.code) = Len(p.code) + 1
      /\ Len(p.code) \in Nat
      /\ a.code[Len(p.code) + 1] = insn
      /\ \A id \in Ids(p) : a.code[id] = p.code[id]
  BY <1>2, <1>3, InsertedList
<1>5. a \in PGState /\ a.insertpos = Len(p.code) + 1 /\ a.labeli = p.labeli /\ a.labelspos = p.labelspos
  BY <1>3 DEF Inserted
<1>6. /\ b \in PGState /\ b.labeli = p.labeli + 1 /\ b.labelspos = p.labelspos
      /\ b.code = a.code /\ b.list = a.list /\ b.insertpos = a.insertpos
      /\ b.lock_ctrl = a.lock_ctrl /\ b.lock_cx = a.lock_cx
  <2>1. n \in Nat /\ n = p.labeli + 1
    BY <1>1, <1>5
  <2> HIDE DEF n
  <2> QED BY <2>1, <1>5 DEF PGState
<1> HIDE DEF b
<1>7. Append(p.labelspos, a.insertpos) \in Seq(Nat)
  <2>1. a.insertpos \in Nat
    BY <1>4, <1>5
  <2> QED BY <2>1, <1>1, AppendProperties
<1>8. /\ q \in PGState /\ q.labeli = p.labeli + 1
      /\ q.labelspos = Append(p.labelspos, a.insertpos)
      /\ q.code = a.code /\ q.list = a.list /\ q.insertpos = a.insertpos
      /\ q.lock_ctrl = a.lock_ctrl /\ q.lock_cx = a.lock_cx
  BY <1>6, <1>7 DEF PGState
<1> HIDE DEF q
<1>9. /\ Len(q.labelspos) = q.labeli
      /\ LabelPos(q, p.labeli) = Len(p.code) + 1
      /\ \A l \in 0..(p.labeli - 1) : LabelPos(q, l) = LabelPos(p, l)
  <2>1. a.insertpos \in Nat
    BY <1>4, <1>5
  <2>2. /\ Len(q.labelspos) = p.labeli + 1
        /\ q.labelspos[p.labeli + 1] = a.insertpos
        /\ \A i \in 1..p.labeli : q.labelspos[i] = p.labelspos[i]
    BY <2>1, <1>1, <1>8, AppendProperties
  <2> QED BY <2>2, <1>1, <1>5, <1>8 DEF LabelPos
<1>10. Ids(q) = Ids(p) \cup {Len(p.code) + 1} /\ q.insertpos \in Ids(q) /\ q.insertpos # Wild
  BY <1>4, <1>5, <1>8 DEF Ids, Wild
<1>11. DOMAIN q.code = Ids(q) /\ DOMAIN p.code = Ids(p)
  BY <1>1, <1>8, LenProperties DEF Ids, PGState
<1>12. 0..(q.labeli - 1) = 0..(p.labeli - 1) \cup {p.labeli}
  BY <1>1, <1>8
<1>13. \A l \in 0..(q.labeli - 1) : LabelPos(q, l) \in Ids(q)
  BY <1>9, <1>10, <1>12 DEF Sound, Shape
<1>14. LabelsMatch(q)
  <2>1. ASSUME NEW l \in 0..(q.labeli - 1) PROVE q.code[LabelPos(q, l)] = Insn("label", l)
    <3>1. CASE l = p.labeli
      BY <3>1, <1>4, <1>8, <1>9 DEF insn
    <3>2. CASE l \in 0..(p.labeli - 1)
      <4>1. LabelPos(q, l) = LabelPos(p, l) /\ LabelPos(p, l) \in Ids(p)
        BY <3>2, <1>9 DEF Sound, Shape
      <4>2. p.code[LabelPos(p, l)] = Insn("label", l)
        BY <3>2 DEF Sound, Shape, LabelsMatch
      <4> QED BY <4>1, <4>2, <1>4, <1>8
    <3> QED BY <3>1, <3>2, <1>12
  <2>2. ASSUME NEW id \in DOMAIN q.code, q.code[id].op = "label"
        PROVE  q.code[id].arg \in 0..(q.labeli - 1) /\ LabelPos(q, q.code[id].arg) = id
    <3>1. CASE id = Len(p.code) + 1
      BY <3>1, <1>2, <1>4, <1>8, <1>9, <1>12
    <3>2. CASE id \in Ids(p)
      <4>1. q.code[id] = p.code[id]
        BY <3>2, <1>4, <1>8
      <4>2. p.code[id].arg \in 0..(p.labeli - 1) /\ LabelPos(p, p.code[id].arg) = id
        BY <4>1, <3>2, <2>2, <1>11 DEF Sound, Shape, LabelsMatch
      <4> QED BY <4>1, <4>2, <1>9, <1>12
    <3> QED BY <3>1, <3>2, <1>10, <1>11
  <2> QED BY <2>1, <2>2, <1>11, <1>13 DEF LabelsMatch
<1>15. MovesInRange(q)
  BY <1>2, <1>4, <1>8, <1>10 DEF MovesInRange, Sound, Shape
<1>16. /\ \A i \in DOMAIN q.list : q.list[i] \in Ids(q)
       /\ ListComplete(q)
  BY <1>4, <1>8 DEF ListComplete, Ids
<1>17. Sound(q)
  BY <1>8, <1>9, <1>10, <1>13, <1>14, <1>15, <1>16 DEF Sound, Shape
<1>18. q = gen_label(p, pos)
  BY Zenon DEF gen_label, q, b, n, a, insn
<1> QED BY <1>3, <1>8, <1>17, <1>18 DEF Inserted, insn

-----------------------------------------------------------------------------
(* Sequences of those calls: every jump emitted names a label below n.     *)

RefsBelow(p, n) ==
  \A id \in Ids(p) : p.code[id].op \in Transfers => p.code[id].arg \in 0..(n - 1)

Good(p, n) == Sound(p) /\ RefsBelow(p, n)

\* Adding an instruction that names a label in use keeps every transfer's label below the counter.
LEMMA RefsAppend ==
  ASSUME NEW p, NEW q, NEW n, NEW insn \in Insns, p \in PGState, RefsBelow(p, n),
         q.code = Append(p.code, insn),
         insn.op \in Transfers => insn.arg \in 0..(n - 1)
  PROVE  RefsBelow(q, n)
<1>1. p.code \in Seq(Insns) /\ Len(p.code) \in Nat
  BY LenProperties DEF PGState
<1>2. /\ Len(q.code) = Len(p.code) + 1
      /\ q.code[Len(p.code) + 1] = insn
      /\ \A id \in 1..Len(p.code) : q.code[id] = p.code[id]
  BY <1>1, AppendProperties
<1>3. Ids(q) = Ids(p) \cup {Len(p.code) + 1}
  BY <1>1, <1>2 DEF Ids
<1> QED BY <1>2, <1>3 DEF RefsBelow, Ids

\* Inserting an instruction that is no label keeps the program sound and its labels, locks and counter.
LEMMA InsertGood ==
  ASSUME NEW p, NEW n, Good(p, n), NEW insn \in PlainInsns, NEW pos \in Places,
         insn.op \in Transfers => insn.arg \in 0..(n - 1)
  PROVE  LET q == stat_insert_insn(p, insn, pos)
         IN /\ Good(q, n) /\ q.labeli = p.labeli
            /\ q.lock_ctrl = p.lock_ctrl /\ q.lock_cx = p.lock_cx
<1> DEFINE q == stat_insert_insn(p, insn, pos)
<1>1. Sound(p) /\ RefsBelow(p, n) /\ p \in PGState /\ insn \in Insns
  BY DEF Good, Sound, Shape, PlainInsns
<1>2. Sound(q) /\ Inserted(p, q, insn)
  BY <1>1, InsertSound
<1> HIDE DEF q
<1>3. RefsBelow(q, n)
  BY <1>1, <1>2, RefsAppend DEF Inserted
<1>4. /\ Good(q, n) /\ q.labeli = p.labeli
      /\ q.lock_ctrl = p.lock_ctrl /\ q.lock_cx = p.lock_cx
  BY <1>2, <1>3 DEF Good, Inserted
<1> QED BY <1>4 DEF q

\* gen_label outside a block keeps the program sound and takes one number.
LEMMA LabelGood ==
  ASSUME NEW p, NEW n, Good(p, n), p.lock_ctrl = FALSE, NEW pos \in Places
  PROVE  LET q == gen_label(p, pos)
         IN /\ Good(q, n) /\ q.labeli = p.labeli + 1
            /\ q.lock_ctrl = FALSE /\ q.lock_cx = p.lock_cx
<1> DEFINE q == gen_label(p, pos)
<1>1. Sound(p) /\ RefsBelow(p, n) /\ p \in PGState /\ p.labeli \in Nat
  BY DEF Good, Sound, Shape, PGState
<1>2. /\ Sound(q)
      /\ q.code = Append(p.code, Insn("label", p.labeli))
      /\ q.labeli = p.labeli + 1
      /\ q.lock_ctrl = p.lock_ctrl /\ q.lock_cx = p.lock_cx
  BY <1>1, GenLabel
<1> HIDE DEF q
<1>3. Insn("label", p.labeli) \in Insns /\ Insn("label", p.labeli).op \notin Transfers
  BY <1>1 DEF Insn, Insns, Ops, Transfers, Jumps, Loops
<1>4. RefsBelow(q, n)
  BY <1>1, <1>2, <1>3, RefsAppend
<1>5. /\ Good(q, n) /\ q.labeli = p.labeli + 1
      /\ q.lock_ctrl = FALSE /\ q.lock_cx = p.lock_cx
  BY <1>2, <1>4 DEF Good
<1> QED BY <1>5 DEF q

\* Moving the insert position: anywhere outside labelspos it is lost.
LEMMA MoveShape ==
  ASSUME NEW p, Shape(p), NEW label
  PROVE  LET q == update_insert_pos_to_label(p, label)
         IN /\ Shape(q) /\ q.code = p.code /\ q.labeli = p.labeli
            /\ q.lock_ctrl = p.lock_ctrl /\ q.lock_cx = p.lock_cx
            /\ label \in 0..(p.labeli - 1) => q.insertpos # Wild
<1> DEFINE i == IF label \in 0..(p.labeli - 1) THEN LabelPos(p, label) ELSE Wild
           q == [p EXCEPT !.insertpos = i]
<1>1. p \in PGState /\ p.code \in Seq(Insns) /\ Len(p.code) \in Nat
  BY LenProperties DEF Shape, PGState
<1>2. i \in Ids(p) \cup {Wild} /\ (label \in 0..(p.labeli - 1) => i \in Ids(p))
  BY DEF Shape
<1>3. i \in Int /\ (i \in Ids(p) => i # Wild)
  BY <1>1, <1>2 DEF Ids, Wild
<1> HIDE DEF i
<1>4. /\ q \in PGState /\ q.insertpos = i
      /\ q.code = p.code /\ q.list = p.list /\ q.labeli = p.labeli
      /\ q.labelspos = p.labelspos /\ q.lock_ctrl = p.lock_ctrl /\ q.lock_cx = p.lock_cx
  BY <1>1, <1>3 DEF PGState
<1> HIDE DEF q
<1>5. LabelsMatch(q)
  BY <1>4 DEF Shape, LabelsMatch, LabelPos
<1>6. /\ Shape(q) /\ q.code = p.code /\ q.labeli = p.labeli
      /\ q.lock_ctrl = p.lock_ctrl /\ q.lock_cx = p.lock_cx
      /\ label \in 0..(p.labeli - 1) => q.insertpos # Wild
  BY <1>2, <1>3, <1>4, <1>5 DEF Shape, Ids, ListComplete, LabelPos, MovesInRange
<1>7. q = update_insert_pos_to_label(p, label)
  BY Zenon DEF q, i, update_insert_pos_to_label
<1> QED BY <1>6, <1>7

\* Moving the insert position to a label already defined keeps the program sound.
LEMMA MoveGood ==
  ASSUME NEW p, NEW n, Good(p, n), NEW label \in 0..(p.labeli - 1)
  PROVE  LET q == update_insert_pos_to_label(p, label)
         IN /\ Good(q, n) /\ q.labeli = p.labeli
            /\ q.lock_ctrl = p.lock_ctrl /\ q.lock_cx = p.lock_cx
<1> DEFINE q == update_insert_pos_to_label(p, label)
<1>1. /\ Shape(q) /\ q.code = p.code /\ q.labeli = p.labeli
      /\ q.lock_ctrl = p.lock_ctrl /\ q.lock_cx = p.lock_cx
      /\ q.insertpos # Wild
  BY MoveShape DEF Good, Sound
<1> HIDE DEF q
<1>2. Good(q, n)
  BY <1>1 DEF Good, Sound, RefsBelow, Ids
<1> QED BY <1>1, <1>2 DEF q

\* A state that differs from a sound one in its locks alone is a state between two calls, too.
LEMMA LockShape ==
  ASSUME NEW p, NEW q, Shape(p), q \in PGState, q.insertpos = p.insertpos, q.code = p.code,
         q.list = p.list, q.labeli = p.labeli, q.labelspos = p.labelspos
  PROVE  Shape(q)
<1>1. Ids(q) = Ids(p)
  BY DEF Ids
<1>2. \A l : LabelPos(q, l) = LabelPos(p, l)
  BY DEF LabelPos
<1>3. ListComplete(q)
  BY DEF Shape, ListComplete
<1>4. LabelsMatch(q)
  BY <1>2, Zenon DEF Shape, LabelsMatch
<1>5. MovesInRange(q)
  BY <1>1, Zenon DEF Shape, MovesInRange
<1>6. \A l \in 0..(q.labeli - 1) : LabelPos(q, l) \in Ids(q)
  BY <1>1, <1>2, Zenon DEF Shape
<1>7. /\ \A i \in DOMAIN q.list : q.list[i] \in Ids(q)
      /\ q.insertpos \in Ids(q) \cup {Wild} \/ (q.insertpos = NoEntry /\ q.code = << >>)
  BY <1>1, Zenon DEF Shape
<1> QED BY <1>3, <1>4, <1>5, <1>6, <1>7, Zenon DEF Shape

\* A control transfer instruction that is open locks the generation of others.
LEMMA LockCtrl ==
  ASSUME NEW p, Shape(p), NEW b \in BOOLEAN
  PROVE  LET q == [p EXCEPT !.lock_ctrl = b]
         IN /\ Shape(q) /\ q.code = p.code /\ q.labeli = p.labeli
            /\ q.insertpos = p.insertpos
            /\ q.lock_ctrl = b /\ q.lock_cx = p.lock_cx
<1> DEFINE q == [p EXCEPT !.lock_ctrl = b]
<1>1. /\ q \in PGState /\ q.insertpos = p.insertpos
      /\ q.code = p.code /\ q.list = p.list /\ q.labeli = p.labeli
      /\ q.labelspos = p.labelspos /\ q.lock_ctrl = b /\ q.lock_cx = p.lock_cx
  BY DEF Shape, PGState
<1> HIDE DEF q
<1>2. Shape(q)
  BY <1>1, LockShape, Zenon
<1> QED BY <1>1, <1>2 DEF q

\* A loop locks ECX.
LEMMA LockCX ==
  ASSUME NEW p, Shape(p)
  PROVE  LET q == [p EXCEPT !.lock_cx = "loop"]
         IN /\ Shape(q) /\ q.code = p.code /\ q.labeli = p.labeli
            /\ q.insertpos = p.insertpos /\ q.lock_ctrl = p.lock_ctrl
<1> DEFINE q == [p EXCEPT !.lock_cx = "loop"]
<1>1. /\ q \in PGState /\ q.insertpos = p.insertpos
      /\ q.code = p.code /\ q.list = p.list /\ q.labeli = p.labeli
      /\ q.labelspos = p.labelspos /\ q.lock_ctrl = p.lock_ctrl
  BY DEF Shape, PGState
<1> HIDE DEF q
<1>2. Shape(q)
  BY <1>1, LockShape, Zenon
<1> QED BY <1>1, <1>2 DEF q

\* A state that keeps the code keeps what its jumps name.
LEMMA SameCodeGood ==
  ASSUME NEW p, NEW q, NEW n, Good(p, n), Shape(q), q.code = p.code,
         q.insertpos = p.insertpos
  PROVE  Good(q, n)
  BY DEF Good, Sound, RefsBelow, Ids

\* Locking further transfers, or ECX, leaves the program as it was.
LEMMA LockGood ==
  ASSUME NEW p, NEW n, Good(p, n)
  PROVE  /\ LET q == [p EXCEPT !.lock_ctrl = TRUE]
            IN Good(q, n) /\ q.labeli = p.labeli /\ q.lock_ctrl = TRUE
         /\ LET q == [p EXCEPT !.lock_cx = "loop"]
            IN Good(q, n) /\ q.labeli = p.labeli /\ q.lock_ctrl = p.lock_ctrl
<1> DEFINE a == [p EXCEPT !.lock_ctrl = TRUE]
           b == [p EXCEPT !.lock_cx = "loop"]
<1>1. Shape(p)
  BY DEF Good, Sound
<1>2. /\ Shape(a) /\ a.code = p.code /\ a.labeli = p.labeli
      /\ a.insertpos = p.insertpos /\ a.lock_ctrl = TRUE
  BY <1>1, LockCtrl
<1>3. /\ Shape(b) /\ b.code = p.code /\ b.labeli = p.labeli
      /\ b.insertpos = p.insertpos /\ b.lock_ctrl = p.lock_ctrl
  BY <1>1, LockCX
<1> HIDE DEF a, b
<1>4. Good(a, n) /\ Good(b, n)
  BY <1>2, <1>3, SameCodeGood
<1> QED BY <1>2, <1>3, <1>4 DEF a, b

\* The transfers and ret are instructions that define no label.
LEMMA TransferInsn ==
  ASSUME NEW op \in Transfers \cup {"ret"}, NEW arg \in Int
  PROVE  /\ Insn(op, arg) \in PlainInsns
         /\ Insn(op, arg).op = op /\ Insn(op, arg).arg = arg
  BY DEF Insn, PlainInsns, Insns, Ops, Transfers, Jumps, Loops

-----------------------------------------------------------------------------
(* ctrl.c                                                                   *)

\* gen_jmp_to_label creates one label.
LEMMA JmpToLabelGood ==
  ASSUME NEW p, NEW n \in Nat, Good(p, n), p.lock_ctrl = FALSE,
         NEW label \in 0..(p.labeli - 1), p.labeli =< n
  PROVE  LET q == gen_jmp_to_label(p, label)
         IN Good(q, n) /\ q.labeli = p.labeli + 1 /\ q.lock_ctrl = FALSE
<1> DEFINE a == update_insert_pos_to_label(p, label)
           b == stat_insert_insn(a, Insn("jmp", label), "before")
           c == gen_label(b, "after")
<1>0. p.labeli \in Nat
  BY DEF Good, Sound, Shape, PGState
<1>1. Good(a, n) /\ a.labeli = p.labeli /\ a.lock_ctrl = FALSE
  BY MoveGood
<1> HIDE DEF a
<1>2. Insn("jmp", label) \in PlainInsns /\ Insn("jmp", label).arg \in 0..(n - 1)
  BY <1>0, TransferInsn DEF Transfers, Jumps
<1>3. Good(b, n) /\ b.labeli = p.labeli /\ b.lock_ctrl = FALSE
  BY <1>1, <1>2, InsertGood DEF Places
<1> HIDE DEF b
<1>4. Good(c, n) /\ c.labeli = p.labeli + 1 /\ c.lock_ctrl = FALSE
  BY <1>3, LabelGood DEF Places
<1> QED BY <1>4 DEF gen_jmp_to_label, a, b, c

\* A jump leaves every jump in the program with a defined target.
LEMMA DivertGood ==
  ASSUME NEW p, Good(p, p.labeli), p.lock_ctrl = FALSE, NEW op \in Jumps,
         NEW label \in Selectable(p)
  PROVE  LET q == Divert(p, op, label)
         IN Good(q, q.labeli) /\ q.labeli = p.labeli + 1 /\ q.lock_ctrl = FALSE
<1> DEFINE n == p.labeli + 1
           a == stat_insert_insn(p, Insn(op, p.labeli), "after")
           b == IF op = "jmp" THEN a
                ELSE stat_insert_insn(a, Insn("jmp", p.labeli), "after")
           c == IF label = NoLabel THEN gen_label(b, "before") ELSE gen_jmp_to_label(b, label)
<1>0. p.labeli \in Nat /\ n \in Nat
  BY DEF Good, Sound, Shape, PGState
<1>1. Good(p, n)
  BY <1>0 DEF Good, RefsBelow
<1>2. /\ Insn(op, p.labeli) \in PlainInsns /\ Insn(op, p.labeli).arg \in 0..(n - 1)
      /\ Insn("jmp", p.labeli) \in PlainInsns /\ Insn("jmp", p.labeli).arg \in 0..(n - 1)
  BY <1>0, TransferInsn DEF Transfers, Jumps
<1>3. Good(a, n) /\ a.labeli = p.labeli /\ a.lock_ctrl = FALSE
  BY <1>1, <1>2, InsertGood DEF Places
<1> HIDE DEF a
<1>4. Good(b, n) /\ b.labeli = p.labeli /\ b.lock_ctrl = FALSE
  BY <1>2, <1>3, InsertGood DEF Places
<1> HIDE DEF b
<1>5. Good(c, n) /\ c.labeli = n /\ c.lock_ctrl = FALSE
  <2>1. CASE label = NoLabel
    BY <2>1, <1>4, LabelGood DEF Places
  <2>2. CASE label # NoLabel
    <3>1. label \in 0..(p.labeli - 1)
      BY <2>2 DEF Selectable
    <3>2. label \in 0..(b.labeli - 1) /\ b.labeli =< n /\ c = gen_jmp_to_label(b, label)
      BY <2>2, <3>1, <1>0, <1>4
    <3> QED BY <3>2, <1>0, <1>4, JmpToLabelGood
  <2> QED BY <2>1, <2>2
<1> QED BY <1>5 DEF Divert, a, b, c

\* A loop block leaves the insert position between its labels.
LEMMA OpenLoopGood ==
  ASSUME NEW p, Good(p, p.labeli), p.lock_ctrl = FALSE, NEW op \in Loops,
         NEW times \in 0..(CXSize - 1)
  PROVE  LET q == OpenLoop(p, op, times)
         IN Good(q, q.labeli) /\ q.labeli = p.labeli + 2 /\ q.lock_ctrl = TRUE
<1> DEFINE n == p.labeli + 2
           a == gen_label(p, "after")
           b == stat_insert_insn(a, Insn(op, a.labeli), "before")
           c == stat_insert_insn(b, Insn("movecx", times), "before")
           d == gen_label(c, "after")
           e == [d EXCEPT !.lock_ctrl = TRUE]
           f == [e EXCEPT !.lock_cx = "loop"]
<1>0. p.labeli \in Nat /\ n \in Nat
  BY DEF Good, Sound, Shape, PGState
<1>1. Good(p, n)
  BY <1>0 DEF Good, RefsBelow
<1>2. Good(a, n) /\ a.labeli = p.labeli + 1 /\ a.lock_ctrl = FALSE
  BY <1>1, LabelGood DEF Places
<1> HIDE DEF a
<1>3. Insn(op, a.labeli) \in PlainInsns /\ Insn(op, a.labeli).arg \in 0..(n - 1)
  BY <1>0, <1>2, TransferInsn DEF Transfers
<1>4. Good(b, n) /\ b.labeli = p.labeli + 1 /\ b.lock_ctrl = FALSE
  BY <1>2, <1>3, InsertGood DEF Places
<1> HIDE DEF b
<1>5. Insn("movecx", times) \in PlainInsns /\ Insn("movecx", times).op \notin Transfers
  <2>1. CXSize \in Nat /\ times \in Int
    BY ConstantsAssumption
  <2> QED BY <2>1 DEF Insn, PlainInsns, Insns, Ops, Transfers, Jumps, Loops
<1>6. Good(c, n) /\ c.labeli = p.labeli + 1 /\ c.lock_ctrl = FALSE
  BY <1>4, <1>5, InsertGood DEF Places
<1> HIDE DEF c
<1>7. Good(d, n) /\ d.labeli = n
  <2>1. d.labeli = c.labeli + 1 /\ Good(d, n)
    BY <1>6, LabelGood DEF Places
  <2> QED BY <2>1, <1>6, <1>0
<1> HIDE DEF d
<1>8. Good(e, n) /\ e.labeli = n /\ e.lock_ctrl = TRUE
  BY <1>7, LockGood
<1> HIDE DEF e
<1>9. Good(f, n) /\ f.labeli = n /\ f.lock_ctrl = TRUE
  BY <1>8, LockGood
<1>10. f = OpenLoop(p, op, times)
  BY Zenon DEF OpenLoop, a, b, c, d, e, f
<1> HIDE DEF f
<1> QED BY <1>9, <1>10

\* A call block leaves the insert position at the label of its body.
LEMMA OpenCallGood ==
  ASSUME NEW p, Good(p, p.labeli), p.lock_ctrl = FALSE
  PROVE  LET q == OpenCall(p)
         IN Good(q, q.labeli) /\ q.labeli = p.labeli + 3 /\ q.lock_ctrl = TRUE
<1> DEFINE n == p.labeli + 3
           a == stat_insert_insn(p, Insn("jmp", p.labeli + 1), "after")
           b == gen_label(a, "after")
           c == stat_insert_insn(b, Insn("ret", 0), "after")
           d == gen_label(c, "after")
           e == stat_insert_insn(d, Insn("call", p.labeli), "after")
           f == gen_label(e, "after")
           g == update_insert_pos_to_label(f, p.labeli)
           h == [g EXCEPT !.lock_ctrl = TRUE]
<1>0. p.labeli \in Nat /\ n \in Nat
  BY DEF Good, Sound, Shape, PGState
<1>1. Good(p, n)
  BY <1>0 DEF Good, RefsBelow
<1>2. /\ Insn("jmp", p.labeli + 1) \in PlainInsns /\ Insn("jmp", p.labeli + 1).arg \in 0..(n - 1)
      /\ Insn("call", p.labeli) \in PlainInsns /\ Insn("call", p.labeli).arg \in 0..(n - 1)
      /\ Insn("ret", 0) \in PlainInsns /\ Insn("ret", 0).op \notin Transfers
  BY <1>0, TransferInsn DEF Transfers, Jumps, Loops
<1>3. Good(a, n) /\ a.labeli = p.labeli /\ a.lock_ctrl = FALSE
  BY <1>1, <1>2, InsertGood DEF Places
<1> HIDE DEF a
<1>4. Good(b, n) /\ b.labeli = p.labeli + 1 /\ b.lock_ctrl = FALSE
  BY <1>3, LabelGood DEF Places
<1> HIDE DEF b
<1>5. Good(c, n) /\ c.labeli = p.labeli + 1 /\ c.lock_ctrl = FALSE
  BY <1>2, <1>4, InsertGood DEF Places
<1> HIDE DEF c
<1>6. Good(d, n) /\ d.labeli = p.labeli + 2 /\ d.lock_ctrl = FALSE
  <2>1. d.labeli = c.labeli + 1 /\ Good(d, n) /\ d.lock_ctrl = FALSE
    BY <1>5, LabelGood DEF Places
  <2> QED BY <2>1, <1>5, <1>0
<1> HIDE DEF d
<1>7. Good(e, n) /\ e.labeli = p.labeli + 2 /\ e.lock_ctrl = FALSE
  BY <1>2, <1>6, InsertGood DEF Places
<1> HIDE DEF e
<1>8. Good(f, n) /\ f.labeli = n
  <2>1. f.labeli = e.labeli + 1 /\ Good(f, n)
    BY <1>7, LabelGood DEF Places
  <2> QED BY <2>1, <1>7, <1>0
<1> HIDE DEF f
<1>9. Good(g, n) /\ g.labeli = n
  <2>1. p.labeli \in 0..(f.labeli - 1)
    BY <1>0, <1>8
  <2> QED BY <2>1, <1>8, MoveGood
<1> HIDE DEF g
<1>10. Good(h, n) /\ h.labeli = n /\ h.lock_ctrl = TRUE
  BY <1>9, LockGood
<1>11. h = OpenCall(p)
  BY Zenon DEF OpenCall, a, b, c, d, e, f, g, h
<1> HIDE DEF h
<1> QED BY <1>10, <1>11

\* A program sound for one value of the label counter is sound for a larger one.
LEMMA GoodMono ==
  ASSUME NEW p, NEW m \in Nat, NEW n \in Nat, Good(p, m), m =< n
  PROVE  Good(p, n)
  BY DEF Good, RefsBelow

\* likely_gen_label, whether or not it defines a label, keeps the program sound and the lock.
LEMMA LikelyGood ==
  ASSUME NEW p, Good(p, p.labeli), NEW happens \in BOOLEAN
  PROVE  LET q == likely_gen_label(p, happens)
         IN Good(q, q.labeli) /\ q.lock_ctrl = p.lock_ctrl /\ p.labeli =< q.labeli
<1>0. p.labeli \in Nat /\ p.lock_ctrl \in BOOLEAN
  BY DEF Good, Sound, Shape, PGState
<1>1. CASE happens /\ p.lock_ctrl = FALSE
  <2> DEFINE q == gen_label(p, "after")
  <2>1. Good(p, p.labeli + 1)
    BY <1>0, GoodMono
  <2>2. Good(q, p.labeli + 1) /\ q.labeli = p.labeli + 1 /\ q.lock_ctrl = FALSE
    BY <2>1, <1>1, LabelGood DEF Places
  <2> HIDE DEF q
  <2>3. Good(q, q.labeli)
    BY <2>2, Zenon
  <2>4. q.lock_ctrl = p.lock_ctrl /\ p.labeli =< q.labeli
    <3>1. q.lock_ctrl = p.lock_ctrl
      BY <2>2, <1>1, Zenon
    <3>2. p.labeli =< q.labeli
      BY <2>2, <1>0
    <3> QED BY <3>1, <3>2
  <2>5. q = likely_gen_label(p, happens)
    BY <1>1 DEF q, likely_gen_label
  <2> QED BY <2>3, <2>4, <2>5
<1>2. CASE ~(happens /\ p.lock_ctrl = FALSE)
  <2>1. likely_gen_label(p, happens) = p
    BY <1>0, <1>2 DEF likely_gen_label, gen_label
  <2> QED BY <2>1, <1>0
<1> QED BY <1>1, <1>2

\* gen_control_transfer_insn keeps the state good; a block takes the ctrl lock
\* and the label it returns exists.
LEMMA TransferGood ==
  ASSUME NEW p, Good(p, p.labeli), NEW op \in Transfers, NEW times \in 0..(CXSize - 1),
         NEW label \in Selectable(p)
  PROVE  LET q == gen_control_transfer_insn(p, op, times, label)
             r == ReturnedLabel(p, op, label)
         IN /\ Good(q, q.labeli) /\ r \in Int /\ p.labeli =< q.labeli
            /\ op \in Jumps => q.lock_ctrl = p.lock_ctrl
            /\ p.lock_ctrl = FALSE /\ op \notin Jumps =>
                 q.lock_ctrl = TRUE /\ r \in 0..(q.labeli - 1)
<1> DEFINE q == gen_control_transfer_insn(p, op, times, label)
           r == ReturnedLabel(p, op, label)
<1>0. p.labeli \in Nat /\ p.lock_ctrl \in BOOLEAN /\ label \in Int
  BY DEF Good, Sound, Shape, PGState, Selectable, NoLabel
<1>1. CASE p.lock_ctrl = TRUE
  <2>1. q = p /\ r = NoLabel
    BY <1>1 DEF gen_control_transfer_insn, ReturnedLabel
  <2> QED BY <2>1, <1>0, <1>1 DEF NoLabel
<1>2. CASE p.lock_ctrl = FALSE /\ op \in Jumps
  <2>1. q = Divert(p, op, label) /\ r = label
    BY <1>2 DEF gen_control_transfer_insn, ReturnedLabel, Jumps, Loops
  <2> HIDE DEF q, r
  <2>2. Good(q, q.labeli) /\ q.labeli = p.labeli + 1 /\ q.lock_ctrl = FALSE
    BY <2>1, <1>2, DivertGood
  <2>3. Good(q, q.labeli) /\ r \in Int /\ q.lock_ctrl = p.lock_ctrl
    BY <2>1, <2>2, <1>0, <1>2
  <2>4. p.labeli =< q.labeli
    BY <2>2, <1>0
  <2> QED BY <2>3, <2>4, <1>2 DEF q, r
<1>3. CASE p.lock_ctrl = FALSE /\ op \in Loops
  <2>1. q = OpenLoop(p, op, times) /\ r = p.labeli
    BY <1>3 DEF gen_control_transfer_insn, ReturnedLabel, Jumps, Loops
  <2> HIDE DEF q, r
  <2>2. Good(q, q.labeli) /\ q.labeli = p.labeli + 2 /\ q.lock_ctrl = TRUE
    BY <2>1, <1>3, OpenLoopGood
  <2>3. Good(q, q.labeli) /\ r \in Int /\ q.lock_ctrl = TRUE /\ r \in 0..(q.labeli - 1)
    BY <2>1, <2>2, <1>0
  <2>4. op \notin Jumps /\ p.labeli =< q.labeli
    BY <2>2, <1>0, <1>3 DEF Jumps, Loops
  <2> QED BY <2>3, <2>4 DEF q, r
<1>4. CASE p.lock_ctrl = FALSE /\ op = "call"
  <2>1. q = OpenCall(p) /\ r = p.labeli + 2
    BY <1>4 DEF gen_control_transfer_insn, ReturnedLabel, Jumps, Loops
  <2> HIDE DEF q, r
  <2>2. Good(q, q.labeli) /\ q.labeli = p.labeli + 3 /\ q.lock_ctrl = TRUE
    BY <2>1, <1>4, OpenCallGood
  <2>3. Good(q, q.labeli) /\ r \in Int /\ q.lock_ctrl = TRUE /\ r \in 0..(q.labeli - 1)
    BY <2>1, <2>2, <1>0
  <2>4. op \notin Jumps /\ p.labeli =< q.labeli
    BY <2>2, <1>0, <1>4 DEF Jumps
  <2> QED BY <2>3, <2>4 DEF q, r
<1> QED BY <1>0, <1>1, <1>2, <1>3, <1>4 DEF Transfers

\* gen_control_transfer_finish: unless ctrl is locked, the tail label it jumps
\* to is created.
LEMMA FinishGood ==
  ASSUME NEW p, Good(p, p.labeli)
  PROVE  LET q == gen_control_transfer_finish(p)
         IN /\ Sound(q) /\ q.list # << >>
            /\ p.lock_ctrl = FALSE => Good(q, q.labeli)
<1> DEFINE n == p.labeli + 1
           insn == Insn("jmp", p.labeli)
           a == stat_insert_insn(p, insn, "after")
           q == gen_label(a, "tail")
<1>0. p.labeli \in Nat /\ n \in Nat /\ p.lock_ctrl \in BOOLEAN
  BY DEF Good, Sound, Shape, PGState
<1>1. Good(p, n)
  BY <1>0, GoodMono
<1>2. insn \in PlainInsns /\ insn.arg \in 0..(n - 1)
  BY <1>0, TransferInsn DEF Transfers, Jumps
<1> HIDE DEF insn
<1>3. Good(a, n) /\ a.labeli = p.labeli /\ a.lock_ctrl = p.lock_ctrl
  BY <1>1, <1>2, InsertGood DEF Places
<1>4. Inserted(p, a, insn)
  BY <1>2, InsertSound DEF Places, Good
<1> HIDE DEF a
<1>5. a.list # << >>
  <2>1. a.list \in Seq(Nat) /\ Len(a.list) = Len(p.list) + 1 /\ Len(p.list) \in Nat
    BY <1>4, LenProperties DEF Inserted, LongerBy, PGState, Good, Sound, Shape
  <2> QED BY <2>1, EmptySeq
<1>6. CASE p.lock_ctrl = FALSE
  <2>1. Good(q, n) /\ q.labeli = n
    BY <1>3, <1>6, LabelGood DEF Places
  <2> HIDE DEF q
  <2>2. q.list # << >>
    <3>1. q.list \in Seq(Nat) /\ Len(q.list) = Len(q.code)
      BY <2>1 DEF Good, Sound, Shape, PGState, ListComplete
    <3>2. Sound(a) /\ a.lock_ctrl = FALSE
      BY <1>3, <1>6 DEF Good
    <3>3. q.code = Append(a.code, Insn("label", a.labeli))
      BY <3>2, GenLabel DEF q, Places
    <3>4. a.code \in Seq(Insns) /\ Insn("label", a.labeli) \in Insns
      BY <1>0, <1>3 DEF Good, Sound, Shape, PGState, Insn, Insns, Ops
    <3>5. Len(q.code) = Len(a.code) + 1 /\ Len(a.code) \in Nat
      BY <3>3, <3>4, AppendProperties, LenProperties
    <3> QED BY <3>1, <3>5, EmptySeq
  <2>3. Sound(q) /\ q.list # << >> /\ Good(q, q.labeli)
    BY <2>1, <2>2 DEF Good
  <2>4. q = gen_control_transfer_finish(p)
    BY DEF q, a, insn, gen_control_transfer_finish
  <2> QED BY <2>3, <2>4
<1>7. CASE p.lock_ctrl = TRUE
  <2>1. q = a
    BY <1>3, <1>7 DEF gen_label
  <2>2. q = gen_control_transfer_finish(p)
    BY DEF q, a, insn, gen_control_transfer_finish
  <2>3. Sound(a) /\ a.list # << >>
    BY <1>3, <1>5 DEF Good
  <2> HIDE DEF q
  <2> QED BY <2>1, <2>2, <2>3, <1>7
<1> QED BY <1>0, <1>6, <1>7

-----------------------------------------------------------------------------
(* The inductive invariant.                                                 *)

Used == [work : Nat, transfer : Nat, likely : Nat]

\* Counting one more instruction, transfer or chance label keeps the three counts naturals.
LEMMA UseMore ==
  ASSUME NEW u \in Used, NEW n \in Nat
  PROVE  /\ [u EXCEPT !.work = n] \in Used
         /\ [u EXCEPT !.transfer = n] \in Used
         /\ [u EXCEPT !.likely = n] \in Used
  BY DEF Used

Phases == {"gen", "run", "rejected", "halt", "crash"}

\* Every pointer of the machine is an entry, or 0 behind the last one.
MachineOK ==
  /\ cpu \in [ip : Ids(pg) \cup {0}, ecx : 0..(CXSize - 1), stack : Seq(Ids(pg) \cup {0})]
  /\ phase = "gen" => cpu.ip = 0 /\ cpu.stack = << >>

IInv ==
  /\ Shape(pg)
  /\ phase = "gen" => RefsBelow(pg, pg.labeli)
  /\ phase = "run" => Assembles(pg)
  /\ next_label \in Int
  /\ phase \in Phases
  /\ used \in Used
  /\ MachineOK

\* The invariant holds before the template walk begins.
LEMMA IInvInit == Init => IInv
<1> SUFFICES ASSUME Init PROVE IInv
  OBVIOUS
<1>1. pg \in PGState
  <2>1. << >> \in Seq(Insns) /\ << >> \in Seq(Nat)
    OBVIOUS
  <2> QED BY <2>1 DEF Init, PGState, NoEntry
<1>2. pg.code = << >> /\ pg.list = << >> /\ pg.labelspos = << >> /\ pg.labeli = 0
      /\ pg.insertpos = NoEntry
  BY DEF Init
<1>3. Shape(pg)
  <2>1. \A i \in DOMAIN pg.list : pg.list[i] \in Ids(pg)
    BY <1>2
  <2>2. ListComplete(pg) /\ MovesInRange(pg)
    BY <1>2 DEF ListComplete, MovesInRange, Ids
  <2>3. Len(pg.labelspos) = pg.labeli /\ 0..(pg.labeli - 1) = {}
    BY <1>2
  <2>4. LabelsMatch(pg)
    BY <1>2, <2>3 DEF LabelsMatch
  <2> QED BY <1>1, <1>2, <2>1, <2>2, <2>3, <2>4 DEF Shape
<1>4. RefsBelow(pg, pg.labeli)
  BY <1>2 DEF RefsBelow, Ids
<1>5. MachineOK
  <2>1. 0 \in 0..(CXSize - 1)
    BY ConstantsAssumption
  <2> QED BY <2>1 DEF MachineOK, Init
<1> QED BY <1>3, <1>4, <1>5 DEF IInv, Init, NoBlock, Phases, Used

\* A generation step that leaves a good state, and the machine alone.
LEMMA GenStep ==
  ASSUME IInv, phase = "gen", phase' = phase, Shape(pg'), RefsBelow(pg', pg.labeli'),
         next_label' \in Int, used' \in Used,
         cpu' = cpu
  PROVE  IInv'
<1>1. /\ cpu = [ip |-> cpu.ip, ecx |-> cpu.ecx, stack |-> cpu.stack]
      /\ cpu.ip = 0 /\ cpu.stack = << >> /\ cpu.ecx \in 0..(CXSize - 1)
  BY DEF IInv, MachineOK
<1>2. cpu.stack \in Seq(Ids(pg') \cup {0}) /\ cpu.ip \in Ids(pg') \cup {0}
  BY <1>1
<1>3. cpu' \in [ip : Ids(pg') \cup {0}, ecx : 0..(CXSize - 1), stack : Seq(Ids(pg') \cup {0})]
  <2> DEFINE S == Ids(pg') \cup {0}
             T == Seq(S)
  <2>1. cpu.ip \in S /\ cpu.stack \in T
    BY <1>2
  <2> HIDE DEF S, T
  <2>2. cpu' \in [ip : S, ecx : 0..(CXSize - 1), stack : T]
    BY <1>1, <2>1
  <2> QED BY <2>2 DEF S, T
<1>4. MachineOK'
  BY <1>1, <1>3 DEF MachineOK
<1> QED BY <1>4 DEF IInv

\* A template instruction, with the label that may come before it, keeps the invariant.
LEMMA WalkInsnInv ==
  ASSUME IInv, NEW op \in {"work", "workcx"}, NEW happens \in BOOLEAN, WalkInsn(op, happens)
  PROVE  IInv'
<1> DEFINE a == likely_gen_label(pg, happens)
           insn == Insn(op, Serial)
           q == stat_insert_insn(a, insn, "after")
<1>1. Good(pg, pg.labeli) /\ phase = "gen" /\ used.work \in Nat /\ used.likely \in Nat
      /\ used.transfer \in Nat
  BY DEF IInv, WalkInsn, Walking, Good, Sound, Used
<1>2. Good(a, a.labeli)
  BY <1>1, LikelyGood
<1> HIDE DEF a
<1>3. insn \in PlainInsns /\ insn.op \notin Transfers
  BY <1>1 DEF Insn, Serial, PlainInsns, Insns, Ops, Transfers, Jumps, Loops
<1> HIDE DEF insn
<1>4. Good(q, a.labeli) /\ q.labeli = a.labeli
  BY <1>2, <1>3, InsertGood DEF Places
<1> HIDE DEF q
<1>5. pg' = q
  BY DEF WalkInsn, a, insn, q
<1>6. Shape(pg') /\ RefsBelow(pg', pg.labeli')
  BY <1>4, <1>5 DEF Good, Sound
<1>7. used' \in Used
  <2> DEFINE w == used.work + 1
             l == used.likely + (IF happens THEN 1 ELSE 0)
             u == [used EXCEPT !.work = w]
  <2>1. w \in Nat /\ l \in Nat
    BY <1>1
  <2>2. used' = [u EXCEPT !.likely = l]
    BY Zenon DEF WalkInsn
  <2> HIDE DEF w, l
  <2>3. u \in Used
    BY <2>1, UseMore DEF IInv
  <2> HIDE DEF u
  <2> QED BY <2>1, <2>2, <2>3, UseMore
<1> QED BY <1>1, <1>6, <1>7, GenStep DEF WalkInsn, IInv

\* A check element keeps the invariant.
LEMMA WalkCheckInv ==
  ASSUME IInv, WalkCheck
  PROVE  IInv'
<1> DEFINE insn == Insn("check", Serial)
           q == stat_insert_insn(pg, insn, "after")
<1>1. Good(pg, pg.labeli) /\ phase = "gen" /\ used.work \in Nat /\ used.likely \in Nat
      /\ used.transfer \in Nat
  BY DEF IInv, WalkCheck, Walking, Good, Sound, Used
<1>2. insn \in PlainInsns /\ insn.op \notin Transfers
  BY <1>1 DEF Insn, Serial, PlainInsns, Insns, Ops, Transfers, Jumps, Loops
<1> HIDE DEF insn
<1>3. Good(q, pg.labeli) /\ q.labeli = pg.labeli
  BY <1>1, <1>2, InsertGood DEF Places
<1> HIDE DEF q
<1>4. pg' = q
  BY DEF WalkCheck, insn, q
<1>5. Shape(pg') /\ RefsBelow(pg', pg.labeli')
  BY <1>3, <1>4 DEF Good, Sound
<1>6. used' \in Used
  <2> DEFINE n == used.work + 1
  <2>1. n \in Nat /\ used \in Used
    BY <1>1 DEF IInv
  <2>2. used' = [used EXCEPT !.work = n]
    BY Zenon DEF WalkCheck
  <2> HIDE DEF n
  <2> QED BY <2>1, <2>2, UseMore
<1> QED BY <1>1, <1>5, <1>6, GenStep DEF WalkCheck, IInv

\* A jump written as an element of the template keeps the invariant.
LEMMA WalkTransferElemInv ==
  ASSUME IInv, NEW op \in JumpElems, NEW happens \in BOOLEAN, NEW label \in Int,
         WalkTransferElem(op, happens, label)
  PROVE  IInv'
<1> DEFINE a == likely_gen_label(pg, happens)
           b == gen_control_transfer_insn(a, op, CXSize - 1, label)
           again == ReturnedLabel(a, op, label) = NoLabel
           raw == Insn("raw", 0)
           c == stat_insert_insn(b, raw, "after")
<1>1. Good(pg, pg.labeli) /\ phase = "gen" /\ used.work \in Nat /\ used.likely \in Nat
      /\ used.transfer \in Nat
  BY DEF IInv, WalkTransferElem, Walking, Good, Sound, Used
<1>2. op \in Transfers /\ CXSize - 1 \in 0..(CXSize - 1)
  BY ConstantsAssumption
<1>3. Good(a, a.labeli) /\ label \in Selectable(a)
  BY <1>1, LikelyGood DEF WalkTransferElem
<1> HIDE DEF a
<1>4. Good(b, b.labeli)
  BY <1>2, <1>3, TransferGood
<1> HIDE DEF b
<1>5. raw \in PlainInsns /\ raw.op \notin Transfers
  BY DEF Insn, PlainInsns, Insns, Ops, Transfers, Jumps, Loops
<1> HIDE DEF raw
<1>6. Good(c, b.labeli) /\ c.labeli = b.labeli
  BY <1>4, <1>5, InsertGood DEF Places
<1> HIDE DEF c
<1>7. pg' = b \/ pg' = c
  BY DEF WalkTransferElem, a, b, c, raw
<1>8. Shape(pg') /\ RefsBelow(pg', pg.labeli')
  BY <1>4, <1>6, <1>7 DEF Good, Sound
<1>9. used' \in Used
  <2> DEFINE t == used.transfer + 1
             l == used.likely + (IF happens THEN 1 ELSE 0)
             u == [used EXCEPT !.transfer = t]
  <2>1. t \in Nat /\ l \in Nat
    BY <1>1
  <2>2. used' = [u EXCEPT !.likely = l]
    BY Zenon DEF WalkTransferElem
  <2> HIDE DEF t, l
  <2>3. u \in Used
    BY <2>1, UseMore DEF IInv
  <2> HIDE DEF u
  <2> QED BY <2>1, <2>2, <2>3, UseMore
<1> QED BY <1>1, <1>8, <1>9, GenStep DEF WalkTransferElem, IInv

\* Opening a jump, loop or call block keeps the invariant.
LEMMA BeginTransferInv ==
  ASSUME IInv, NEW op \in TransferTypes, NEW times \in Times,
         NEW label \in Selectable(pg), BeginTransfer(op, times, label)
  PROVE  IInv'
<1> DEFINE q == gen_control_transfer_insn(pg, op, times, label)
           r == ReturnedLabel(pg, op, label)
<1>1. Good(pg, pg.labeli) /\ phase = "gen" /\ used.work \in Nat /\ used.likely \in Nat
      /\ used.transfer \in Nat
  BY DEF IInv, BeginTransfer, Walking, Good, Sound, Used
<1>2. op \in Transfers /\ times \in 0..(CXSize - 1)
  BY ConstantsAssumption
<1>3. Good(q, q.labeli) /\ r \in Int
  BY <1>1, <1>2, TransferGood
<1> HIDE DEF q, r
<1>4. pg' = q /\ next_label' = r
  BY DEF BeginTransfer, q, r
<1>5. Shape(pg') /\ RefsBelow(pg', pg.labeli')
  BY <1>3, <1>4 DEF Good, Sound
<1>6. used' \in Used
  <2> DEFINE n == used.transfer + 2
  <2>1. n \in Nat /\ used \in Used
    BY <1>1 DEF IInv
  <2>2. used' = [used EXCEPT !.transfer = n]
    BY Zenon DEF BeginTransfer
  <2> HIDE DEF n
  <2> QED BY <2>1, <2>2, UseMore
<1> QED BY <1>1, <1>3, <1>4, <1>5, <1>6, GenStep DEF BeginTransfer, IInv

\* Closing a block, which moves the insert position to next_label, keeps the invariant.
LEMMA EndTransferInv ==
  ASSUME IInv, EndTransfer
  PROVE  IInv'
<1> DEFINE a == update_insert_pos_to_label(pg, next_label)
           q == [a EXCEPT !.lock_ctrl = FALSE]
<1>1. Shape(pg) /\ RefsBelow(pg, pg.labeli) /\ phase = "gen"
  BY DEF IInv, EndTransfer, Walking
<1>2. Shape(a) /\ a.code = pg.code /\ a.labeli = pg.labeli
  BY <1>1, MoveShape
<1> HIDE DEF a
<1>3. Shape(q) /\ q.code = pg.code /\ q.labeli = pg.labeli
  BY <1>2, LockCtrl
<1> HIDE DEF q
<1>4. pg' = q
  BY DEF EndTransfer, a, q
<1>5. Shape(pg') /\ RefsBelow(pg', pg.labeli')
  BY <1>1, <1>3, <1>4 DEF RefsBelow, Ids
<1> QED BY <1>1, <1>5, GenStep DEF EndTransfer, IInv, NoBlock

\* Ending the walk starts the machine at the first listed instruction of a sound program.
LEMMA FinishInv ==
  ASSUME IInv, Finish
  PROVE  IInv'
<1> DEFINE q == gen_control_transfer_finish(pg)
<1>1. Good(pg, pg.labeli)
  BY DEF IInv, Finish, Walking, Good, Sound
<1>2. Sound(q) /\ q.list # << >>
  BY <1>1, FinishGood
<1> HIDE DEF q
<1>3. pg' = q /\ cpu' = [cpu EXCEPT !.ip = q.list[1]]
  BY DEF Finish, q
<1>4. /\ phase' \in Phases /\ phase' # "gen"
      /\ phase' = "run" => Assembles(pg')
  BY <1>3 DEF Finish, Phases, q
<1>5. q.list[1] \in Ids(q)
  <2>1. q.list \in Seq(Nat)
    BY <1>2 DEF Sound, Shape, PGState
  <2>2. 1 \in DOMAIN q.list
    BY <1>2, <2>1, EmptySeq, LenProperties
  <2> QED BY <2>2, <1>2 DEF Sound, Shape
<1>6. MachineOK'
  <2> DEFINE S == Ids(q) \cup {0}
             T == Seq(S)
             id == q.list[1]
  <2>1. /\ cpu = [ip |-> cpu.ip, ecx |-> cpu.ecx, stack |-> cpu.stack]
        /\ cpu.stack = << >> /\ cpu.ecx \in 0..(CXSize - 1)
    BY DEF IInv, MachineOK, Finish, Walking
  <2>2. cpu.stack \in T /\ id \in S
    BY <2>1, <1>5
  <2> HIDE DEF T, S, id
  <2>3. [cpu EXCEPT !.ip = id] \in [ip : S, ecx : 0..(CXSize - 1), stack : T]
    BY <2>1, <2>2
  <2> QED BY <2>3, <1>3, <1>4 DEF MachineOK, S, T, id
<1> QED BY <1>2, <1>3, <1>4, <1>6 DEF IInv, Finish, Sound

-----------------------------------------------------------------------------
(* Executing the program stays within it.                                   *)

\* The instruction after a listed one is listed too, or the program ends there.
LEMMA FollowingListed ==
  ASSUME Shape(pg), NEW id \in Ids(pg)
  PROVE  Following(id) \in Ids(pg) \cup {0}
<1> DEFINE i == PlaceOf(pg.list, id)
<1>1. pg.list \in Seq(Nat) /\ DOMAIN pg.list = 1..Len(pg.list) /\ Len(pg.list) \in Nat
      /\ DOMAIN pg.code = Ids(pg)
  BY LenProperties DEF Shape, PGState, Ids
<1>2. i \in DOMAIN pg.list
  <2>1. \E k \in DOMAIN pg.list : pg.list[k] = id
    BY <1>1 DEF Shape, ListComplete
  <2> QED BY <2>1 DEF PlaceOf
<1> HIDE DEF i
<1>3. i # Len(pg.list) => pg.list[i + 1] \in Ids(pg)
  BY <1>1, <1>2, SMTT(30) DEF Shape
<1> QED BY <1>3 DEF Following, i

\* In a program that assembles, the target of a transfer is one of its instructions.
LEMMA GotoDefined ==
  ASSUME Shape(pg), Assembles(pg), NEW id \in Ids(pg), pg.code[id].op \in Transfers
  PROVE  Goto(pg.code[id].arg) \in Ids(pg)
<1>1. DOMAIN pg.code = Ids(pg)
  BY LenProperties DEF Shape, PGState, Ids
<1>2. Definitions(pg, pg.code[id].arg) # {}
  BY <1>1 DEF Assembles
<1> QED BY <1>1, <1>2 DEF Goto, Definitions

\* What a machine step may do.
LEMMA RunStep ==
  ASSUME IInv, phase = "run", phase' \in Phases \ {"gen"},
         NEW ip \in Ids(pg) \cup {0}, NEW ecx \in 0..(CXSize - 1),
         NEW stack \in Seq(Ids(pg) \cup {0}),
         cpu' = [ip |-> ip, ecx |-> ecx, stack |-> stack],
         UNCHANGED <<pg, next_label, used>>
  PROVE  IInv'
<1> DEFINE S == Ids(pg) \cup {0}
           T == Seq(S)
<1>1. ip \in S /\ stack \in T
  OBVIOUS
<1> HIDE DEF S, T
<1>2. cpu' \in [ip : S, ecx : 0..(CXSize - 1), stack : T]
  BY <1>1
<1>3. MachineOK'
  BY <1>2 DEF MachineOK, S, T
<1> QED BY <1>3 DEF IInv

\* Each instruction the generated program executes keeps the machine's pointers inside it.
LEMMA RunInv ==
  ASSUME IInv, Run
  PROVE  IInv'
<1> DEFINE S == Ids(pg) \cup {0}
           T == Seq(S)
<1>1. phase = "run" /\ Shape(pg) /\ Assembles(pg)
  BY DEF IInv, Run, Skip, Execute, LoadCount, Jump, JumpIf, LoopBack, CallBody,
         Return, Crash, Halt, At
<1>2. /\ cpu = [ip |-> cpu.ip, ecx |-> cpu.ecx, stack |-> cpu.stack]
      /\ cpu.ip \in S /\ cpu.ecx \in 0..(CXSize - 1) /\ cpu.stack \in T
      /\ CXSize \in Nat \ {0}
  BY ConstantsAssumption DEF IInv, MachineOK
<1>3. cpu.ip # 0 => cpu.ip \in Ids(pg) /\ Following(cpu.ip) \in S
  BY <1>1, <1>2, FollowingListed
<1>4. cpu.ip # 0 /\ pg.code[cpu.ip].op \in Transfers => Goto(pg.code[cpu.ip].arg) \in S
  BY <1>1, <1>3, GotoDefined
<1>5. phase \in Phases \ {"gen"}
  BY <1>1 DEF Phases
<1> HIDE DEF S, T
<1> SUFFICES \E ip \in S, ecx \in 0..(CXSize - 1), stack \in T :
               /\ cpu' = [ip |-> ip, ecx |-> ecx, stack |-> stack]
               /\ phase' \in Phases \ {"gen"}
               /\ UNCHANGED <<pg, next_label, used>>
  BY <1>1, RunStep DEF S, T
<1>a. CASE Skip
  <2>1. cpu' = [ip |-> Following(cpu.ip), ecx |-> cpu.ecx, stack |-> cpu.stack]
    BY <1>a, <1>2 DEF Skip
  <2>2. Following(cpu.ip) \in S
    BY <1>a, <1>3 DEF Skip, At
  <2> QED BY <1>a, <2>1, <2>2, <1>2, <1>5 DEF Skip, Generated
<1>b. CASE Execute
  <2>1. PICK cx \in IF At({"workcx"}) THEN 0..(CXSize - 1) ELSE {cpu.ecx} :
          cpu' = [cpu EXCEPT !.ip = Following(@), !.ecx = cx]
    BY <1>b DEF Execute
  <2> DEFINE ip == Following(cpu.ip)
             c  == [cpu EXCEPT !.ip = ip]
  <2>2. cx \in 0..(CXSize - 1)
    BY <2>1, <1>2
  <2>3. ip \in S
    BY <1>b, <1>3 DEF Execute, At
  <2>4. cpu' = [c EXCEPT !.ecx = cx]
    BY <2>1, Zenon
  <2> HIDE DEF ip
  <2>5. c = [ip |-> ip, ecx |-> cpu.ecx, stack |-> cpu.stack]
    BY <1>2
  <2> HIDE DEF c
  <2>6. cpu' = [ip |-> ip, ecx |-> cx, stack |-> cpu.stack]
    BY <2>4, <2>5
  <2> QED BY <1>b, <2>2, <2>3, <2>6, <1>2, <1>5 DEF Execute, Generated
<1>c. CASE LoadCount
  <2> DEFINE ip == Following(cpu.ip)
             cx == Here
             c  == [cpu EXCEPT !.ip = ip]
  <2>1. ip \in S /\ cpu.ip \in Ids(pg) /\ pg.code[cpu.ip].op = "movecx"
    BY <1>c, <1>3 DEF LoadCount, At
  <2>2. cx \in 0..(CXSize - 1)
    BY <1>1, <2>1 DEF Here, Shape, MovesInRange
  <2>3. cpu' = [c EXCEPT !.ecx = cx]
    BY <1>c, Zenon DEF LoadCount
  <2> HIDE DEF ip, cx
  <2>4. c = [ip |-> ip, ecx |-> cpu.ecx, stack |-> cpu.stack]
    BY <1>2
  <2> HIDE DEF c
  <2>5. cpu' = [ip |-> ip, ecx |-> cx, stack |-> cpu.stack]
    BY <2>3, <2>4
  <2> QED BY <1>c, <2>1, <2>2, <2>5, <1>2, <1>5 DEF LoadCount, Generated
<1>d. CASE Jump
  <2>1. cpu' = [ip |-> Goto(Here), ecx |-> cpu.ecx, stack |-> cpu.stack]
    BY <1>d, <1>2 DEF Jump
  <2>2. Goto(Here) \in S
    BY <1>d, <1>4 DEF Jump, At, Here, Transfers, Jumps
  <2> QED BY <1>d, <2>1, <2>2, <1>2, <1>5 DEF Jump, Generated
<1>e. CASE JumpIf
  <2>1. PICK target \in {Goto(Here), Following(cpu.ip)} : cpu' = [cpu EXCEPT !.ip = target]
    BY <1>e DEF JumpIf
  <2>2. target \in S
    BY <1>e, <2>1, <1>3, <1>4 DEF JumpIf, At, Here, Transfers, Jumps
  <2>3. cpu' = [ip |-> target, ecx |-> cpu.ecx, stack |-> cpu.stack]
    BY <2>1, <1>2
  <2> QED BY <1>e, <2>2, <2>3, <1>2, <1>5 DEF JumpIf, Generated
<1>f. CASE LoopBack
  <2> DEFINE cx == (cpu.ecx - 1) % CXSize
             c  == [cpu EXCEPT !.ecx = cx]
  <2>1. PICK taken \in BOOLEAN :
          cpu' = [cpu EXCEPT !.ecx = cx, !.ip = IF taken THEN Goto(Here) ELSE Following(@)]
    BY <1>f DEF LoopBack
  <2> DEFINE ip == IF taken THEN Goto(Here) ELSE Following(cpu.ip)
  <2>2. ip \in S
    BY <1>f, <1>3, <1>4 DEF LoopBack, At, Here, Transfers
  <2>3. cx \in 0..(CXSize - 1)
    BY <1>2
  <2>4. cpu' = [c EXCEPT !.ip = ip]
    BY <2>1, Zenon
  <2> HIDE DEF ip, cx
  <2>5. c = [ip |-> cpu.ip, ecx |-> cx, stack |-> cpu.stack]
    BY <1>2
  <2> HIDE DEF c
  <2>6. cpu' = [ip |-> ip, ecx |-> cx, stack |-> cpu.stack]
    BY <2>4, <2>5
  <2> QED BY <1>f, <2>2, <2>3, <2>6, <1>2, <1>5 DEF LoopBack, Generated
<1>g. CASE CallBody
  <2> DEFINE ip == Goto(Here)
             st == Append(cpu.stack, Following(cpu.ip))
             c  == [cpu EXCEPT !.ip = ip]
  <2>1. ip \in S /\ Following(cpu.ip) \in S
    BY <1>g, <1>3, <1>4 DEF CallBody, At, Here, Transfers
  <2>2. st \in T
    BY <2>1, <1>2, AppendProperties DEF T
  <2>3. cpu' = [c EXCEPT !.stack = st]
    BY <1>g, Zenon DEF CallBody
  <2> HIDE DEF ip, st
  <2>4. c = [ip |-> ip, ecx |-> cpu.ecx, stack |-> cpu.stack]
    BY <1>2
  <2> HIDE DEF c
  <2>5. cpu' = [ip |-> ip, ecx |-> cpu.ecx, stack |-> st]
    BY <2>3, <2>4
  <2> QED BY <1>g, <2>1, <2>2, <2>5, <1>2, <1>5 DEF CallBody, Generated
<1>h. CASE Return
  <2> DEFINE n  == Len(cpu.stack)
             ip == cpu.stack[n]
             st == SubSeq(cpu.stack, 1, n - 1)
             c  == [cpu EXCEPT !.ip = ip]
  <2>1. n \in Nat /\ n # 0 /\ cpu.stack \in Seq(S)
    BY <1>h, <1>2, EmptySeq, LenProperties DEF Return, T
  <2>2. ip \in S
    BY <2>1, ElementOfSeq
  <2>3. st \in T
    <3>1. \A k \in 1..(n - 1) : cpu.stack[k] \in S
      BY <2>1, ElementOfSeq
    <3>2. 1 \in Int /\ n - 1 \in Int
      BY <2>1
    <3> QED BY <2>1, <3>1, <3>2, SubSeqProperties DEF T
  <2>4. cpu' = [c EXCEPT !.stack = st]
    BY <1>h, Zenon DEF Return
  <2> HIDE DEF ip, st
  <2>5. c = [ip |-> ip, ecx |-> cpu.ecx, stack |-> cpu.stack]
    BY <1>2
  <2> HIDE DEF c
  <2>6. cpu' = [ip |-> ip, ecx |-> cpu.ecx, stack |-> st]
    BY <2>4, <2>5
  <2> QED BY <1>h, <2>2, <2>3, <2>6, <1>2, <1>5 DEF Return, Generated
<1>i. CASE Crash
  BY <1>i, <1>2 DEF Crash, Generated, Phases
<1>j. CASE Halt
  BY <1>j, <1>2 DEF Halt, Generated, Phases
<1> QED BY <1>a, <1>b, <1>c, <1>d, <1>e, <1>f, <1>g, <1>h, <1>i, <1>j DEF Run

-----------------------------------------------------------------------------

\* Every step of the generator and of the generated program keeps the invariant.
LEMMA IInvStep == IInv /\ [Next]_vars => IInv'
<1> SUFFICES ASSUME IInv, [Next]_vars PROVE IInv'
  OBVIOUS
<1>1. CASE UNCHANGED vars
  BY <1>1 DEF vars, IInv, MachineOK, Ids, RefsBelow
<1>2. CASE WalkTemplate
  <2>1. ASSUME NEW op \in {"work", "workcx"}, NEW happens \in BOOLEAN, WalkInsn(op, happens)
        PROVE  IInv'
    BY <2>1, WalkInsnInv
  <2>2. CASE WalkCheck
    BY <2>2, WalkCheckInv
  <2>3. ASSUME NEW op \in JumpElems, NEW happens \in BOOLEAN, NEW label \in NoLabel..pg.labeli,
               WalkTransferElem(op, happens, label)
        PROVE  IInv'
    <3>1. label \in Int
      BY DEF NoLabel, IInv, Shape, PGState
    <3> QED BY <2>3, <3>1, WalkTransferElemInv
  <2>4. ASSUME NEW op \in TransferTypes, NEW times \in Times, NEW label \in Selectable(pg),
               BeginTransfer(op, times, label)
        PROVE  IInv'
    BY <2>4, BeginTransferInv
  <2>5. CASE EndTransfer
    BY <2>5, EndTransferInv
  <2>6. CASE Finish
    BY <2>6, FinishInv
  <2> QED BY <1>2, <2>1, <2>2, <2>3, <2>4, <2>5, <2>6 DEF WalkTemplate
<1>3. CASE Run
  BY <1>3, RunInv
<1> QED BY <1>1, <1>2, <1>3 DEF Next

\* The invariant holds in every state.
LEMMA IInvAlways == Spec => []IInv
  BY IInvInit, IInvStep, PTL DEF Spec

-----------------------------------------------------------------------------
(* What holds for every template.                                           *)

\* Every pointer of the generator (insert position, label positions, list) and
\* of the generated program's processor stays inside the generated code.
THEOREM TypeCorrect == Spec => []TypeOK
<1>1. IInv => TypeOK
  <2> SUFFICES ASSUME IInv PROVE TypeOK
    OBVIOUS
  <2> DEFINE S == 1..Len(pg.code)
  <2>1. pg \in PGState /\ DOMAIN pg.list = 1..Len(pg.list)
        /\ DOMAIN pg.labelspos = 1..Len(pg.labelspos) /\ Len(pg.labelspos) = pg.labeli
        /\ pg.labeli \in Nat
    BY LenProperties DEF IInv, Shape, PGState
  <2>2. ToSet(pg.list) \subseteq S
    BY DEF IInv, Shape, Ids, ToSet
  <2>3. pg.insertpos \in S \cup {NoEntry, Wild}
    BY DEF IInv, Shape, Ids
  <2>4. ToSet(pg.labelspos) \subseteq S
    <3> SUFFICES ASSUME NEW i \in 1..pg.labeli PROVE pg.labelspos[i] \in S
      BY <2>1 DEF ToSet
    <3>1. LabelPos(pg, i - 1) \in S /\ (i - 1) + 1 = i
      BY <2>1 DEF IInv, Shape, Ids
    <3> QED BY <3>1 DEF LabelPos
  <2>5. cpu.ip \in S \cup {0} /\ cpu.ecx \in 0..(CXSize - 1)
    BY DEF IInv, MachineOK, Ids
  <2>6. ToSet(cpu.stack) \subseteq S \cup {0}
    <3>1. cpu.stack \in Seq(S \cup {0})
      BY DEF IInv, MachineOK, Ids
    <3> QED BY <3>1, ElementOfSeq, LenProperties DEF ToSet
  <2> QED BY <2>1, <2>2, <2>3, <2>4, <2>5, <2>6 DEF TypeOK, IInv, Phases
<1> QED BY <1>1, IInvAlways, PTL

\* labelspos[l] is always the one entry that reads "label<l>:", so that code
\* moved to a label by update_insert_pos_to_label lands there.
THEOREM LabelsStayAtTheirPositions == Spec => []LabelsAtTheirPositions
<1>1. IInv => LabelsAtTheirPositions
  BY DEF IInv, Shape, LabelsAtTheirPositions
<1> QED BY <1>1, IInvAlways, PTL

\* No instruction is ever dropped by insnlist.c or listed twice.
THEOREM NothingIsDropped == Spec => []EveryInsnListedOnce
<1>1. IInv => EveryInsnListedOnce
  BY DEF IInv, Shape, EveryInsnListedOnce
<1> QED BY <1>1, IInvAlways, PTL

-----------------------------------------------------------------------------
(* What holds for templates whose transfer blocks are of a loop or call type
   and whose control-transfer elements are jmp or jcc.                      *)

ClosedTemplates == TransferTypes \cap Jumps = {} /\ JumpElems \subseteq Jumps

\* The ctrl lock is held inside a transfer block only, and the label the walk
\* continues at afterwards exists.
BlockOK ==
  /\ pg.insertpos # Wild
  /\ phase # "rejected"
  /\ phase = "gen" =>
       /\ InBlock => next_label \in 0..(pg.labeli - 1)
       /\ pg.lock_ctrl = TRUE => InBlock

\* A sound program whose transfers name labels in use assembles: each label is defined once.
LEMMA GoodAssembles ==
  ASSUME NEW p, Good(p, p.labeli)
  PROVE  Assembles(p)
<1>1. DOMAIN p.code = Ids(p) /\ (\A id \in Ids(p) : p.code[id] \in Insns)
  BY LenProperties, ElementOfSeq DEF Good, Sound, Shape, PGState, Ids
<1>2. LabelsMatch(p) /\ (\A l \in 0..(p.labeli - 1) : LabelPos(p, l) \in Ids(p))
  BY DEF Good, Sound, Shape
<1> SUFFICES ASSUME NEW id \in Ids(p)
             PROVE  /\ p.code[id].op \in Transfers => Definitions(p, p.code[id].arg) # {}
                    /\ p.code[id].op = "label" => Definitions(p, p.code[id].arg) = {id}
  BY <1>1 DEF Assembles
<1> DEFINE l == p.code[id].arg
<1>3. ASSUME p.code[id].op \in Transfers PROVE Definitions(p, l) # {}
  <2>1. l \in 0..(p.labeli - 1)
    BY <1>3 DEF Good, RefsBelow
  <2>2. LabelPos(p, l) \in Definitions(p, l)
    BY <2>1, <1>1, <1>2 DEF Definitions, LabelsMatch
  <2> QED BY <2>2
<1>4. ASSUME p.code[id].op = "label" PROVE Definitions(p, l) = {id}
  <2>1. LabelPos(p, l) = id
    BY <1>1, <1>2, <1>4 DEF LabelsMatch
  <2>2. p.code[id] = Insn("label", l)
    BY <1>1, <1>4 DEF Insn, Insns
  <2>3. ASSUME NEW k \in Definitions(p, l) PROVE k = id
    <3>1. k \in DOMAIN p.code /\ p.code[k].op = "label" /\ p.code[k].arg = l
      BY DEF Definitions, Insn
    <3>2. LabelPos(p, l) = k
      BY <3>1, <1>2 DEF LabelsMatch
    <3> QED BY <3>2, <2>1
  <2> QED BY <2>2, <2>3, <1>1 DEF Definitions
<1> QED BY <1>3, <1>4

\* No block is open, and nothing is locked or rejected, before the walk.
LEMMA BlockOKInit == Init => BlockOK
  BY DEF Init, BlockOK, InBlock, NoEntry, Wild

\* When templates close what they open, every step keeps the state of the open block right.
LEMMA BlockOKStep ==
  ASSUME ClosedTemplates
  PROVE  IInv /\ BlockOK /\ [Next]_vars => BlockOK'
<1> SUFFICES ASSUME IInv, BlockOK, [Next]_vars PROVE BlockOK'
  OBVIOUS
<1>0. pg.labeli \in Nat /\ pg.lock_ctrl \in BOOLEAN /\ next_label \in Int
  BY DEF IInv, Shape, PGState
<1>1. CASE UNCHANGED vars
  BY <1>1 DEF vars, BlockOK, InBlock
<1>2. CASE phase = "gen" /\ phase' = "gen" /\ next_label' = next_label
           /\ pg'.insertpos # Wild /\ pg.labeli =< pg'.labeli /\ pg'.labeli \in Nat
           /\ pg'.lock_ctrl = pg.lock_ctrl
  BY <1>0, <1>2 DEF BlockOK, InBlock
<1>a. ASSUME NEW op \in {"work", "workcx"}, NEW happens \in BOOLEAN, WalkInsn(op, happens)
      PROVE  BlockOK'
  <2> DEFINE a == likely_gen_label(pg, happens)
             insn == Insn(op, Serial)
             q == stat_insert_insn(a, insn, "after")
  <2>1. Good(pg, pg.labeli) /\ phase = "gen" /\ used.work \in Nat
    BY <1>a DEF IInv, WalkInsn, Walking, Good, Sound, Used
  <2>2. Good(a, a.labeli) /\ a.lock_ctrl = pg.lock_ctrl /\ pg.labeli =< a.labeli
    BY <2>1, LikelyGood
  <2> HIDE DEF a
  <2>3. insn \in PlainInsns /\ insn.op \notin Transfers
    BY <2>1 DEF Insn, Serial, PlainInsns, Insns, Ops, Transfers, Jumps, Loops
  <2> HIDE DEF insn
  <2>4. Good(q, a.labeli) /\ q.labeli = a.labeli /\ q.lock_ctrl = a.lock_ctrl
    BY <2>2, <2>3, InsertGood DEF Places
  <2> HIDE DEF q
  <2>5. pg' = q /\ phase' = phase /\ next_label' = next_label
    BY <1>a DEF WalkInsn, a, insn, q
  <2>6. pg'.insertpos # Wild /\ pg'.labeli \in Nat
    BY <2>4, <2>5 DEF Good, Sound, Shape, PGState
  <2>7. pg'.lock_ctrl = pg.lock_ctrl /\ pg.labeli =< pg'.labeli
    BY <2>2, <2>4, <2>5
  <2> QED BY <2>1, <2>5, <2>6, <2>7, <1>2
<1>b. CASE WalkCheck
  <2> DEFINE insn == Insn("check", Serial)
             q == stat_insert_insn(pg, insn, "after")
  <2>1. Good(pg, pg.labeli) /\ phase = "gen" /\ used.work \in Nat
    BY <1>b DEF IInv, WalkCheck, Walking, Good, Sound, Used
  <2>2. insn \in PlainInsns /\ insn.op \notin Transfers
    BY <2>1 DEF Insn, Serial, PlainInsns, Insns, Ops, Transfers, Jumps, Loops
  <2> HIDE DEF insn
  <2>3. Good(q, pg.labeli) /\ q.labeli = pg.labeli /\ q.lock_ctrl = pg.lock_ctrl
    BY <2>1, <2>2, InsertGood DEF Places
  <2> HIDE DEF q
  <2>4. pg' = q /\ phase' = phase /\ next_label' = next_label
    BY <1>b DEF WalkCheck, insn, q
  <2>5. pg'.insertpos # Wild /\ pg'.labeli \in Nat
    BY <2>3, <2>4 DEF Good, Sound, Shape, PGState
  <2>6. pg'.lock_ctrl = pg.lock_ctrl /\ pg.labeli =< pg'.labeli
    BY <2>3, <2>4, <1>0
  <2> QED BY <2>1, <2>4, <2>5, <2>6, <1>2
<1>c. ASSUME NEW op \in JumpElems, NEW happens \in BOOLEAN, NEW label \in NoLabel..pg.labeli,
             WalkTransferElem(op, happens, label)
      PROVE  BlockOK'
  <2> DEFINE a == likely_gen_label(pg, happens)
             b == gen_control_transfer_insn(a, op, CXSize - 1, label)
             raw == Insn("raw", 0)
             c == stat_insert_insn(b, raw, "after")
  <2>1. Good(pg, pg.labeli) /\ phase = "gen"
    BY <1>c DEF IInv, WalkTransferElem, Walking, Good, Sound
  <2>2. op \in Transfers /\ op \in Jumps /\ CXSize - 1 \in 0..(CXSize - 1)
    BY ConstantsAssumption DEF ClosedTemplates
  <2>3. Good(a, a.labeli) /\ label \in Selectable(a)
        /\ a.lock_ctrl = pg.lock_ctrl /\ pg.labeli =< a.labeli
    BY <2>1, <1>c, LikelyGood DEF WalkTransferElem
  <2> HIDE DEF a
  <2>4. Good(b, b.labeli) /\ a.labeli =< b.labeli /\ b.lock_ctrl = a.lock_ctrl
    BY <2>2, <2>3, TransferGood
  <2> HIDE DEF b
  <2>5. raw \in PlainInsns /\ raw.op \notin Transfers
    BY DEF Insn, PlainInsns, Insns, Ops, Transfers, Jumps, Loops
  <2> HIDE DEF raw
  <2>6. Good(c, b.labeli) /\ c.labeli = b.labeli /\ c.lock_ctrl = b.lock_ctrl
    BY <2>4, <2>5, InsertGood DEF Places
  <2> HIDE DEF c
  <2>7. (pg' = b \/ pg' = c) /\ phase' = phase /\ next_label' = next_label
    BY <1>c DEF WalkTransferElem, a, b, c, raw
  <2>8. /\ b.insertpos # Wild /\ b.labeli \in Nat /\ a.labeli \in Nat
        /\ c.insertpos # Wild /\ c.labeli \in Nat
    BY <2>3, <2>4, <2>6 DEF Good, Sound, Shape, PGState
  <2>9. pg'.lock_ctrl = pg.lock_ctrl
    BY <2>3, <2>4, <2>6, <2>7
  <2>10. pg.labeli =< pg'.labeli
    BY <2>3, <2>4, <2>6, <2>7, <2>8, <1>0
  <2> QED BY <2>1, <2>7, <2>8, <2>9, <2>10, <1>2
<1>d. ASSUME NEW op \in TransferTypes, NEW times \in Times, NEW label \in Selectable(pg),
             BeginTransfer(op, times, label)
      PROVE  BlockOK'
  <2> DEFINE q == gen_control_transfer_insn(pg, op, times, label)
             r == ReturnedLabel(pg, op, label)
  <2>1. Good(pg, pg.labeli) /\ phase = "gen" /\ ~InBlock
    BY <1>d DEF IInv, BeginTransfer, Walking, Good, Sound
  <2>2. op \in Transfers /\ op \notin Jumps /\ times \in 0..(CXSize - 1)
    BY ConstantsAssumption DEF ClosedTemplates
  <2>3. pg.lock_ctrl = FALSE
    BY <2>1, <1>0 DEF BlockOK
  <2>4. Good(q, q.labeli) /\ q.lock_ctrl = TRUE /\ r \in 0..(q.labeli - 1)
    BY <2>1, <2>2, <2>3, TransferGood
  <2> HIDE DEF q, r
  <2>5. pg' = q /\ next_label' = r /\ phase' = phase
    BY <1>d DEF BeginTransfer, q, r
  <2>6. pg'.insertpos # Wild /\ q.labeli \in Nat
    BY <2>4, <2>5 DEF Good, Sound, Shape, PGState
  <2>7. r # NoBlock
    BY <2>4, <2>6 DEF NoBlock
  <2> QED BY <2>1, <2>4, <2>5, <2>6, <2>7 DEF BlockOK, InBlock
<1>e. CASE EndTransfer
  <2> DEFINE a == update_insert_pos_to_label(pg, next_label)
             q == [a EXCEPT !.lock_ctrl = FALSE]
  <2>1. Shape(pg) /\ phase = "gen" /\ next_label \in 0..(pg.labeli - 1)
    BY <1>e DEF IInv, EndTransfer, Walking, BlockOK
  <2>2. Shape(a) /\ a.insertpos # Wild
    BY <2>1, MoveShape
  <2> HIDE DEF a
  <2>3. q.insertpos # Wild /\ q.lock_ctrl = FALSE
    BY <2>2, LockCtrl
  <2> HIDE DEF q
  <2>4. pg' = q /\ next_label' = NoBlock /\ phase' = phase
    BY <1>e DEF EndTransfer, a, q
  <2> QED BY <2>1, <2>3, <2>4 DEF BlockOK, InBlock
<1>f. CASE Finish
  <2> DEFINE q == gen_control_transfer_finish(pg)
  <2>1. Good(pg, pg.labeli) /\ pg.lock_ctrl = FALSE
    BY <1>f, <1>0 DEF IInv, Finish, Walking, Good, Sound, BlockOK
  <2>2. Sound(q) /\ Good(q, q.labeli)
    BY <2>1, FinishGood
  <2> HIDE DEF q
  <2>3. pg' = q /\ phase' = "run"
    BY <1>f, <2>2, GoodAssembles DEF Finish, q
  <2> QED BY <2>2, <2>3 DEF BlockOK, Sound
<1>g. CASE Run
  BY <1>g DEF Run, Skip, Execute, LoadCount, Jump, JumpIf, LoopBack, CallBody,
              Return, Crash, Halt, At, Generated, BlockOK, InBlock
<1> QED
  BY <1>1, <1>a, <1>b, <1>c, <1>d, <1>e, <1>f, <1>g DEF Next, WalkTemplate

\* walkTttBlk always continues at a label of the program, never outside
\* labelspos.
THEOREM WalkKeepsItsPosition ==
  ASSUME ClosedTemplates
  PROVE  Spec => []PositionIsAnEntry
<1>1. BlockOK => PositionIsAnEntry
  BY DEF BlockOK, PositionIsAnEntry
<1>2. IInv /\ BlockOK /\ [Next]_vars => BlockOK'
  BY BlockOKStep
<1> QED BY <1>1, <1>2, BlockOKInit, IInvAlways, PTL DEF Spec

\* The finished program assembles: every jump, of the program's body and of
\* gen_control_transfer_finish, has a label, and no label is defined twice.
THEOREM FinishedProgramAssembles ==
  ASSUME ClosedTemplates
  PROVE  Spec => []ProgramAssembles
<1>1. BlockOK => ProgramAssembles
  BY DEF BlockOK, ProgramAssembles
<1>2. IInv /\ BlockOK /\ [Next]_vars => BlockOK'
  BY BlockOKStep
<1> QED BY <1>1, <1>2, BlockOKInit, IInvAlways, PTL DEF Spec

-----------------------------------------------------------------------------
(***************************************************************************)
(* The generated program executes its instructions in the order they were  *)
(* generated in, for every template whose transfer blocks are of a loop or *)
(* call type, every label drawn and every outcome of the jumps.            *)
(*                                                                         *)
(* Each instruction has a mark: the serial number that is executed next    *)
(* when the program is there, the call whose body it is in and the loop    *)
(* block.  What follows an instruction in the list, and what it jumps to,  *)
(* is marked with what executing it leads to (Chain), except behind the    *)
(* one entry where code is still going to come.  The walk keeps that, with *)
(* more marks at each step; the run then has the trace, the stack and ECX  *)
(* that the mark of the instruction it is at says (Running).               *)
(***************************************************************************)

-----------------------------------------------------------------------------
(* The list read as a ring: what follows an entry, with 0 both before the
   first entry and behind the last one.                                     *)

\* No entry stands in a list twice.
Distinct(s) == \A i, j \in 1..Len(s) : s[i] = s[j] => i = j

\* The entry behind e, or the first one for 0.
Nxt(s, e) ==
  IF e = 0 THEN (IF s = << >> THEN 0 ELSE s[1])
  ELSE IF PlaceOf(s, e) = Len(s) THEN 0 ELSE s[PlaceOf(s, e) + 1]

\* entries of a list, all different and none of them 0
Entries == Nat \ {0}

\* An entry stands at one place.
LEMMA PlaceOfDistinct ==
  ASSUME NEW s \in Seq(Entries), Distinct(s), NEW i \in 1..Len(s)
  PROVE  PlaceOf(s, s[i]) = i
<1>1. DOMAIN s = 1..Len(s)
  BY LenProperties
<1> QED BY <1>1, Zenon DEF Distinct, PlaceOf

\* What follows the entry at a place is the entry at the next place.
LEMMA NxtAt ==
  ASSUME NEW s \in Seq(Entries), Distinct(s)
  PROVE  /\ \A i \in 1..Len(s) : /\ s[i] \in Entries
                                 /\ Nxt(s, s[i]) = IF i = Len(s) THEN 0 ELSE s[i + 1]
         /\ Nxt(s, 0) = IF Len(s) = 0 THEN 0 ELSE s[1]
         /\ Len(s) \in Nat
<1>1. Len(s) \in Nat /\ (\A i \in 1..Len(s) : s[i] \in Entries)
  BY LenProperties, ElementOfSeq
<1>2. ASSUME NEW i \in 1..Len(s)
      PROVE  Nxt(s, s[i]) = IF i = Len(s) THEN 0 ELSE s[i + 1]
  <2>1. PlaceOf(s, s[i]) = i
    BY <1>1, PlaceOfDistinct
  <2>2. s[i] # 0
    BY <1>1 DEF Entries
  <2> QED BY <2>1, <2>2 DEF Nxt
<1>3. Nxt(s, 0) = IF Len(s) = 0 THEN 0 ELSE s[1]
  BY <1>1, EmptySeq DEF Nxt
<1> QED BY <1>1, <1>2, <1>3

\* The entries of a list.
Listed(s) == {s[i] : i \in 1..Len(s)}

\* Going on leads to an entry or to the end, and to each from one entry only.
LEMMA NxtInjective ==
  ASSUME NEW s \in Seq(Entries), Distinct(s)
  PROVE  /\ \A y \in Listed(s) \cup {0} : Nxt(s, y) \in Listed(s) \cup {0}
         /\ \A y, z \in Listed(s) \cup {0} : Nxt(s, y) = Nxt(s, z) => y = z
         /\ \A y \in Listed(s) : Nxt(s, y) # y
<1>1. /\ \A i \in 1..Len(s) : /\ s[i] \in Entries
                              /\ Nxt(s, s[i]) = IF i = Len(s) THEN 0 ELSE s[i + 1]
      /\ Nxt(s, 0) = IF Len(s) = 0 THEN 0 ELSE s[1]
      /\ Len(s) \in Nat
  BY NxtAt
<1>2. \A i, j \in 1..Len(s) : s[i] = s[j] => i = j
  BY <1>1 DEF Distinct
<1>3. \A i \in 1..Len(s) : s[i] # 0
  BY <1>1 DEF Entries
<1>4. \A i \in 1..Len(s) : Nxt(s, s[i]) \in Listed(s) \cup {0} /\ Nxt(s, s[i]) # s[i]
  <2> TAKE i \in 1..Len(s)
  <2>1. CASE i = Len(s)
    BY <2>1, <1>1, <1>3
  <2>2. CASE i # Len(s)
    <3>1. i + 1 \in 1..Len(s) /\ i # i + 1
      BY <2>2, <1>1
    <3> QED BY <3>1, <2>2, <1>1, <1>2 DEF Listed
  <2> QED BY <2>1, <2>2
<1>5. Nxt(s, 0) \in Listed(s) \cup {0}
  <2>1. Len(s) # 0 => 1 \in 1..Len(s)
    BY <1>1
  <2> QED BY <2>1, <1>1 DEF Listed
<1>6. \A i, j \in 1..Len(s) : Nxt(s, s[i]) = Nxt(s, s[j]) => i = j
  <2> TAKE i, j \in 1..Len(s)
  <2>1. i # Len(s) => i + 1 \in 1..Len(s)
    BY <1>1
  <2>2. j # Len(s) => j + 1 \in 1..Len(s)
    BY <1>1
  <2>3. i + 1 = j + 1 => i = j
    OBVIOUS
  <2> QED BY <2>1, <2>2, <2>3, <1>1, <1>2, <1>3
<1>7. \A i \in 1..Len(s) : Nxt(s, s[i]) # Nxt(s, 0)
  <2> TAKE i \in 1..Len(s)
  <2>1. Len(s) # 0 /\ 1 \in 1..Len(s)
    BY <1>1
  <2>2. i # Len(s) => i + 1 \in 1..Len(s) /\ i + 1 # 1
    BY <1>1
  <2> QED BY <2>1, <2>2, <1>1, <1>2, <1>3
<1> QED BY <1>1, <1>4, <1>5, <1>6, <1>7, ZenonT(30) DEF Listed

\* Inserting e at place i links it between the entries at i - 1 and i.
LEMMA InsertAtLinks ==
  ASSUME NEW s \in Seq(Entries), Distinct(s), NEW e \in Entries, e \notin Listed(s),
         NEW i \in 1..(Len(s) + 1), NEW prev, prev = IF i = 1 THEN 0 ELSE s[i - 1]
  PROVE  LET t == InsertAt(s, i, e)
         IN /\ t \in Seq(Entries) /\ Distinct(t) /\ Listed(t) = Listed(s) \cup {e}
            /\ Nxt(t, prev) = e /\ Nxt(t, e) = Nxt(s, prev)
            /\ \A y \in Listed(s) \cup {0} : y # prev => Nxt(t, y) = Nxt(s, y)
<1> DEFINE t == InsertAt(s, i, e)
<1>1. /\ t \in Seq(Entries) /\ Len(t) = Len(s) + 1
      /\ \A j \in 1..(Len(s) + 1) : t[j] = IF j < i THEN s[j] ELSE IF j = i THEN e ELSE s[j - 1]
  BY InsertAtProperties
<1> HIDE DEF t
<1>2. /\ \A j \in 1..Len(s) : /\ s[j] \in Entries
                              /\ Nxt(s, s[j]) = IF j = Len(s) THEN 0 ELSE s[j + 1]
      /\ Nxt(s, 0) = IF Len(s) = 0 THEN 0 ELSE s[1]
      /\ Len(s) \in Nat
  BY NxtAt
<1>3. 1..Len(t) = 1..(Len(s) + 1)
  BY <1>1
<1>4. \A j, k \in 1..Len(s) : s[j] = s[k] => j = k
  BY <1>2 DEF Distinct
<1>5. \A j \in 1..Len(s) : s[j] # e /\ s[j] # 0
  BY <1>2 DEF Listed, Entries
<1>6. Distinct(t)
  <2>1. ASSUME NEW j \in 1..(Len(s) + 1), NEW k \in 1..(Len(s) + 1), t[j] = t[k], j < k PROVE FALSE
    <3>1. CASE k < i
      BY <3>1, <2>1, <1>1, <1>2, <1>4, SMTT(30)
    <3>2. CASE k = i
      BY <3>2, <2>1, <1>1, <1>2, <1>5
    <3>3. CASE k > i /\ j < i
      <4>1. t[j] = s[j] /\ t[k] = s[k - 1] /\ j \in 1..Len(s) /\ k - 1 \in 1..Len(s) /\ j # k - 1
        BY <3>3, <2>1, <1>1, <1>2
      <4> QED BY <4>1, <2>1, <1>4
    <3>4. CASE k > i /\ j = i
      <4>1. t[j] = e /\ t[k] = s[k - 1] /\ k - 1 \in 1..Len(s)
        BY <3>4, <2>1, <1>1, <1>2
      <4> QED BY <4>1, <2>1, <1>5
    <3>5. CASE k > i /\ j > i
      <4>1. t[j] = s[j - 1] /\ t[k] = s[k - 1] /\ j - 1 \in 1..Len(s) /\ k - 1 \in 1..Len(s) /\ j - 1 # k - 1
        BY <3>5, <2>1, <1>1, <1>2
      <4> QED BY <4>1, <2>1, <1>4
    <3> QED BY <3>1, <3>2, <3>3, <3>4, <3>5
  <2>2. ASSUME NEW j \in 1..(Len(s) + 1), NEW k \in 1..(Len(s) + 1), t[j] = t[k] PROVE j = k
    <3>1. ~(j < k) /\ ~(k < j)
      BY <2>1, <2>2
    <3> QED BY <3>1
  <2> QED BY <2>2, <1>3 DEF Distinct
<1>7. Listed(t) = Listed(s) \cup {e}
  <2>1. ASSUME NEW j \in 1..(Len(s) + 1) PROVE t[j] \in Listed(s) \cup {e}
    <3>1. j < i => j \in 1..Len(s)
      BY <1>2
    <3>2. j > i => j - 1 \in 1..Len(s)
      BY <1>2
    <3>3. j < i \/ j = i \/ j > i
      BY <1>2
    <3> QED BY <3>1, <3>2, <3>3, <1>1, <1>2 DEF Listed
  <2>2. ASSUME NEW j \in 1..Len(s) PROVE s[j] \in Listed(t)
    <3>1. CASE j < i
      BY <3>1, <1>1, <1>2, <1>3 DEF Listed
    <3>2. CASE ~(j < i)
      <4>1. j + 1 \in 1..(Len(s) + 1) /\ t[j + 1] = s[j]
        BY <3>2, <1>1, <1>2
      <4> QED BY <4>1, <1>3 DEF Listed
    <3> QED BY <3>1, <3>2
  <2>3. e \in Listed(t)
    BY <1>1, <1>3 DEF Listed
  <2> QED BY <2>1, <2>2, <2>3, <1>2, <1>3 DEF Listed
<1>8. /\ \A j \in 1..(Len(s) + 1) : Nxt(t, t[j]) = IF j = Len(s) + 1 THEN 0 ELSE t[j + 1]
      /\ Nxt(t, 0) = t[1]
  <2>1. /\ \A j \in 1..Len(t) : Nxt(t, t[j]) = IF j = Len(t) THEN 0 ELSE t[j + 1]
        /\ Nxt(t, 0) = IF Len(t) = 0 THEN 0 ELSE t[1]
    BY <1>1, <1>6, NxtAt
  <2>2. Len(s) + 1 # 0
    BY <1>2
  <2> QED BY <2>1, <2>2, <1>1
<1>9. Nxt(t, prev) = e
  <2>1. CASE i = 1
    BY <2>1, <1>8, <1>1, <1>2
  <2>2. CASE i # 1
    <3>1. i - 1 \in 1..(Len(s) + 1) /\ i - 1 < i /\ i - 1 # Len(s) + 1 /\ (i - 1) + 1 = i
      BY <2>2, <1>2
    <3>2. t[i - 1] = prev /\ t[i] = e
      BY <3>1, <2>2, <1>1
    <3> QED BY <3>1, <3>2, <1>8
  <2> QED BY <2>1, <2>2
<1>10. Nxt(t, e) = Nxt(s, prev)
  <2>1. t[i] = e
    BY <1>1
  <2>2. CASE i = Len(s) + 1
    <3>1. Nxt(t, e) = 0
      BY <2>1, <2>2, <1>8
    <3>2. Nxt(s, prev) = 0
      <4>1. CASE i = 1
        BY <4>1, <2>2, <1>2
      <4>2. CASE i # 1
        <5>1. i - 1 = Len(s) /\ i - 1 \in 1..Len(s)
          BY <4>2, <2>2, <1>2
        <5> QED BY <5>1, <4>2, <1>2
      <4> QED BY <4>1, <4>2
    <3> QED BY <3>1, <3>2
  <2>3. CASE i # Len(s) + 1
    <3>1. i + 1 \in 1..(Len(s) + 1) /\ i \in 1..Len(s) /\ (i + 1) - 1 = i /\ ~(i + 1 < i) /\ i + 1 # i
      BY <2>3, <1>2
    <3>2. t[i + 1] = s[i] /\ Nxt(t, e) = t[i + 1]
      BY <3>1, <2>1, <2>3, <1>1, <1>8
    <3>3. Nxt(s, prev) = s[i]
      <4>1. CASE i = 1
        BY <4>1, <3>1, <1>2
      <4>2. CASE i # 1
        <5>1. i - 1 # Len(s) /\ i - 1 \in 1..Len(s) /\ (i - 1) + 1 = i
          BY <4>2, <3>1, <1>2
        <5> QED BY <5>1, <4>2, <1>2
      <4> QED BY <4>1, <4>2
    <3> QED BY <3>2, <3>3
  <2> QED BY <2>2, <2>3
<1>11. ASSUME NEW j \in 1..Len(s), s[j] # prev PROVE Nxt(t, s[j]) = Nxt(s, s[j])
  <2>1. j # i - 1
    BY <1>11, <1>2
  <2>2. CASE j < i
    <3>1. /\ j \in 1..(Len(s) + 1) /\ j + 1 \in 1..(Len(s) + 1) /\ j + 1 < i
          /\ j # Len(s) + 1 /\ j # Len(s)
      BY <2>1, <2>2, <1>2
    <3>2. t[j] = s[j] /\ t[j + 1] = s[j + 1]
      BY <3>1, <2>2, <1>1
    <3> QED BY <3>1, <3>2, <1>2, <1>8
  <2>3. CASE ~(j < i)
    <3>1. /\ j + 1 \in 1..(Len(s) + 1) /\ ~(j + 1 < i) /\ j + 1 # i /\ (j + 1) - 1 = j
          /\ (j + 1 = Len(s) + 1 <=> j = Len(s))
      BY <2>3, <1>2
    <3>2. t[j + 1] = s[j]
      BY <3>1, <1>1
    <3>3. CASE j = Len(s)
      BY <3>1, <3>2, <3>3, <1>2, <1>8
    <3>4. CASE j # Len(s)
      <4>1. (j + 1) + 1 \in 1..(Len(s) + 1) /\ ~((j + 1) + 1 < i) /\ (j + 1) + 1 # i
            /\ ((j + 1) + 1) - 1 = j + 1
        BY <3>4, <2>3, <1>2
      <4>2. t[(j + 1) + 1] = s[j + 1]
        BY <4>1, <1>1
      <4> QED BY <3>1, <3>2, <3>4, <4>2, <1>2, <1>8
    <3> QED BY <3>3, <3>4
  <2> QED BY <2>2, <2>3
<1>12. prev # 0 => Nxt(t, 0) = Nxt(s, 0)
  <2> SUFFICES ASSUME prev # 0 PROVE Nxt(t, 0) = Nxt(s, 0)
    OBVIOUS
  <2>1. i # 1 /\ Len(s) # 0 /\ 1 < i /\ 1 \in 1..(Len(s) + 1)
    BY <1>2
  <2> QED BY <2>1, <1>1, <1>2, <1>8
<1> QED BY <1>1, <1>2, <1>6, <1>7, <1>9, <1>10, <1>11, <1>12 DEF Listed, t

\* PutAfter links the new entry behind pos.
LEMMA PutAfterLinks ==
  ASSUME NEW s \in Seq(Entries), Distinct(s), NEW e \in Entries, e \notin Listed(s),
         NEW pos, pos \in Listed(s) \/ (pos = 0 /\ s = << >>)
  PROVE  LET t == PutAfter(s, pos, e)
         IN /\ t \in Seq(Entries) /\ Distinct(t) /\ Listed(t) = Listed(s) \cup {e}
            /\ Nxt(t, pos) = e /\ Nxt(t, e) = Nxt(s, pos)
            /\ \A y \in Listed(s) \cup {0} : y # pos => Nxt(t, y) = Nxt(s, y)
<1>0. Len(s) \in Nat
  BY LenProperties
<1>1. CASE s = << >>
  <2> DEFINE t == <<e>>
  <2>1. t \in Seq(Entries) /\ Len(t) = 1 /\ t[1] = e
    OBVIOUS
  <2>2. Distinct(t) /\ Listed(t) = {e}
    BY <2>1 DEF Distinct, Listed
  <2>3. Listed(s) = {} /\ pos = 0 /\ Nxt(s, pos) = 0
    BY <1>1 DEF Listed, Nxt
  <2> HIDE DEF t
  <2>4. Nxt(t, e) = 0 /\ Nxt(t, 0) = e
    <3>1. /\ \A i \in 1..Len(t) : Nxt(t, t[i]) = IF i = Len(t) THEN 0 ELSE t[i + 1]
          /\ Nxt(t, 0) = IF Len(t) = 0 THEN 0 ELSE t[1]
      BY <2>1, <2>2, NxtAt
    <3>2. 1 \in 1..Len(t)
      BY <2>1
    <3> QED BY <3>1, <3>2, <2>1
  <2>5. PutAfter(s, pos, e) = t
    BY <1>1 DEF PutAfter, t
  <2> QED BY <2>1, <2>2, <2>3, <2>4, <2>5
<1>2. CASE s # << >>
  <2>1. PICK i \in 1..Len(s) : s[i] = pos
    BY <1>2 DEF Listed
  <2>2. PlaceOf(s, pos) = i
    BY <2>1, PlaceOfDistinct
  <2>3. i + 1 \in 1..(Len(s) + 1) /\ pos = IF i + 1 = 1 THEN 0 ELSE s[(i + 1) - 1]
    BY <2>1, <1>0
  <2>4. PutAfter(s, pos, e) = InsertAt(s, i + 1, e)
    BY <2>2, <1>2 DEF PutAfter
  <2>5. LET t == InsertAt(s, i + 1, e)
        IN /\ t \in Seq(Entries) /\ Distinct(t) /\ Listed(t) = Listed(s) \cup {e}
           /\ Nxt(t, pos) = e /\ Nxt(t, e) = Nxt(s, pos)
           /\ \A y \in Listed(s) \cup {0} : y # pos => Nxt(t, y) = Nxt(s, y)
    BY <2>3, InsertAtLinks
  <2> QED BY <2>4, <2>5
<1> QED BY <1>1, <1>2

\* Linked before an entry: what led to it leads to the new one.
Redirected(s, t, pos, e) ==
  /\ t \in Seq(Entries) /\ Distinct(t) /\ Listed(t) = Listed(s) \cup {e}
  /\ Nxt(t, e) = pos
  /\ \A y \in Listed(s) \cup {0} : Nxt(t, y) = IF Nxt(s, y) = pos THEN e ELSE Nxt(s, y)

\* PutBefore links the new entry before pos.
LEMMA PutBeforeLinks ==
  ASSUME NEW s \in Seq(Entries), Distinct(s), NEW e \in Entries, e \notin Listed(s),
         NEW pos \in Listed(s)
  PROVE  Redirected(s, PutBefore(s, pos, e), pos, e)
<1>0. Len(s) \in Nat
  BY LenProperties
<1>1. PICK i \in 1..Len(s) : s[i] = pos
  BY DEF Listed
<1>2. PlaceOf(s, pos) = i
  BY <1>1, PlaceOfDistinct
<1> DEFINE prev == IF i = 1 THEN 0 ELSE s[i - 1]
           t == InsertAt(s, i, e)
<1>3. PutBefore(s, pos, e) = t
  <2>1. s # << >>
    BY <1>0, <1>1
  <2> QED BY <2>1, <1>2 DEF PutBefore
<1>4. /\ t \in Seq(Entries) /\ Distinct(t) /\ Listed(t) = Listed(s) \cup {e}
      /\ Nxt(t, prev) = e /\ Nxt(t, e) = Nxt(s, prev)
      /\ \A y \in Listed(s) \cup {0} : y # prev => Nxt(t, y) = Nxt(s, y)
  <2>1. i \in 1..(Len(s) + 1)
    BY <1>0
  <2> HIDE DEF t
  <2> QED BY <2>1, InsertAtLinks DEF t
<1>5. prev \in Listed(s) \cup {0} /\ Nxt(s, prev) = pos
  <2>1. /\ \A j \in 1..Len(s) : Nxt(s, s[j]) = IF j = Len(s) THEN 0 ELSE s[j + 1]
        /\ Nxt(s, 0) = IF Len(s) = 0 THEN 0 ELSE s[1]
    BY NxtAt
  <2>2. CASE i = 1
    BY <2>1, <2>2, <1>0, <1>1
  <2>3. CASE i # 1
    <3>1. i - 1 \in 1..Len(s) /\ i - 1 # Len(s) /\ (i - 1) + 1 = i
      BY <2>3, <1>0
    <3> QED BY <3>1, <2>1, <2>3, <1>1 DEF Listed
  <2> QED BY <2>2, <2>3
<1> HIDE DEF prev, t
<1>6. \A y \in Listed(s) \cup {0} : Nxt(s, y) = pos => y = prev
  BY <1>5, NxtInjective
<1> QED BY <1>3, <1>4, <1>5, <1>6 DEF Redirected

\* Append links the new entry behind the last one.
LEMMA AppendLinks ==
  ASSUME NEW s \in Seq(Entries), Distinct(s), NEW e \in Entries, e \notin Listed(s)
  PROVE  Redirected(s, Append(s, e), 0, e)
<1>0. Len(s) \in Nat
  BY LenProperties
<1> DEFINE i == Len(s) + 1
           prev == IF i = 1 THEN 0 ELSE s[i - 1]
           t == InsertAt(s, i, e)
<1>1. i \in 1..(Len(s) + 1)
  BY <1>0
<1>2. Append(s, e) = t
  <2>1. /\ t \in Seq(Entries) /\ Len(t) = Len(s) + 1
        /\ \A j \in 1..(Len(s) + 1) : t[j] = IF j < i THEN s[j] ELSE IF j = i THEN e ELSE s[j - 1]
    BY <1>1, InsertAtProperties
  <2>2. /\ Append(s, e) \in Seq(Entries) /\ Len(Append(s, e)) = Len(s) + 1
        /\ \A j \in 1..Len(s) : Append(s, e)[j] = s[j]
        /\ Append(s, e)[Len(s) + 1] = e
    BY AppendProperties
  <2> HIDE DEF t
  <2>3. \A j \in 1..(Len(s) + 1) : t[j] = Append(s, e)[j]
    BY <2>1, <2>2, <1>0
  <2> QED BY <2>1, <2>2, <2>3, SeqEqual
<1>3. /\ t \in Seq(Entries) /\ Distinct(t) /\ Listed(t) = Listed(s) \cup {e}
      /\ Nxt(t, prev) = e /\ Nxt(t, e) = Nxt(s, prev)
      /\ \A y \in Listed(s) \cup {0} : y # prev => Nxt(t, y) = Nxt(s, y)
  <2> HIDE DEF t, i
  <2> QED BY <1>1, InsertAtLinks DEF t
<1>4. prev \in Listed(s) \cup {0} /\ Nxt(s, prev) = 0
  <2>1. /\ \A j \in 1..Len(s) : Nxt(s, s[j]) = IF j = Len(s) THEN 0 ELSE s[j + 1]
        /\ Nxt(s, 0) = IF Len(s) = 0 THEN 0 ELSE s[1]
    BY NxtAt
  <2>2. CASE i = 1
    BY <2>1, <2>2, <1>0, <1>1
  <2>3. CASE i # 1
    <3>1. i - 1 \in 1..Len(s) /\ i - 1 = Len(s)
      BY <2>3, <1>0
    <3> QED BY <3>1, <2>1, <2>3, <1>1 DEF Listed
  <2> QED BY <2>2, <2>3
<1> HIDE DEF prev, t
<1>5. \A y \in Listed(s) \cup {0} : Nxt(s, y) = 0 => y = prev
  BY <1>4, NxtInjective
<1> QED BY <1>2, <1>3, <1>4, <1>5 DEF Redirected

-----------------------------------------------------------------------------
(* What the calls of ctrl.c do to the ring of generated instructions.       *)

\* What is executed behind an instruction that does not jump.
Nx(p, id) == Nxt(p.list, id)
Ring(p) == Sound(p) /\ Distinct(p.list)

\* The entries of a generator state are its instructions.
LEMMA RingListed ==
  ASSUME NEW p, Shape(p), Distinct(p.list)
  PROVE  /\ p.list \in Seq(Entries) /\ Listed(p.list) = Ids(p)
         /\ Len(p.code) \in Nat /\ Len(p.list) = Len(p.code)
<1>1. /\ p.list \in Seq(Nat) /\ p.code \in Seq(Insns) /\ Len(p.list) = Len(p.code)
      /\ Len(p.code) \in Nat
  BY LenProperties DEF Shape, PGState, ListComplete
<1>2. DOMAIN p.list = 1..Len(p.list) /\ DOMAIN p.code = Ids(p)
  BY <1>1, LenProperties DEF Ids
<1>3. \A i \in 1..Len(p.list) : p.list[i] \in Ids(p)
  BY <1>2 DEF Shape
<1>4. \A id \in Ids(p) : \E i \in 1..Len(p.list) : p.list[i] = id
  BY <1>2 DEF Shape, ListComplete
<1>5. Ids(p) \subseteq Entries
  BY <1>1 DEF Ids, Entries
<1>6. p.list \in Seq(Entries)
  <2>1. \A i \in 1..Len(p.list) : p.list[i] \in Entries
    BY <1>3, <1>5
  <2>2. p.list = [i \in 1..Len(p.list) |-> p.list[i]]
    BY <1>1, LenProperties
  <2> QED BY <2>1, <2>2, <1>1, IsASeq
<1>7. Listed(p.list) = Ids(p)
  BY <1>3, <1>4 DEF Listed
<1> QED BY <1>1, <1>6, <1>7

\* The list stat_insert_insn leaves.
LEMMA InsertList ==
  ASSUME NEW p, Sound(p), NEW insn \in Insns, NEW pos \in Places
  PROVE  stat_insert_insn(p, insn, pos).list =
           IF pos = "after" THEN PutAfter(p.list, p.insertpos, Len(p.code) + 1)
           ELSE IF pos = "before" THEN PutBefore(p.list, p.insertpos, Len(p.code) + 1)
           ELSE Append(p.list, Len(p.code) + 1)
<1> DEFINE id == Len(p.code) + 1
           list == IF pos = "after" THEN PutAfter(p.list, p.insertpos, id)
                   ELSE IF pos = "before" THEN PutBefore(p.list, p.insertpos, id)
                   ELSE Append(p.list, id)
           q == stat_insert_insn(p, insn, pos)
<1>1. p \in PGState /\ (p.insertpos = NoEntry => p.list = << >>)
  <2>1. p \in PGState /\ p.code \in Seq(Insns) /\ p.list \in Seq(Nat) /\ Len(p.list) = Len(p.code)
    BY DEF Sound, Shape, PGState, ListComplete
  <2>2. p.insertpos \in Ids(p) \/ (p.insertpos = NoEntry /\ p.code = << >>)
    BY DEF Sound, Shape
  <2>3. Len(p.code) \in Nat
    BY <2>1, LenProperties
  <2> QED BY <2>1, <2>2, <2>3, EmptySeq DEF NoEntry, Ids
<1>2. CASE pos = "after"
  <2>1. q = [p EXCEPT !.code = Append(@, insn), !.list = list, !.insertpos = id]
    BY <1>1, <1>2 DEF stat_insert_insn
  <2> HIDE DEF q, list
  <2>2. q.list = list
    BY <2>1, <1>1, Zenon DEF PGState
  <2> QED BY <2>2, <1>2 DEF q, list
<1>3. CASE pos = "before"
  <2>1. q = [p EXCEPT !.code = Append(@, insn), !.list = list, !.insertpos = id]
    BY <1>1, <1>3 DEF stat_insert_insn
  <2> HIDE DEF q, list
  <2>2. q.list = list
    BY <2>1, <1>1, Zenon DEF PGState
  <2> QED BY <2>2, <1>3 DEF q, list
<1>4. CASE pos = "tail"
  <2>1. q = [p EXCEPT !.code = Append(@, insn), !.list = list, !.insertpos = id]
    BY <1>1, <1>4 DEF stat_insert_insn
  <2> HIDE DEF q, list
  <2>2. q.list = list
    BY <2>1, <1>1, Zenon DEF PGState
  <2> QED BY <2>2, <1>4 DEF q, list
<1> QED BY <1>2, <1>3, <1>4 DEF Places

\* One more instruction, at the insert position, ...
Put(p, q, insn) ==
  /\ Len(p.code) \in Nat /\ Len(q.code) = Len(p.code) + 1
  /\ Ids(q) = Ids(p) \cup {Len(p.code) + 1} /\ Len(p.code) + 1 \notin Ids(p) \cup {0}
  /\ q.code[Len(p.code) + 1] = insn
  /\ \A id \in Ids(p) : q.code[id] = p.code[id]
  /\ q.insertpos = Len(p.code) + 1
  /\ q.lock_ctrl = p.lock_ctrl /\ q.lock_cx = p.lock_cx

\* ... behind the entry that was the insert position, before it, or last.
After(p, q) ==
  /\ Nx(q, p.insertpos) = q.insertpos /\ Nx(q, q.insertpos) = Nx(p, p.insertpos)
  /\ \A y \in Ids(p) \cup {0} : y # p.insertpos => Nx(q, y) = Nx(p, y)

Behind(p, q, pos) ==
  /\ Nx(q, q.insertpos) = pos
  /\ \A y \in Ids(p) \cup {0} : Nx(q, y) = IF Nx(p, y) = pos THEN q.insertpos ELSE Nx(p, y)

Links(p, q, pos) ==
  /\ pos = "after" => After(p, q)
  /\ pos = "before" => Behind(p, q, p.insertpos)
  /\ pos = "tail" => Behind(p, q, 0)

\* Inserting links the new instruction where pos says.
LEMMA InsertedLinks ==
  ASSUME NEW p, Ring(p), NEW insn \in Insns, NEW pos \in Places,
         pos = "before" => p.code # << >>
  PROVE  LET q == stat_insert_insn(p, insn, pos)
         IN Distinct(q.list) /\ Put(p, q, insn) /\ Links(p, q, pos)
<1> DEFINE q == stat_insert_insn(p, insn, pos)
           e == Len(p.code) + 1
<1>1. Inserted(p, q, insn)
  BY InsertStep DEF Ring
<1>2. q.list = IF pos = "after" THEN PutAfter(p.list, p.insertpos, e)
               ELSE IF pos = "before" THEN PutBefore(p.list, p.insertpos, e)
               ELSE Append(p.list, e)
  BY InsertList DEF Ring
<1> HIDE DEF q
<1>3. /\ p.list \in Seq(Entries) /\ Listed(p.list) = Ids(p) /\ Distinct(p.list)
      /\ Len(p.code) \in Nat /\ Len(p.list) = Len(p.code)
  BY RingListed DEF Ring, Sound
<1>4. /\ Len(q.code) = Len(p.code) + 1
      /\ q.code[Len(p.code) + 1] = insn
      /\ \A id \in Ids(p) : q.code[id] = p.code[id]
  BY <1>1, InsertedList DEF Ring
<1>5. e \in Entries /\ e \notin Ids(p) \cup {0} /\ Ids(q) = Ids(p) \cup {e}
  BY <1>3, <1>4 DEF Ids, Entries
<1>6. Put(p, q, insn)
  BY <1>1, <1>3, <1>4, <1>5 DEF Put, Inserted
<1>7. p.insertpos \in Ids(p) \/ (p.insertpos = 0 /\ p.code = << >> /\ p.list = << >>)
  <2>1. p.insertpos \in Ids(p) \/ (p.insertpos = 0 /\ p.code = << >>)
    BY DEF Ring, Sound, Shape, NoEntry
  <2>2. p.code = << >> => p.list = << >>
    BY <1>3, EmptySeq
  <2> QED BY <2>1, <2>2
<1>8. q.insertpos = e
  BY <1>1 DEF Inserted
<1> HIDE DEF e
<1>9. CASE pos = "after"
  <2> DEFINE t == PutAfter(p.list, p.insertpos, e)
  <2>1. /\ t \in Seq(Entries) /\ Distinct(t) /\ Listed(t) = Listed(p.list) \cup {e}
        /\ Nxt(t, p.insertpos) = e /\ Nxt(t, e) = Nxt(p.list, p.insertpos)
        /\ \A y \in Listed(p.list) \cup {0} : y # p.insertpos => Nxt(t, y) = Nxt(p.list, y)
    BY <1>3, <1>5, <1>7, PutAfterLinks
  <2>2. q.list = t
    BY <1>2, <1>9
  <2> HIDE DEF t
  <2> QED BY <2>1, <2>2, <1>3, <1>6, <1>8, <1>9 DEF Links, After, Nx, q
<1>10. CASE pos = "before"
  <2> DEFINE t == PutBefore(p.list, p.insertpos, e)
  <2>1. Redirected(p.list, t, p.insertpos, e)
    BY <1>3, <1>5, <1>7, <1>10, PutBeforeLinks
  <2>2. q.list = t
    BY <1>2, <1>10
  <2> HIDE DEF t
  <2> QED BY <2>1, <2>2, <1>3, <1>6, <1>8, <1>10 DEF Links, Behind, Redirected, Nx, q
<1>11. CASE pos = "tail"
  <2> DEFINE t == Append(p.list, e)
  <2>1. Redirected(p.list, t, 0, e)
    BY <1>3, <1>5, AppendLinks
  <2>2. q.list = t
    BY <1>2, <1>11
  <2> HIDE DEF t
  <2> QED BY <2>1, <2>2, <1>3, <1>6, <1>8, <1>11 DEF Links, Behind, Redirected, Nx, q
<1> QED BY <1>9, <1>10, <1>11 DEF Places

\* No label more.
SameLabels(p, q) ==
  /\ q.labeli = p.labeli
  /\ \A l \in 0..(p.labeli - 1) : LabelPos(q, l) = LabelPos(p, l)

\* The newest instruction is the next label.
NewLabel(p, q) ==
  /\ p.labeli \in Nat /\ q.labeli = p.labeli + 1
  /\ LabelPos(q, p.labeli) = q.insertpos
  /\ \A l \in 0..(p.labeli - 1) : LabelPos(q, l) = LabelPos(p, l)

\* What stat_insert_insn does with an instruction that is no label.
LEMMA InsertRing ==
  ASSUME NEW p, Ring(p), NEW insn \in PlainInsns, NEW pos \in Places,
         pos = "before" => p.code # << >>
  PROVE  LET q == stat_insert_insn(p, insn, pos)
         IN Ring(q) /\ Put(p, q, insn) /\ Links(p, q, pos) /\ SameLabels(p, q)
<1> DEFINE q == stat_insert_insn(p, insn, pos)
<1>1. insn \in Insns
  BY DEF PlainInsns
<1>2. Distinct(q.list) /\ Put(p, q, insn) /\ Links(p, q, pos)
  BY <1>1, InsertedLinks
<1>3. Sound(q) /\ Inserted(p, q, insn)
  BY InsertSound DEF Ring
<1> HIDE DEF q
<1> QED BY <1>2, <1>3 DEF Ring, Inserted, SameLabels, LabelPos, q

\* What gen_label does.
LEMMA LabelRing ==
  ASSUME NEW p, Ring(p), p.lock_ctrl = FALSE, NEW pos \in Places,
         pos = "before" => p.code # << >>
  PROVE  LET q == gen_label(p, pos)
         IN /\ Ring(q) /\ Put(p, q, Insn("label", p.labeli)) /\ Links(p, q, pos)
            /\ NewLabel(p, q)
<1> DEFINE insn == Insn("label", p.labeli)
           a == stat_insert_insn(p, insn, pos)
           n == a.labeli + 1
           b == [a EXCEPT !.labeli = n]
           q == [b EXCEPT !.labelspos = Append(@, a.insertpos)]
<1>1. /\ p.labeli \in Nat /\ p.labelspos \in Seq(Nat) /\ Len(p.labelspos) = p.labeli
  BY DEF Ring, Sound, Shape, PGState
<1>2. insn \in Insns
  BY <1>1 DEF Insn, Insns, Ops
<1>3. q = gen_label(p, pos)
  BY Zenon DEF gen_label, q, b, n, a, insn
<1>4. Sound(q)
  BY <1>3, GenLabel DEF Ring
<1>5. Distinct(a.list) /\ Put(p, a, insn) /\ Links(p, a, pos)
  BY <1>2, InsertedLinks
<1>6. Inserted(p, a, insn)
  BY <1>2, InsertStep DEF Ring
<1> HIDE DEF a, insn
<1>7. a \in PGState /\ a.labeli = p.labeli /\ a.labelspos = p.labelspos
  BY <1>6 DEF Inserted
<1>8. /\ b \in PGState /\ b.labeli = p.labeli + 1 /\ b.labelspos = p.labelspos
      /\ b.code = a.code /\ b.list = a.list /\ b.insertpos = a.insertpos
      /\ b.lock_ctrl = a.lock_ctrl /\ b.lock_cx = a.lock_cx
  <2>1. n \in Nat /\ n = p.labeli + 1
    BY <1>1, <1>7
  <2> HIDE DEF n
  <2> QED BY <2>1, <1>7 DEF PGState
<1> HIDE DEF b
<1>9. a.insertpos \in Nat
  BY <1>5 DEF Put
<1>10. Append(p.labelspos, a.insertpos) \in Seq(Nat)
  BY <1>1, <1>9, AppendProperties
<1>11. /\ q.labeli = p.labeli + 1
       /\ q.labelspos = Append(p.labelspos, a.insertpos)
       /\ q.code = a.code /\ q.list = a.list /\ q.insertpos = a.insertpos
       /\ q.lock_ctrl = a.lock_ctrl /\ q.lock_cx = a.lock_cx
  BY <1>8, <1>10 DEF PGState
<1> HIDE DEF q
<1>12. NewLabel(p, q)
  <2>1. /\ q.labelspos[p.labeli + 1] = a.insertpos
        /\ \A i \in 1..p.labeli : q.labelspos[i] = p.labelspos[i]
    BY <1>1, <1>9, <1>11, AppendProperties
  <2> QED BY <2>1, <1>1, <1>11 DEF NewLabel, LabelPos
<1>13. Ring(q)
  BY <1>4, <1>5, <1>11 DEF Ring
<1>14. Put(p, q, insn)
  BY <1>5, <1>11 DEF Put, Ids
<1>15. Links(p, q, pos)
  BY <1>5, <1>11 DEF Links, After, Behind, Nx
<1> QED BY <1>3, <1>12, <1>13, <1>14, <1>15 DEF insn

\* Everything but the insert position and the locks is as before.
SameRing(p, q) ==
  /\ q.code = p.code /\ q.list = p.list /\ q.labeli = p.labeli /\ q.labelspos = p.labelspos

\* update_insert_pos_to_label moves the insert position to a label.
LEMMA MoveRing ==
  ASSUME NEW p, Shape(p), Distinct(p.list), NEW label \in 0..(p.labeli - 1)
  PROVE  LET q == update_insert_pos_to_label(p, label)
         IN /\ Ring(q) /\ SameRing(p, q) /\ q.insertpos = LabelPos(p, label)
            /\ q.lock_ctrl = p.lock_ctrl /\ q.lock_cx = p.lock_cx
<1> DEFINE i == LabelPos(p, label)
           q == [p EXCEPT !.insertpos = i]
<1>1. q = update_insert_pos_to_label(p, label)
  BY Zenon DEF q, i, update_insert_pos_to_label
<1>2. Shape(q) /\ q.insertpos # Wild
  <2> DEFINE u == update_insert_pos_to_label(p, label)
  <2>1. Shape(u) /\ u.insertpos # Wild
    BY MoveShape
  <2> HIDE DEF u, q
  <2>2. u = q
    BY <1>1 DEF u
  <2> QED BY <2>1, <2>2
<1>3. p \in PGState /\ i \in Int
  BY LenProperties DEF Shape, Ids, PGState
<1> HIDE DEF i
<1>4. SameRing(p, q) /\ q.insertpos = i /\ q.lock_ctrl = p.lock_ctrl /\ q.lock_cx = p.lock_cx
  BY <1>3, Zenon DEF PGState, SameRing
<1> HIDE DEF q
<1> QED BY <1>1, <1>2, <1>4 DEF Ring, Sound, SameRing, i

\* The locks leave the ring as it is.
LEMMA LockRing ==
  ASSUME NEW p, Ring(p), NEW b \in BOOLEAN
  PROVE  /\ LET q == [p EXCEPT !.lock_ctrl = b]
            IN /\ Ring(q) /\ SameRing(p, q) /\ q.insertpos = p.insertpos
               /\ q.lock_ctrl = b /\ q.lock_cx = p.lock_cx
         /\ LET q == [p EXCEPT !.lock_cx = "loop"]
            IN /\ Ring(q) /\ SameRing(p, q) /\ q.insertpos = p.insertpos
               /\ q.lock_ctrl = p.lock_ctrl /\ q.lock_cx = "loop"
<1> DEFINE q == [p EXCEPT !.lock_ctrl = b]
           r == [p EXCEPT !.lock_cx = "loop"]
<1>1. p \in PGState /\ Shape(p) /\ p.insertpos # Wild /\ Distinct(p.list)
  BY DEF Ring, Sound, Shape
<1>2. Shape(q)
  BY <1>1, LockCtrl
<1>3. Shape(r)
  BY <1>1, LockCX
<1>4. SameRing(p, q) /\ q.insertpos = p.insertpos /\ q.lock_ctrl = b /\ q.lock_cx = p.lock_cx
  BY <1>1, Zenon DEF PGState, SameRing
<1>5. SameRing(p, r) /\ r.insertpos = p.insertpos /\ r.lock_ctrl = p.lock_ctrl /\ r.lock_cx = "loop"
  BY <1>1, Zenon DEF PGState, SameRing
<1> HIDE DEF q, r
<1> QED BY <1>1, <1>2, <1>3, <1>4, <1>5 DEF Ring, Sound, SameRing, q, r

-----------------------------------------------------------------------------
(* Marks: where in the generation order the program is at an instruction.   *)

\* The generated instructions, and those that go on with what is behind them.
W == {"work", "workcx", "check"}
Falling == W \cup {"label", "movecx", "jcc", "call"} \cup Loops

\* An instruction: its opcode, its argument, where its label stands.
Op(p, id) == p.code[id].op
Arg(p, id) == p.code[id].arg
To(p, id) == LabelPos(p, p.code[id].arg)

\* at: the serial number that is to be executed next; call: the call whose
\* body the instruction is in, loop: the loop block (0: none).
Marks == [at : [Nat -> Nat], call : [Nat -> Nat], loop : [Nat -> Nat]]
\* The mark of an instruction, and two that are marked the same way.
Is(m, y, a, c, l) == m.at[y] = a /\ m.call[y] = c /\ m.loop[y] = l
Same(m, y, z) == Is(m, y, m.at[z], m.call[z], m.loop[z])

\* What is known of a transfer block.
BlockRec == {b \in [op : Transfers, times : Nat \ {0}] :
               /\ b.op \in Loops => b.times \in 1..(CXSize - 1)
               /\ b.op \notin Loops => b.times = 1}

\* The instruction z may come behind id.
Fed(p, m, h, bs, id, z) ==
  /\ z # 0
  /\ Op(p, id) \in W => Is(m, z, m.at[id] + 1, m.call[id], m.loop[id])
  /\ Op(p, id) \in {"label", "jcc"} => Same(m, z, id)
  /\ Op(p, id) = "movecx" =>
       /\ m.at[z] = m.at[id] /\ m.call[z] = 0
       /\ m.loop[z] \in 1..Len(bs) /\ bs[m.loop[z]].op \in Loops
       /\ bs[m.loop[z]].times = Arg(p, id)
       /\ \A k \in 1..Len(h) : h[k] = m.loop[z] => m.at[id] =< k
  /\ Op(p, id) \in Loops => Is(m, z, m.at[id], 0, 0)
  /\ Op(p, id) = "call" => m.call[z] = 0 /\ m.loop[z] = 0

\* The instruction that is behind another one may be there.
FlowAt(p, m, h, bs, id) == Op(p, id) \in Falling => Fed(p, m, h, bs, id, Nx(p, id))

\* A generated instruction, and the block it was generated in.
WorkAt(p, m, h, bs, id) ==
  Op(p, id) \in W =>
    /\ m.at[id] = Arg(p, id) /\ Arg(p, id) \in 1..Len(h)
    /\ m.loop[id] # 0 => h[Arg(p, id)] = m.loop[id]
    /\ m.loop[id] = 0 => h[Arg(p, id)] = 0 \/ bs[h[Arg(p, id)]].op \notin Loops
    /\ Op(p, id) = "workcx" /\ ~NamesCX => m.loop[id] = 0

\* The end of a loop's body, with its beginning t: the body is what was generated in its block.
LoopAt(p, m, h, bs, id) ==
  Op(p, id) \in Loops =>
    LET t == To(p, id) IN
    /\ m.loop[id] \in 1..Len(bs) /\ bs[m.loop[id]].op = Op(p, id) /\ m.call[id] = 0
    /\ m.loop[t] = m.loop[id] /\ m.call[t] = 0 /\ m.at[t] =< m.at[id]
    /\ \A k \in 1..Len(h) : h[k] = m.loop[id] <=> m.at[t] =< k /\ k < m.at[id]
    /\ m.at[t] < m.at[id] => Nx(p, t) # 0 /\ Op(p, Nx(p, t)) \in W \cup {"raw"}

\* A call and the end of the body it calls, which goes on behind the call.
CallAt(p, m, id) ==
  /\ Op(p, id) = "call" =>
       m.call[id] = 0 /\ m.loop[id] = 0 /\ Is(m, To(p, id), m.at[id], id, 0)
  /\ Op(p, id) = "ret" =>
       /\ m.loop[id] = 0 /\ m.call[id] \in Ids(p) /\ Op(p, m.call[id]) = "call"
       /\ Nx(p, m.call[id]) # 0 /\ m.at[Nx(p, m.call[id])] = m.at[id]

\* A jump leads to where the program would be without it.
JumpAt(p, m, id) ==
  /\ Op(p, id) \in {"jmp", "jcc"} => Same(m, To(p, id), id)
  /\ Op(p, id) = "movecx" => m.call[id] = 0 /\ m.loop[id] = 0

\* Marks are in range, transfers lead to labels.
RangeAt(p, m, h, bs, id) ==
  /\ m.at[id] \in 1..(Len(h) + 1) /\ m.loop[id] \in 0..Len(bs)
  /\ Op(p, id) \in Transfers =>
       Arg(p, id) \in 0..(p.labeli - 1) /\ To(p, id) \in Ids(p) /\ Op(p, To(p, id)) = "label"

\* What holds of an instruction whatever is behind it.
LocalAt(p, m, h, bs, id) ==
  /\ RangeAt(p, m, h, bs, id) /\ WorkAt(p, m, h, bs, id) /\ LoopAt(p, m, h, bs, id)
  /\ CallAt(p, m, id) /\ JumpAt(p, m, id)

\* The program begins with the first instruction.
StartOK(p, m, o) == o # 0 => Nx(p, 0) # 0 /\ Is(m, Nx(p, 0), 1, 0, 0)

\* What is generated next comes behind o.
OpenOK(p, m, h, o) ==
  /\ o = 0 => Ids(p) = {} /\ Len(h) = 0
  /\ o # 0 => /\ o \in Ids(p) /\ Op(p, o) \in W \cup {"label", "raw"}
              /\ Op(p, o) \in W => Is(m, o, Len(h), 0, 0)
              /\ Op(p, o) = "label" => Is(m, o, Len(h) + 1, 0, 0)

\* Types of the marks, of the block of each number and of the blocks.
Known(m, h, bs) ==
  /\ m \in Marks /\ h \in Seq(Nat) /\ bs \in Seq(BlockRec)
  /\ Len(h) \in Nat /\ Len(bs) \in Nat
  /\ \A k \in 1..Len(h) : h[k] \in 0..Len(bs)
  /\ \A b \in 1..Len(bs) : bs[b] \in BlockRec

\* The program has an order, and o is where it is still open.
Chain(p, m, h, bs, o) ==
  /\ Known(m, h, bs)
  /\ \A id \in Ids(p) : LocalAt(p, m, h, bs, id) /\ (id # o => FlowAt(p, m, h, bs, id))
  /\ StartOK(p, m, o) /\ OpenOK(p, m, h, o)

-----------------------------------------------------------------------------
(* More instructions, of which none is in a block that is open.             *)

\* q has the instructions and labels of p.
Extends(p, q) ==
  /\ Ids(p) \subseteq Ids(q) /\ 0 \notin Ids(q)
  /\ p.labeli \in Nat /\ q.labeli \in Nat /\ p.labeli =< q.labeli
  /\ \A id \in Ids(p) : q.code[id] = p.code[id]
  /\ \A l \in 0..(p.labeli - 1) : LabelPos(q, l) = LabelPos(p, l)
  /\ \A y \in Ids(p) \cup {0} : Nx(p, y) \in Ids(p) \cup {0}

\* Where what comes behind an entry is another one now, that is marked as the
\* label that was there.
Redirects(p, q, m, o) ==
  \A y \in Ids(p) \cup {0} : y # o /\ Nx(q, y) # Nx(p, y) =>
    \/ Nx(p, y) = 0
    \/ Nx(q, y) # 0 /\ Same(m, Nx(q, y), Nx(p, y)) /\ Op(p, Nx(p, y)) = "label"

\* Marks of the older instructions stay.
Agree(p, m, m2) ==
  \A id \in Ids(p) : m2.at[id] = m.at[id] /\ m2.call[id] = m.call[id] /\ m2.loop[id] = m.loop[id]

\* More numbers, of no block.
LongerHome(h, h2) ==
  /\ Len(h) =< Len(h2) /\ \A k \in 1..Len(h) : h2[k] = h[k]
  /\ \A k \in 1..Len(h2) : k > Len(h) => h2[k] = 0

\* More blocks.
LongerBlocks(bs, bs2) == Len(bs) =< Len(bs2) /\ \A b \in 1..Len(bs) : bs2[b] = bs[b]

\* What holds of the older instructions still does.
LEMMA ExtendLocal ==
  ASSUME NEW p, NEW q, NEW m, NEW m2, NEW h, NEW h2, NEW bs, NEW bs2, NEW o,
         Chain(p, m, h, bs, o), Known(m2, h2, bs2), Extends(p, q), Agree(p, m, m2),
         Redirects(p, q, m2, o), LongerHome(h, h2), LongerBlocks(bs, bs2),
         NEW id \in Ids(p)
  PROVE  LocalAt(q, m2, h2, bs2, id)
<1>1. LocalAt(p, m, h, bs, id) /\ id \in Ids(q) /\ 0 \notin Ids(p)
  BY DEF Chain, Extends
<1>2. Op(q, id) = Op(p, id) /\ Arg(q, id) = Arg(p, id)
  BY DEF Extends, Op, Arg
<1>3. m2.at[id] = m.at[id] /\ m2.call[id] = m.call[id] /\ m2.loop[id] = m.loop[id]
  BY DEF Agree
<1>4. Len(h) \in Nat /\ Len(h2) \in Nat /\ Len(bs) \in Nat /\ Len(bs2) \in Nat /\ m.at[id] \in Nat
  BY <1>1 DEF Chain, Known, LocalAt, RangeAt
<1>5. Op(p, id) \in Transfers => /\ To(q, id) = To(p, id) /\ To(p, id) \in Ids(p)
                                 /\ Op(p, To(p, id)) = "label"
  BY <1>1 DEF Extends, LocalAt, RangeAt, To, Arg
<1>6. RangeAt(q, m2, h2, bs2, id)
  <2>1. m2.at[id] \in 1..(Len(h2) + 1)
    BY <1>1, <1>3, <1>4 DEF LocalAt, RangeAt, LongerHome
  <2>2. m2.loop[id] \in 0..Len(bs2)
    BY <1>1, <1>3, <1>4 DEF LocalAt, RangeAt, LongerBlocks
  <2>3. ASSUME Op(q, id) \in Transfers
        PROVE  /\ Arg(q, id) \in 0..(q.labeli - 1) /\ To(q, id) \in Ids(q)
               /\ Op(q, To(q, id)) = "label"
    <3>1. To(q, id) = To(p, id) /\ To(p, id) \in Ids(p) /\ Op(p, To(p, id)) = "label"
      BY <2>3, <1>2, <1>5
    <3>2. Arg(p, id) \in 0..(p.labeli - 1)
      BY <2>3, <1>1, <1>2 DEF LocalAt, RangeAt
    <3>3. Arg(q, id) \in 0..(q.labeli - 1)
      BY <3>2, <1>2 DEF Extends
    <3> QED BY <3>1, <3>3 DEF Extends, Op
  <2> QED BY <2>1, <2>2, <2>3 DEF RangeAt
<1>7. WorkAt(q, m2, h2, bs2, id)
  <2> SUFFICES ASSUME Op(p, id) \in W
               PROVE  /\ m.at[id] = Arg(p, id) /\ Arg(p, id) \in 1..Len(h2)
                      /\ m.loop[id] # 0 => h2[Arg(p, id)] = m.loop[id]
                      /\ m.loop[id] = 0 => h2[Arg(p, id)] = 0 \/ bs2[h2[Arg(p, id)]].op \notin Loops
                      /\ Op(p, id) = "workcx" /\ ~NamesCX => m.loop[id] = 0
    BY <1>2, <1>3 DEF WorkAt
  <2>1. WorkAt(p, m, h, bs, id)
    BY <1>1 DEF LocalAt
  <2>2. Arg(p, id) \in 1..Len(h) /\ h2[Arg(p, id)] = h[Arg(p, id)] /\ Arg(p, id) \in 1..Len(h2)
    BY <2>1, <1>4 DEF WorkAt, LongerHome
  <2>3. h[Arg(p, id)] # 0 => bs2[h[Arg(p, id)]] = bs[h[Arg(p, id)]]
    <3>1. h[Arg(p, id)] \in 0..Len(bs)
      BY <2>2 DEF Chain, Known
    <3> QED BY <3>1, <1>4 DEF LongerBlocks
  <2> QED BY <2>1, <2>2, <2>3 DEF WorkAt
<1>8. LoopAt(q, m2, h2, bs2, id)
  <2> SUFFICES ASSUME Op(p, id) \in Loops PROVE LoopAt(q, m2, h2, bs2, id)
    BY <1>2 DEF LoopAt
  <2> DEFINE t == To(p, id)
             b == m.loop[id]
  <2>1. To(q, id) = t /\ t \in Ids(p) /\ Op(p, t) = "label"
    BY <1>5 DEF Transfers
  <2>2. /\ b \in 1..Len(bs) /\ bs[b].op = Op(p, id) /\ m.call[id] = 0
        /\ m.loop[t] = b /\ m.call[t] = 0 /\ m.at[t] =< m.at[id]
        /\ \A k \in 1..Len(h) : h[k] = b <=> m.at[t] =< k /\ k < m.at[id]
        /\ m.at[t] < m.at[id] => Nx(p, t) # 0 /\ Op(p, Nx(p, t)) \in W \cup {"raw"}
    BY <1>1 DEF LocalAt, LoopAt
  <2>3. m2.at[t] = m.at[t] /\ m2.call[t] = m.call[t] /\ m2.loop[t] = m.loop[t]
    BY <2>1 DEF Agree
  <2>4. m.at[id] =< Len(h) + 1 /\ m.at[t] \in Nat
    BY <1>1, <1>4, <2>1 DEF LocalAt, RangeAt, Chain
  <2> HIDE DEF t, b
  <2>5. b \in 1..Len(bs2) /\ bs2[b].op = Op(p, id)
    BY <2>2, <1>4 DEF LongerBlocks
  <2>6. ASSUME NEW k \in 1..Len(h2) PROVE h2[k] = b <=> m.at[t] =< k /\ k < m.at[id]
    <3>1. CASE k > Len(h)
      BY <3>1, <2>2, <2>4, <1>4 DEF LongerHome
    <3>2. CASE ~(k > Len(h))
      <4>1. k \in 1..Len(h) /\ h2[k] = h[k]
        BY <3>2, <1>4 DEF LongerHome
      <4> QED BY <4>1, <2>2
    <3> QED BY <3>1, <3>2
  <2>7. ASSUME m.at[t] < m.at[id] PROVE Nx(q, t) # 0 /\ Op(q, Nx(q, t)) \in W \cup {"raw"}
    <3>1. t # o
      <4>1. t = o => Is(m, o, Len(h) + 1, 0, 0)
        BY <2>1, <1>1 DEF Chain, OpenOK
      <4> QED BY <4>1, <2>4, <2>7, <1>4 DEF Is
    <3>2. Nx(p, t) # 0 /\ Op(p, Nx(p, t)) \in W \cup {"raw"} /\ Nx(p, t) \in Ids(p)
      BY <2>1, <2>2, <2>7 DEF Extends
    <3>3. Nx(q, t) = Nx(p, t)
      <4>1. Op(p, Nx(p, t)) # "label"
        BY <3>2 DEF W
      <4> QED BY <4>1, <3>1, <3>2, <2>1 DEF Redirects
    <3>4. Op(q, Nx(p, t)) = Op(p, Nx(p, t))
      BY <3>2 DEF Extends, Op
    <3> QED BY <3>2, <3>3, <3>4
  <2> QED BY <2>1, <2>2, <2>3, <2>5, <2>6, <2>7, <1>2, <1>3 DEF LoopAt, b
<1>9. CallAt(q, m2, id)
  <2>1. ASSUME Op(p, id) = "call"
        PROVE m.call[id] = 0 /\ m.loop[id] = 0 /\ Is(m2, To(q, id), m.at[id], id, 0)
    <3>1. To(q, id) = To(p, id) /\ To(p, id) \in Ids(p)
      BY <2>1, <1>5 DEF Transfers
    <3> QED BY <3>1, <2>1, <1>1 DEF LocalAt, CallAt, Is, Agree
  <2>2. ASSUME Op(p, id) = "ret"
        PROVE  /\ m.loop[id] = 0 /\ m.call[id] \in Ids(q) /\ Op(q, m.call[id]) = "call"
               /\ Nx(q, m.call[id]) # 0 /\ m2.at[Nx(q, m.call[id])] = m.at[id]
    <3> DEFINE c == m.call[id]
    <3>1. /\ m.loop[id] = 0 /\ c \in Ids(p) /\ Op(p, c) = "call"
          /\ Nx(p, c) # 0 /\ m.at[Nx(p, c)] = m.at[id]
      BY <2>2, <1>1 DEF LocalAt, CallAt
    <3>2. c # o
      BY <3>1, <1>1 DEF Chain, OpenOK, W
    <3>3. Nx(p, c) \in Ids(p) /\ m2.at[Nx(p, c)] = m.at[Nx(p, c)]
      BY <3>1 DEF Extends, Agree
    <3>4. Nx(q, c) # 0 /\ m2.at[Nx(q, c)] = m2.at[Nx(p, c)]
      BY <3>1, <3>2 DEF Redirects, Same, Is
    <3> QED BY <3>1, <3>3, <3>4 DEF Extends, Op
  <2> QED BY <2>1, <2>2, <1>2, <1>3 DEF CallAt
<1>10. JumpAt(q, m2, id)
  <2>1. ASSUME Op(p, id) \in {"jmp", "jcc"} PROVE Same(m2, To(q, id), id)
    <3>1. To(q, id) = To(p, id) /\ To(p, id) \in Ids(p)
      BY <2>1, <1>5 DEF Transfers, Jumps
    <3> QED BY <3>1, <2>1, <1>1, <1>3 DEF LocalAt, JumpAt, Same, Is, Agree
  <2> QED BY <2>1, <1>1, <1>2, <1>3 DEF JumpAt, LocalAt
<1> QED BY <1>6, <1>7, <1>8, <1>9, <1>10 DEF LocalAt

\* ... and what comes behind them may.
LEMMA ExtendFlow ==
  ASSUME NEW p, NEW q, NEW m, NEW m2, NEW h, NEW h2, NEW bs, NEW bs2, NEW o,
         Chain(p, m, h, bs, o), Known(m2, h2, bs2), Extends(p, q), Agree(p, m, m2),
         Redirects(p, q, m2, o), LongerHome(h, h2), LongerBlocks(bs, bs2)
  PROVE  /\ \A id \in Ids(p) : id # o => FlowAt(q, m2, h2, bs2, id)
         /\ o # 0 => Nx(q, 0) # 0 /\ Is(m2, Nx(q, 0), 1, 0, 0)
<1>0. Len(h) \in Nat /\ Len(h2) \in Nat /\ Len(bs) \in Nat /\ Len(bs2) \in Nat
  BY DEF Chain, Known
<1>1. ASSUME NEW id \in Ids(p), id # o PROVE FlowAt(q, m2, h2, bs2, id)
  <2> DEFINE z == Nx(p, id)
             y == Nx(q, id)
  <2>1. Op(q, id) = Op(p, id) /\ Arg(q, id) = Arg(p, id)
    BY DEF Extends, Op, Arg
  <2> SUFFICES ASSUME Op(p, id) \in Falling PROVE Fed(q, m2, h2, bs2, id, y)
    BY <2>1 DEF FlowAt
  <2>2. Fed(p, m, h, bs, id, z) /\ z # 0 /\ z \in Ids(p)
    <3>1. Fed(p, m, h, bs, id, z) /\ z \in Ids(p) \cup {0}
      BY <1>1 DEF Chain, FlowAt, Extends
    <3> QED BY <3>1 DEF Fed
  <2>3. m2.at[id] = m.at[id] /\ m2.call[id] = m.call[id] /\ m2.loop[id] = m.loop[id]
    BY DEF Agree
  <2>4. y # 0 /\ m2.at[y] = m.at[z] /\ m2.call[y] = m.call[z] /\ m2.loop[y] = m.loop[z]
    <3>1. m2.at[z] = m.at[z] /\ m2.call[z] = m.call[z] /\ m2.loop[z] = m.loop[z]
      BY <2>2 DEF Agree
    <3>2. y = z \/ (y # 0 /\ Same(m2, y, z))
      BY <1>1, <2>2 DEF Redirects
    <3> QED BY <3>1, <3>2, <2>2 DEF Same, Is
  <2> HIDE DEF z, y
  <2>5. CASE Op(p, id) = "movecx"
    <3> DEFINE b == m.loop[z]
    <3>1. /\ m.at[z] = m.at[id] /\ m.call[z] = 0
          /\ b \in 1..Len(bs) /\ bs[b].op \in Loops /\ bs[b].times = Arg(p, id)
          /\ \A k \in 1..Len(h) : h[k] = b => m.at[id] =< k
      BY <2>2, <2>5 DEF Fed
    <3> HIDE DEF b
    <3>2. b \in 1..Len(bs2) /\ bs2[b] = bs[b]
      BY <3>1, <1>0 DEF LongerBlocks
    <3>3. \A k \in 1..Len(h2) : h2[k] = b => m.at[id] =< k
      <4> TAKE k \in 1..Len(h2)
      <4>1. CASE k > Len(h)
        BY <4>1, <3>1, <1>0 DEF LongerHome
      <4>2. CASE ~(k > Len(h))
        <5>1. k \in 1..Len(h) /\ h2[k] = h[k]
          BY <4>2, <1>0 DEF LongerHome
        <5> QED BY <5>1, <3>1
      <4> QED BY <4>1, <4>2
    <3>4. Op(q, id) = "movecx"
      BY <2>1, <2>5
    <3> QED BY <3>1, <3>2, <3>3, <3>4, <2>1, <2>3, <2>4 DEF Fed, W, Loops, b
  <2>6. CASE Op(p, id) # "movecx"
    BY <2>1, <2>2, <2>3, <2>4, <2>6 DEF Fed, Same, Is
  <2> QED BY <2>5, <2>6
<1>2. ASSUME o # 0 PROVE Nx(q, 0) # 0 /\ Is(m2, Nx(q, 0), 1, 0, 0)
  <2> DEFINE z == Nx(p, 0)
             y == Nx(q, 0)
  <2>1. z # 0 /\ Is(m, z, 1, 0, 0) /\ z \in Ids(p)
    BY <1>2 DEF Chain, StartOK, Extends
  <2>2. Is(m2, z, 1, 0, 0)
    BY <2>1 DEF Agree, Is
  <2>3. y = z \/ (y # 0 /\ Same(m2, y, z))
    BY <1>2, <2>1 DEF Redirects
  <2> QED BY <2>1, <2>2, <2>3 DEF Same, Is
<1> QED BY <1>1, <1>2

\* The program with the new instructions: what remains to be shown is that they,
\* and the instruction they come behind, are in order.
LEMMA Extend ==
  ASSUME NEW p, NEW q, NEW m, NEW m2, NEW h, NEW h2, NEW bs, NEW bs2, NEW o, NEW o2,
         Chain(p, m, h, bs, o), Known(m2, h2, bs2), Extends(p, q), Agree(p, m, m2),
         Redirects(p, q, m2, o), LongerHome(h, h2), LongerBlocks(bs, bs2),
         \A id \in Ids(q) \ Ids(p) : /\ LocalAt(q, m2, h2, bs2, id)
                                     /\ id # o2 => FlowAt(q, m2, h2, bs2, id),
         o # 0 => FlowAt(q, m2, h2, bs2, o),
         o = 0 => Nx(q, 0) # 0 /\ Is(m2, Nx(q, 0), 1, 0, 0),
         o2 # 0, OpenOK(q, m2, h2, o2)
  PROVE  Chain(q, m2, h2, bs2, o2)
<1>1. /\ \A id \in Ids(p) : id # o => FlowAt(q, m2, h2, bs2, id)
      /\ o # 0 => Nx(q, 0) # 0 /\ Is(m2, Nx(q, 0), 1, 0, 0)
  BY ExtendFlow
<1>2. \A id \in Ids(p) : LocalAt(q, m2, h2, bs2, id)
  <2> TAKE id \in Ids(p)
  <2> QED BY ExtendLocal
<1>3. \A id \in Ids(p) : FlowAt(q, m2, h2, bs2, id)
  <2>1. 0 \notin Ids(p)
    BY DEF Extends
  <2> QED BY <2>1, <1>1
<1>4. StartOK(q, m2, o2)
  BY <1>1 DEF StartOK
<1> QED BY <1>2, <1>3, <1>4 DEF Chain

-----------------------------------------------------------------------------
(* Several calls in a row.                                                  *)

\* q is p with k instructions and some labels more.
Kept(p, q, k) ==
  /\ Len(p.code) \in Nat /\ k \in Nat /\ Len(q.code) = Len(p.code) + k
  /\ p.labeli \in Nat /\ q.labeli \in Nat /\ p.labeli =< q.labeli
  /\ \A id \in 1..Len(p.code) : q.code[id] = p.code[id]
  /\ \A l \in 0..(p.labeli - 1) : LabelPos(q, l) = LabelPos(p, l)

\* One instruction more.
LEMMA KeptBy ==
  ASSUME NEW p, NEW q, NEW insn, Put(p, q, insn), p.labeli \in Nat,
         SameLabels(p, q) \/ NewLabel(p, q)
  PROVE  Kept(p, q, 1)
BY DEF Kept, Put, SameLabels, NewLabel, Ids

\* A call that only moves the position or a lock.
LEMMA KeptSame ==
  ASSUME NEW p, NEW q, Ring(p), SameRing(p, q)
  PROVE  Kept(p, q, 0) /\ Ids(q) = Ids(p) /\ (\A y : Nx(q, y) = Nx(p, y))
<1>1. Len(p.code) \in Nat /\ p.labeli \in Nat
  BY LenProperties DEF Ring, Sound, Shape, PGState
<1> QED BY <1>1 DEF Kept, SameRing, Ids, LabelPos, Nx

\* One call after another.
LEMMA KeptTrans ==
  ASSUME NEW p, NEW q, NEW r, NEW j, NEW k, Kept(p, q, j), Kept(q, r, k)
  PROVE  Kept(p, r, j + k)
<1>1. /\ Len(p.code) \in Nat /\ j \in Nat /\ k \in Nat /\ Len(q.code) = Len(p.code) + j
      /\ Len(r.code) = Len(q.code) + k
      /\ p.labeli \in Nat /\ q.labeli \in Nat /\ r.labeli \in Nat
      /\ p.labeli =< q.labeli /\ q.labeli =< r.labeli
  BY DEF Kept
<1>2. \A id \in 1..Len(p.code) : id \in 1..Len(q.code)
  BY <1>1
<1>3. \A l \in 0..(p.labeli - 1) : l \in 0..(q.labeli - 1)
  BY <1>1
<1>4. \A id \in 1..Len(p.code) : r.code[id] = p.code[id]
  BY <1>2 DEF Kept
<1>5. \A l \in 0..(p.labeli - 1) : LabelPos(r, l) = LabelPos(p, l)
  BY <1>3 DEF Kept
<1>6. Len(r.code) = Len(p.code) + (j + k) /\ j + k \in Nat
  <2> DEFINE x == Len(p.code)
  <2>0. x \in Nat /\ j \in Nat /\ k \in Nat
    BY <1>1
  <2>1. (x + j) + k = x + (j + k) /\ j + k \in Nat
    <3> HIDE DEF x
    <3> QED BY <2>0
  <2>2. Len(r.code) = (Len(p.code) + j) + k
    BY <1>1, Zenon
  <2> QED BY <2>1, <2>2, Zenon
<1>7. p.labeli =< r.labeli
  <2>1. \A x, y, z \in Nat : x =< y /\ y =< z => x =< z
    OBVIOUS
  <2> QED BY <2>1, <1>1
<1> QED BY <1>1, <1>4, <1>5, <1>6, <1>7 DEF Kept

\* Going on in a ring stays in it, each time from another instruction.
LEMMA RingClosed ==
  ASSUME NEW p, Ring(p)
  PROVE  /\ \A y \in Ids(p) \cup {0} : Nx(p, y) \in Ids(p) \cup {0}
         /\ \A y, z \in Ids(p) \cup {0} : Nx(p, y) = Nx(p, z) => y = z
         /\ \A y \in Ids(p) : Nx(p, y) # y
         /\ 0 \notin Ids(p) /\ Len(p.code) \in Nat
         /\ p.insertpos \in Ids(p) \/ (p.insertpos = 0 /\ p.code = << >>)
<1>1. Shape(p) /\ Distinct(p.list)
  BY DEF Ring, Sound
<1>2. /\ p.list \in Seq(Entries) /\ Listed(p.list) = Ids(p) /\ Len(p.code) \in Nat
  BY <1>1, RingListed
<1>3. /\ \A y \in Ids(p) \cup {0} : Nx(p, y) \in Ids(p) \cup {0}
      /\ \A y, z \in Ids(p) \cup {0} : Nx(p, y) = Nx(p, z) => y = z
      /\ \A y \in Ids(p) : Nx(p, y) # y
  BY <1>1, <1>2, NxtInjective DEF Nx
<1>4. 0 \notin Ids(p)
  BY DEF Ids
<1> QED BY <1>2, <1>3, <1>4 DEF Ring, Sound, Shape, NoEntry

\* More instructions leave the older ones as they are.
LEMMA KeptExtends ==
  ASSUME NEW p, NEW q, NEW k, Ring(p), Kept(p, q, k)
  PROVE  Extends(p, q)
<1>1. Ids(p) \subseteq Ids(q) /\ 0 \notin Ids(q)
  BY DEF Kept, Ids
<1>2. \A y \in Ids(p) \cup {0} : Nx(p, y) \in Ids(p) \cup {0}
  BY RingClosed
<1> QED BY <1>1, <1>2 DEF Kept, Extends, Ids

\* What came before a label goes on with a jmp to it.
LEMMA JmpToLabelRing ==
  ASSUME NEW p, Ring(p), p.lock_ctrl = FALSE, NEW label \in 0..(p.labeli - 1)
  PROVE  LET q == gen_jmp_to_label(p, label)
             n == Len(p.code)
         IN /\ Ring(q) /\ Kept(p, q, 2) /\ q.insertpos = n + 2
            /\ q.code[n + 1] = Insn("jmp", label) /\ q.code[n + 2] = Insn("label", p.labeli)
            /\ q.labeli = p.labeli + 1 /\ LabelPos(q, p.labeli) = n + 2
            /\ LabelPos(p, label) \in Ids(p) /\ Op(p, LabelPos(p, label)) = "label"
            /\ \A y \in Ids(p) \cup {0} :
                 Nx(q, y) = IF Nx(p, y) = LabelPos(p, label) THEN n + 1 ELSE Nx(p, y)
            /\ q.lock_ctrl = FALSE /\ q.lock_cx = p.lock_cx
<1> DEFINE n == Len(p.code)
           tp == LabelPos(p, label)
           jmp == Insn("jmp", label)
           u == update_insert_pos_to_label(p, label)
           v == stat_insert_insn(u, jmp, "before")
           q == gen_label(v, "after")
<1>0. gen_jmp_to_label(p, label) = q
  BY DEF gen_jmp_to_label
<1>1. Shape(p) /\ Distinct(p.list) /\ p.labeli \in Nat /\ n \in Nat
  BY LenProperties DEF Ring, Sound, Shape, PGState
<1>2. tp \in Ids(p) /\ Op(p, tp) = "label"
  <2>1. tp \in Ids(p) /\ p.code[tp] = Insn("label", label)
    BY <1>1 DEF Shape, LabelsMatch
  <2> QED BY <2>1 DEF Op, Insn
<1>3. /\ Ring(u) /\ SameRing(p, u) /\ u.insertpos = tp
      /\ u.lock_ctrl = p.lock_ctrl /\ u.lock_cx = p.lock_cx
  BY <1>1, MoveRing
<1> HIDE DEF u
<1>4. Kept(p, u, 0) /\ Ids(u) = Ids(p) /\ (\A y : Nx(u, y) = Nx(p, y))
      /\ Len(u.code) = n /\ u.labeli = p.labeli
  BY <1>3, KeptSame DEF SameRing
<1>5. jmp \in PlainInsns
  <2>1. label \in Int
    BY <1>1
  <2> QED BY <2>1, TransferInsn DEF Transfers, Jumps
<1>6. u.code # << >>
  BY <1>2, <1>3 DEF SameRing, Ids
<1>7. Ring(v) /\ Put(u, v, jmp) /\ Links(u, v, "before") /\ SameLabels(u, v)
  BY <1>3, <1>5, <1>6, InsertRing DEF Places
<1> HIDE DEF v
<1>8. /\ Kept(u, v, 1) /\ Len(v.code) = n + 1 /\ v.insertpos = n + 1
      /\ Ids(v) = Ids(p) \cup {n + 1} /\ n + 1 \notin Ids(p) \cup {0}
      /\ v.code[n + 1] = jmp /\ v.labeli = p.labeli
      /\ v.lock_ctrl = FALSE /\ v.lock_cx = p.lock_cx
  BY <1>1, <1>3, <1>4, <1>7, KeptBy DEF Put, SameLabels
<1>9. Ring(q) /\ Put(v, q, Insn("label", p.labeli)) /\ Links(v, q, "after") /\ NewLabel(v, q)
  BY <1>7, <1>8, LabelRing DEF Places
<1> HIDE DEF q
<1>10. Kept(v, q, 1) /\ q.insertpos = n + 2
  <2>1. (n + 1) + 1 = n + 2
    BY <1>1
  <2> QED BY <2>1, <1>1, <1>8, <1>9, KeptBy DEF Put
<1>11. Kept(p, q, 2)
  <2>1. Kept(p, v, 0 + 1)
    BY <1>4, <1>8, KeptTrans
  <2>2. Kept(p, q, (0 + 1) + 1)
    BY <2>1, <1>10, KeptTrans
  <2> QED BY <2>2
<1>12. q.code[n + 1] = jmp /\ q.code[n + 2] = Insn("label", p.labeli)
  <2>1. (n + 1) + 1 = n + 2
    BY <1>1
  <2> QED BY <2>1, <1>8, <1>9 DEF Put
<1>13. /\ q.labeli = p.labeli + 1 /\ LabelPos(q, p.labeli) = n + 2
       /\ q.lock_ctrl = FALSE /\ q.lock_cx = p.lock_cx
  BY <1>8, <1>9, <1>10 DEF NewLabel, Put
<1>14. ASSUME NEW y \in Ids(p) \cup {0}
       PROVE  Nx(q, y) = IF Nx(p, y) = tp THEN n + 1 ELSE Nx(p, y)
  <2>1. Nx(v, y) = IF Nx(p, y) = tp THEN n + 1 ELSE Nx(p, y)
    BY <1>3, <1>4, <1>7, <1>8 DEF Links, Behind
  <2>2. y # n + 1 /\ y \in Ids(v) \cup {0}
    BY <1>8
  <2>3. Nx(q, y) = Nx(v, y)
    BY <2>2, <1>8, <1>9 DEF Links, After
  <2> QED BY <2>1, <2>3
<1> QED BY <1>0, <1>2, <1>9, <1>10, <1>11, <1>12, <1>13, <1>14

\* One instruction more behind the insert position.
LEMMA PutAfterRing ==
  ASSUME NEW p, Ring(p), NEW insn \in PlainInsns
  PROVE  LET q == stat_insert_insn(p, insn, "after")
             n == Len(p.code)
         IN /\ Ring(q) /\ Kept(p, q, 1) /\ q.insertpos = n + 1 /\ q.code[n + 1] = insn
            /\ Len(q.code) = n + 1 /\ n \in Nat /\ Ids(q) = Ids(p) \cup {n + 1}
            /\ n + 1 \notin Ids(p) \cup {0}
            /\ Nx(q, p.insertpos) = n + 1 /\ Nx(q, n + 1) = Nx(p, p.insertpos)
            /\ \A y \in Ids(p) \cup {0} : y # p.insertpos => Nx(q, y) = Nx(p, y)
            /\ q.labeli = p.labeli /\ p.labeli \in Nat
            /\ q.lock_ctrl = p.lock_ctrl /\ q.lock_cx = p.lock_cx
<1> DEFINE q == stat_insert_insn(p, insn, "after")
<1>1. p.labeli \in Nat
  BY DEF Ring, Sound, Shape, PGState
<1>2. Ring(q) /\ Put(p, q, insn) /\ Links(p, q, "after") /\ SameLabels(p, q)
  BY InsertRing DEF Places
<1> HIDE DEF q
<1>3. Kept(p, q, 1)
  BY <1>1, <1>2, KeptBy
<1>4. After(p, q) /\ q.labeli = p.labeli
  BY <1>2 DEF Links, SameLabels
<1> QED BY <1>1, <1>2, <1>3, <1>4 DEF Put, After, q

\* One label more, behind the insert position.
LEMMA LabelAfterRing ==
  ASSUME NEW p, Ring(p), p.lock_ctrl = FALSE
  PROVE  LET q == gen_label(p, "after")
             n == Len(p.code)
         IN /\ Ring(q) /\ Kept(p, q, 1) /\ q.insertpos = n + 1
            /\ q.code[n + 1] = Insn("label", p.labeli)
            /\ Len(q.code) = n + 1 /\ n \in Nat /\ Ids(q) = Ids(p) \cup {n + 1}
            /\ n + 1 \notin Ids(p) \cup {0}
            /\ Nx(q, p.insertpos) = n + 1 /\ Nx(q, n + 1) = Nx(p, p.insertpos)
            /\ \A y \in Ids(p) \cup {0} : y # p.insertpos => Nx(q, y) = Nx(p, y)
            /\ q.labeli = p.labeli + 1 /\ p.labeli \in Nat /\ LabelPos(q, p.labeli) = n + 1
            /\ q.lock_ctrl = FALSE /\ q.lock_cx = p.lock_cx
<1> DEFINE q == gen_label(p, "after")
<1>1. p.labeli \in Nat
  BY DEF Ring, Sound, Shape, PGState
<1>2. Ring(q) /\ Put(p, q, Insn("label", p.labeli)) /\ Links(p, q, "after") /\ NewLabel(p, q)
  BY LabelRing DEF Places
<1> HIDE DEF q
<1>3. Kept(p, q, 1)
  BY <1>1, <1>2, KeptBy
<1>4. After(p, q) /\ q.labeli = p.labeli + 1 /\ LabelPos(q, p.labeli) = q.insertpos
  BY <1>2 DEF Links, NewLabel
<1> QED BY <1>1, <1>2, <1>3, <1>4 DEF Put, After, q

\* One label more, before the insert position.
LEMMA LabelBeforeRing ==
  ASSUME NEW p, Ring(p), p.lock_ctrl = FALSE, p.code # << >>
  PROVE  LET q == gen_label(p, "before")
             n == Len(p.code)
         IN /\ Ring(q) /\ Kept(p, q, 1) /\ q.insertpos = n + 1
            /\ q.code[n + 1] = Insn("label", p.labeli)
            /\ Len(q.code) = n + 1 /\ n \in Nat /\ Ids(q) = Ids(p) \cup {n + 1}
            /\ n + 1 \notin Ids(p) \cup {0}
            /\ Nx(q, n + 1) = p.insertpos
            /\ \A y \in Ids(p) \cup {0} :
                 Nx(q, y) = IF Nx(p, y) = p.insertpos THEN n + 1 ELSE Nx(p, y)
            /\ q.labeli = p.labeli + 1 /\ p.labeli \in Nat /\ LabelPos(q, p.labeli) = n + 1
            /\ q.lock_ctrl = FALSE /\ q.lock_cx = p.lock_cx
<1> DEFINE q == gen_label(p, "before")
<1>1. p.labeli \in Nat
  BY DEF Ring, Sound, Shape, PGState
<1>2. Ring(q) /\ Put(p, q, Insn("label", p.labeli)) /\ Links(p, q, "before") /\ NewLabel(p, q)
  BY LabelRing DEF Places
<1> HIDE DEF q
<1>3. Kept(p, q, 1)
  BY <1>1, <1>2, KeptBy
<1>4. Behind(p, q, p.insertpos) /\ q.labeli = p.labeli + 1 /\ LabelPos(q, p.labeli) = q.insertpos
  BY <1>2 DEF Links, NewLabel
<1> QED BY <1>1, <1>2, <1>3, <1>4 DEF Put, Behind, q

\* One instruction more, before the insert position.
LEMMA PutBeforeRing ==
  ASSUME NEW p, Ring(p), NEW insn \in PlainInsns, p.code # << >>
  PROVE  LET q == stat_insert_insn(p, insn, "before")
             n == Len(p.code)
         IN /\ Ring(q) /\ Kept(p, q, 1) /\ q.insertpos = n + 1 /\ q.code[n + 1] = insn
            /\ Len(q.code) = n + 1 /\ n \in Nat /\ Ids(q) = Ids(p) \cup {n + 1}
            /\ n + 1 \notin Ids(p) \cup {0}
            /\ Nx(q, n + 1) = p.insertpos
            /\ \A y \in Ids(p) \cup {0} :
                 Nx(q, y) = IF Nx(p, y) = p.insertpos THEN n + 1 ELSE Nx(p, y)
            /\ q.labeli = p.labeli /\ p.labeli \in Nat
            /\ q.lock_ctrl = p.lock_ctrl /\ q.lock_cx = p.lock_cx
<1> DEFINE q == stat_insert_insn(p, insn, "before")
<1>1. p.labeli \in Nat
  BY DEF Ring, Sound, Shape, PGState
<1>2. Ring(q) /\ Put(p, q, insn) /\ Links(p, q, "before") /\ SameLabels(p, q)
  BY InsertRing DEF Places
<1> HIDE DEF q
<1>3. Kept(p, q, 1)
  BY <1>1, <1>2, KeptBy
<1>4. Behind(p, q, p.insertpos) /\ q.labeli = p.labeli
  BY <1>2 DEF Links, SameLabels
<1> QED BY <1>1, <1>2, <1>3, <1>4 DEF Put, Behind, q

\* More of the same program twice is more of it.
LEMMA ExtendsTrans ==
  ASSUME NEW p, NEW q, NEW r, Extends(p, q), Extends(q, r)
  PROVE  Extends(p, r)
<1>1. /\ p.labeli \in Nat /\ q.labeli \in Nat /\ r.labeli \in Nat
      /\ p.labeli =< q.labeli /\ q.labeli =< r.labeli
  BY DEF Extends
<1>2. p.labeli =< r.labeli /\ \A l \in 0..(p.labeli - 1) : l \in 0..(q.labeli - 1)
  BY <1>1
<1> QED BY <1>1, <1>2 DEF Extends

\* What jmp and jcc put at the insert position.
Lead(p, op) ==
  LET a == stat_insert_insn(p, Insn(op, p.labeli), "after")
  IN IF op = "jmp" THEN a ELSE stat_insert_insn(a, Insn("jmp", p.labeli), "after")

\* A jump is put behind the insert position, and a jcc is followed by a jmp to the same label.
LEMMA DivertLead ==
  ASSUME NEW p, Ring(p), p.lock_ctrl = FALSE, NEW op \in Jumps
  PROVE  LET b == Lead(p, op)
             n == Len(p.code)
         IN /\ Ring(b) /\ Extends(p, b) /\ b.lock_ctrl = FALSE /\ b.lock_cx = p.lock_cx
            /\ b.insertpos = Len(b.code) /\ n \in Nat /\ Len(b.code) \in {n + 1, n + 2}
            /\ Ids(b) = Ids(p) \cup {n + 1, Len(b.code)}
            /\ n + 1 \notin Ids(p) \cup {0} /\ Len(b.code) \notin Ids(p) \cup {0}
            /\ b.code[n + 1] = Insn(op, p.labeli) /\ b.code[Len(b.code)] = Insn("jmp", p.labeli)
            /\ b.labeli = p.labeli /\ p.labeli \in Nat
            /\ Nx(b, p.insertpos) = n + 1
            /\ op = "jmp" => Len(b.code) = n + 1
            /\ op = "jcc" => Len(b.code) = n + 2 /\ Nx(b, n + 1) = n + 2
            /\ \A y \in Ids(p) \cup {0} : y # p.insertpos => Nx(b, y) = Nx(p, y)
<1> DEFINE i1 == Insn(op, p.labeli)
           i2 == Insn("jmp", p.labeli)
           n == Len(p.code)
           a == stat_insert_insn(p, i1, "after")
           c == stat_insert_insn(a, i2, "after")
<1>0. p.labeli \in Nat
  BY DEF Ring, Sound, Shape, PGState
<1>1. i1 \in PlainInsns /\ i2 \in PlainInsns
  BY <1>0, TransferInsn DEF Transfers, Jumps
<1>2. /\ Ring(a) /\ Kept(p, a, 1) /\ a.insertpos = n + 1 /\ a.code[n + 1] = i1
      /\ Len(a.code) = n + 1 /\ n \in Nat /\ Ids(a) = Ids(p) \cup {n + 1}
      /\ n + 1 \notin Ids(p) \cup {0}
      /\ Nx(a, p.insertpos) = n + 1 /\ Nx(a, n + 1) = Nx(p, p.insertpos)
      /\ \A y \in Ids(p) \cup {0} : y # p.insertpos => Nx(a, y) = Nx(p, y)
      /\ a.labeli = p.labeli /\ a.lock_ctrl = FALSE /\ a.lock_cx = p.lock_cx
  <2> HIDE DEF i1
  <2> QED BY <1>1, PutAfterRing
<1> DEFINE b == Lead(p, op)
<1>3. b = IF op = "jmp" THEN a ELSE c
  BY DEF Lead
<1> HIDE DEF a, b, i1, i2
<1>4. Extends(p, a)
  BY <1>2, KeptExtends
<1> SUFFICES /\ Ring(b) /\ Extends(p, b) /\ b.lock_ctrl = FALSE /\ b.lock_cx = p.lock_cx
             /\ b.insertpos = Len(b.code) /\ n \in Nat /\ Len(b.code) \in {n + 1, n + 2}
             /\ Ids(b) = Ids(p) \cup {n + 1, Len(b.code)}
             /\ n + 1 \notin Ids(p) \cup {0} /\ Len(b.code) \notin Ids(p) \cup {0}
             /\ b.code[n + 1] = i1 /\ b.code[Len(b.code)] = i2
             /\ b.labeli = p.labeli /\ p.labeli \in Nat
             /\ Nx(b, p.insertpos) = n + 1
             /\ op = "jmp" => Len(b.code) = n + 1
             /\ op = "jcc" => Len(b.code) = n + 2 /\ Nx(b, n + 1) = n + 2
             /\ \A y \in Ids(p) \cup {0} : y # p.insertpos => Nx(b, y) = Nx(p, y)
  BY DEF b, i1, i2
<1>5. CASE op = "jmp"
  <2>1. i1 = i2 /\ op # "jcc" /\ b = a
    BY <1>3, <1>5 DEF i1, i2
  <2> QED BY <2>1, <1>0, <1>2, <1>4, <1>5
<1>6. CASE op # "jmp"
  <2>1. /\ Ring(c) /\ Kept(a, c, 1) /\ c.insertpos = Len(a.code) + 1 /\ c.code[Len(a.code) + 1] = i2
        /\ Len(c.code) = Len(a.code) + 1 /\ Ids(c) = Ids(a) \cup {Len(a.code) + 1}
        /\ Len(a.code) + 1 \notin Ids(a) \cup {0}
        /\ Nx(c, a.insertpos) = Len(a.code) + 1
        /\ \A y \in Ids(a) \cup {0} : y # a.insertpos => Nx(c, y) = Nx(a, y)
        /\ c.labeli = a.labeli /\ c.lock_ctrl = a.lock_ctrl /\ c.lock_cx = a.lock_cx
    BY <1>1, <1>2, PutAfterRing
  <2> HIDE DEF c
  <2>2. Len(a.code) + 1 = n + 2
    BY <1>2
  <2>3. Extends(a, c)
    BY <2>1, <1>2, KeptExtends
  <2>4. Extends(p, c) /\ c.code[n + 1] = i1
    BY <2>3, <1>2, <1>4, ExtendsTrans DEF Extends
  <2>5. p.insertpos \in Ids(p) \cup {0}
    BY RingClosed
  <2>6. Nx(c, p.insertpos) = n + 1 /\ \A y \in Ids(p) \cup {0} : y # p.insertpos => Nx(c, y) = Nx(p, y)
    BY <2>1, <2>5, <1>2
  <2>7. b = c /\ op = "jcc"
    BY <1>3, <1>6 DEF Jumps, c
  <2>8. n + 2 \notin Ids(p) \cup {0}
    BY <1>2 DEF Ids
  <2> QED BY <2>1, <2>2, <2>4, <2>6, <2>7, <2>8, <1>0, <1>2
<1> QED BY <1>5, <1>6

\* The program after a jump to a label, with e the jmp that ends what was before.
Diverted(p, op, label, q, e) ==
  LET n == Len(p.code)
      tp == LabelPos(p, label)
  IN /\ Ring(q) /\ Extends(p, q) /\ q.lock_ctrl = FALSE /\ q.lock_cx = p.lock_cx
     /\ n \in Nat /\ Ids(q) = Ids(p) \cup {n + 1, e, e + 1, e + 2} /\ q.insertpos = e + 2
     /\ {n + 1, e, e + 1, e + 2} \cap (Ids(p) \cup {0}) = {}
     /\ q.code[n + 1] = Insn(op, p.labeli) /\ q.code[e] = Insn("jmp", p.labeli)
     /\ q.code[e + 1] = Insn("jmp", label) /\ q.code[e + 2] = Insn("label", p.labeli)
     /\ q.labeli = p.labeli + 1 /\ p.labeli \in Nat /\ LabelPos(q, p.labeli) = e + 2
     /\ tp \in Ids(p) /\ Op(p, tp) = "label" /\ LabelPos(q, label) = tp
     /\ Nx(q, p.insertpos) = n + 1
     /\ op = "jmp" => e = n + 1
     /\ op = "jcc" => e = n + 2 /\ Nx(q, n + 1) = n + 2
     /\ \A y \in Ids(p) \cup {0} : y # p.insertpos =>
          Nx(q, y) = IF Nx(p, y) = tp THEN e + 1 ELSE Nx(p, y)

\* A jump to a label: the code that follows is moved there.
LEMMA DivertRing ==
  ASSUME NEW p, Ring(p), p.lock_ctrl = FALSE, NEW op \in Jumps, NEW label \in 0..(p.labeli - 1)
  PROVE  \E e \in {Len(p.code) + 1, Len(p.code) + 2} :
           Diverted(p, op, label, Divert(p, op, label), e)
<1> DEFINE n == Len(p.code)
           tp == LabelPos(p, label)
           b == Lead(p, op)
           e == Len(b.code)
           q == gen_jmp_to_label(b, label)
<1>1. /\ Ring(b) /\ Extends(p, b) /\ b.lock_ctrl = FALSE /\ b.lock_cx = p.lock_cx
      /\ b.insertpos = e /\ n \in Nat /\ e \in {n + 1, n + 2}
      /\ Ids(b) = Ids(p) \cup {n + 1, e}
      /\ n + 1 \notin Ids(p) \cup {0} /\ e \notin Ids(p) \cup {0}
      /\ b.code[n + 1] = Insn(op, p.labeli) /\ b.code[e] = Insn("jmp", p.labeli)
      /\ b.labeli = p.labeli /\ p.labeli \in Nat
      /\ Nx(b, p.insertpos) = n + 1
      /\ op = "jmp" => e = n + 1
      /\ op = "jcc" => e = n + 2 /\ Nx(b, n + 1) = n + 2
      /\ \A y \in Ids(p) \cup {0} : y # p.insertpos => Nx(b, y) = Nx(p, y)
  BY DivertLead
<1>2. Divert(p, op, label) = q
  <2>1. label # NoLabel
    BY <1>1 DEF NoLabel
  <2> QED BY <2>1 DEF Divert, Lead
<1> HIDE DEF b
<1>3. /\ Ring(q) /\ Kept(b, q, 2) /\ q.insertpos = e + 2
      /\ q.code[e + 1] = Insn("jmp", label) /\ q.code[e + 2] = Insn("label", b.labeli)
      /\ q.labeli = b.labeli + 1 /\ LabelPos(q, b.labeli) = e + 2
      /\ LabelPos(b, label) \in Ids(b) /\ Op(b, LabelPos(b, label)) = "label"
      /\ \A y \in Ids(b) \cup {0} :
           Nx(q, y) = IF Nx(b, y) = LabelPos(b, label) THEN e + 1 ELSE Nx(b, y)
      /\ q.lock_ctrl = FALSE /\ q.lock_cx = b.lock_cx
  BY <1>1, JmpToLabelRing
<1> HIDE DEF q, e
<1>4. LabelPos(b, label) = tp /\ LabelPos(q, label) = tp
  BY <1>1, <1>3 DEF Extends, Kept
<1>5. tp \in Ids(p) /\ Op(p, tp) = "label"
  <2>1. Shape(p) /\ DOMAIN p.code = Ids(p)
    BY LenProperties DEF Ring, Sound, Shape, PGState, Ids
  <2>2. tp \in Ids(p) /\ p.code[tp] = Insn("label", label)
    BY <2>1 DEF Shape, LabelsMatch
  <2> QED BY <2>2 DEF Op, Insn
<1>6. Extends(b, q) /\ Extends(p, q)
  BY <1>1, <1>3, KeptExtends, ExtendsTrans
<1>7. /\ e \in Nat /\ Ids(q) = Ids(b) \cup {e + 1, e + 2}
      /\ e + 1 \notin Ids(p) \cup {0} /\ e + 2 \notin Ids(p) \cup {0}
  <2>1. Len(q.code) = e + 2 /\ Len(b.code) = e /\ e \in Nat
    BY <1>3, <1>1 DEF Kept, e
  <2> QED BY <2>1, <1>1 DEF Ids
<1>8. q.code[n + 1] = Insn(op, p.labeli) /\ q.code[e] = Insn("jmp", p.labeli)
  BY <1>1, <1>6 DEF Extends
<1>9. p.insertpos \in Ids(p) \cup {0} /\ n + 1 # tp /\ n + 2 # tp
  <2>1. p.insertpos \in Ids(p) \cup {0}
    BY RingClosed
  <2> QED BY <2>1, <1>1, <1>5 DEF Ids
<1>10. Nx(q, p.insertpos) = n + 1 /\ (op = "jcc" => Nx(q, n + 1) = n + 2)
  BY <1>1, <1>3, <1>4, <1>9
<1>11. \A y \in Ids(p) \cup {0} : y # p.insertpos =>
                 Nx(q, y) = IF Nx(p, y) = tp THEN e + 1 ELSE Nx(p, y)
  BY <1>1, <1>3, <1>4
<1>12. Diverted(p, op, label, q, e)
  BY <1>1, <1>2, <1>3, <1>4, <1>5, <1>6, <1>7, <1>8, <1>10, <1>11 DEF Diverted
<1> QED BY <1>1, <1>2, <1>12

\* A jump when the program has no label yet: it goes to a new one, where the code goes on.
LEMMA DivertNewRing ==
  ASSUME NEW p, Ring(p), p.lock_ctrl = FALSE, NEW op \in Jumps
  PROVE  LET q == Divert(p, op, NoLabel)
             n == Len(p.code)
         IN \E e \in {n + 1, n + 2} :
            /\ Ring(q) /\ Extends(p, q) /\ q.lock_ctrl = FALSE /\ q.lock_cx = p.lock_cx
            /\ n \in Nat /\ Ids(q) = Ids(p) \cup {n + 1, e, e + 1} /\ q.insertpos = e + 1
            /\ {n + 1, e, e + 1} \cap (Ids(p) \cup {0}) = {}
            /\ q.code[n + 1] = Insn(op, p.labeli) /\ q.code[e] = Insn("jmp", p.labeli)
            /\ q.code[e + 1] = Insn("label", p.labeli)
            /\ q.labeli = p.labeli + 1 /\ p.labeli \in Nat /\ LabelPos(q, p.labeli) = e + 1
            /\ op = "jmp" => e = n + 1 /\ Nx(q, p.insertpos) = e + 1
            /\ op = "jcc" => e = n + 2 /\ Nx(q, p.insertpos) = n + 1 /\ Nx(q, n + 1) = e + 1
            /\ \A y \in Ids(p) \cup {0} : y # p.insertpos => Nx(q, y) = Nx(p, y)
<1> DEFINE n == Len(p.code)
           b == Lead(p, op)
           e == Len(b.code)
           q == gen_label(b, "before")
<1>1. /\ Ring(b) /\ Extends(p, b) /\ b.lock_ctrl = FALSE /\ b.lock_cx = p.lock_cx
      /\ b.insertpos = e /\ n \in Nat /\ e \in {n + 1, n + 2}
      /\ Ids(b) = Ids(p) \cup {n + 1, e}
      /\ n + 1 \notin Ids(p) \cup {0} /\ e \notin Ids(p) \cup {0}
      /\ b.code[n + 1] = Insn(op, p.labeli) /\ b.code[e] = Insn("jmp", p.labeli)
      /\ b.labeli = p.labeli /\ p.labeli \in Nat
      /\ Nx(b, p.insertpos) = n + 1
      /\ op = "jmp" => e = n + 1
      /\ op = "jcc" => e = n + 2 /\ Nx(b, n + 1) = n + 2
      /\ \A y \in Ids(p) \cup {0} : y # p.insertpos => Nx(b, y) = Nx(p, y)
  BY DivertLead
<1>2. Divert(p, op, NoLabel) = q
  BY DEF Divert, Lead
<1> HIDE DEF b
<1>3. b.code # << >>
  BY <1>1
<1>4. /\ Ring(q) /\ Kept(b, q, 1) /\ q.insertpos = e + 1
      /\ q.code[e + 1] = Insn("label", b.labeli)
      /\ Len(q.code) = e + 1 /\ e \in Nat /\ Ids(q) = Ids(b) \cup {e + 1}
      /\ e + 1 \notin Ids(b) \cup {0}
      /\ \A y \in Ids(b) \cup {0} :
           Nx(q, y) = IF Nx(b, y) = b.insertpos THEN e + 1 ELSE Nx(b, y)
      /\ q.labeli = b.labeli + 1 /\ LabelPos(q, b.labeli) = e + 1
      /\ q.lock_ctrl = FALSE /\ q.lock_cx = b.lock_cx
  BY <1>1, <1>3, LabelBeforeRing
<1> HIDE DEF q, e
<1>5. Extends(b, q) /\ Extends(p, q)
  BY <1>1, <1>4, KeptExtends, ExtendsTrans
<1>6. q.code[n + 1] = Insn(op, p.labeli) /\ q.code[e] = Insn("jmp", p.labeli)
  BY <1>1, <1>5 DEF Extends
<1>7. p.insertpos \in Ids(p) \cup {0} /\ \A y \in Ids(p) \cup {0} : Nx(p, y) \in Ids(p) \cup {0}
  BY RingClosed
<1>8. /\ op = "jmp" => e = n + 1 /\ Nx(q, p.insertpos) = e + 1
      /\ op = "jcc" => e = n + 2 /\ Nx(q, p.insertpos) = n + 1 /\ Nx(q, n + 1) = e + 1
  BY <1>1, <1>4, <1>7
<1>9. ASSUME NEW y \in Ids(p) \cup {0}, y # p.insertpos PROVE Nx(q, y) = Nx(p, y)
  <2>1. Nx(b, y) = Nx(p, y) /\ Nx(p, y) # e
    BY <1>1, <1>7, <1>9
  <2> QED BY <2>1, <1>1, <1>4
<1> QED BY <1>1, <1>2, <1>4, <1>5, <1>6, <1>8, <1>9

\* The program with the frame of a loop block.
LoopOpened(p, op, times, q) ==
  LET n == Len(p.code)
  IN /\ Ring(q) /\ Extends(p, q) /\ q.lock_ctrl = TRUE /\ q.lock_cx = "loop"
     /\ n \in Nat /\ Ids(q) = Ids(p) \cup {n + 1, n + 2, n + 3, n + 4}
     /\ q.insertpos = n + 4
     /\ {n + 1, n + 2, n + 3, n + 4} \cap (Ids(p) \cup {0}) = {}
     /\ q.code[n + 1] = Insn("label", p.labeli) /\ q.code[n + 2] = Insn(op, p.labeli + 1)
     /\ q.code[n + 3] = Insn("movecx", times)
     /\ q.code[n + 4] = Insn("label", p.labeli + 1)
     /\ q.labeli = p.labeli + 2 /\ p.labeli \in Nat
     /\ LabelPos(q, p.labeli) = n + 1 /\ LabelPos(q, p.labeli + 1) = n + 4
     /\ Nx(q, p.insertpos) = n + 3 /\ Nx(q, n + 3) = n + 4 /\ Nx(q, n + 4) = n + 2
     /\ Nx(q, n + 2) = n + 1
     /\ \A y \in Ids(p) \cup {0} : y # p.insertpos => Nx(q, y) = Nx(p, y)

\* A loop block: mov ecx, the label of the body, the loop and the label behind it.
LEMMA OpenLoopRing ==
  ASSUME NEW p, Ring(p), p.lock_ctrl = FALSE, NEW op \in Loops, NEW times \in 0..(CXSize - 1)
  PROVE  LoopOpened(p, op, times, OpenLoop(p, op, times))
<1> DEFINE n == Len(p.code)
           ib == Insn(op, p.labeli + 1)
           ic == Insn("movecx", times)
           a == gen_label(p, "after")
           b == stat_insert_insn(a, ib, "before")
           c == stat_insert_insn(b, ic, "before")
           d == gen_label(c, "after")
           e == [d EXCEPT !.lock_ctrl = TRUE]
           q == [e EXCEPT !.lock_cx = "loop"]
<1>0. /\ p.labeli \in Nat /\ n \in Nat /\ p.insertpos \in Ids(p) \cup {0} /\ 0 \notin Ids(p)
      /\ \A y \in Ids(p) \cup {0} : Nx(p, y) \in Ids(p) \cup {0}
  BY RingClosed DEF Ring, Sound, Shape, PGState
<1>1. ib \in PlainInsns /\ ic \in PlainInsns
  <2>1. CXSize \in Nat /\ times \in Int /\ p.labeli + 1 \in Int
    BY <1>0, ConstantsAssumption
  <2>2. ib \in PlainInsns
    BY <2>1, TransferInsn DEF Transfers
  <2>3. ic \in PlainInsns
    BY <2>1 DEF Insn, PlainInsns, Insns, Ops, Transfers, Jumps, Loops
  <2> QED BY <2>2, <2>3
<1>2. /\ Ring(a) /\ Kept(p, a, 1) /\ a.insertpos = n + 1
      /\ a.code[n + 1] = Insn("label", p.labeli)
      /\ Len(a.code) = n + 1 /\ Ids(a) = Ids(p) \cup {n + 1} /\ n + 1 \notin Ids(p) \cup {0}
      /\ Nx(a, p.insertpos) = n + 1 /\ Nx(a, n + 1) = Nx(p, p.insertpos)
      /\ \A y \in Ids(p) \cup {0} : y # p.insertpos => Nx(a, y) = Nx(p, y)
      /\ a.labeli = p.labeli + 1 /\ LabelPos(a, p.labeli) = n + 1
      /\ a.lock_ctrl = FALSE
  BY LabelAfterRing
<1> HIDE DEF a, ib, ic
<1>3. a.code # << >> /\ (n + 1) + 1 = n + 2
  BY <1>0, <1>2
<1>4. /\ Ring(b) /\ Kept(a, b, 1) /\ b.insertpos = n + 2 /\ b.code[n + 2] = ib
      /\ Len(b.code) = n + 2 /\ Ids(b) = Ids(a) \cup {n + 2} /\ n + 2 \notin Ids(a) \cup {0}
      /\ Nx(b, n + 2) = n + 1
      /\ \A y \in Ids(a) \cup {0} : Nx(b, y) = IF Nx(a, y) = n + 1 THEN n + 2 ELSE Nx(a, y)
      /\ b.labeli = p.labeli + 1 /\ b.lock_ctrl = FALSE
  <2> HIDE DEF n
  <2> QED BY <1>1, <1>2, <1>3, PutBeforeRing
<1> HIDE DEF b
<1>5. b.code # << >> /\ (n + 2) + 1 = n + 3
  BY <1>0, <1>4
<1>6. /\ Ring(c) /\ Kept(b, c, 1) /\ c.insertpos = n + 3 /\ c.code[n + 3] = ic
      /\ Len(c.code) = n + 3 /\ Ids(c) = Ids(b) \cup {n + 3} /\ n + 3 \notin Ids(b) \cup {0}
      /\ Nx(c, n + 3) = n + 2
      /\ \A y \in Ids(b) \cup {0} : Nx(c, y) = IF Nx(b, y) = n + 2 THEN n + 3 ELSE Nx(b, y)
      /\ c.labeli = p.labeli + 1 /\ c.lock_ctrl = FALSE
  <2> HIDE DEF n
  <2> QED BY <1>1, <1>4, <1>5, PutBeforeRing
<1> HIDE DEF c
<1>7. (n + 3) + 1 = n + 4 /\ (p.labeli + 1) + 1 = p.labeli + 2
  BY <1>0
<1>8. /\ Ring(d) /\ Kept(c, d, 1) /\ d.insertpos = n + 4
      /\ d.code[n + 4] = Insn("label", p.labeli + 1)
      /\ Len(d.code) = n + 4 /\ Ids(d) = Ids(c) \cup {n + 4} /\ n + 4 \notin Ids(c) \cup {0}
      /\ Nx(d, n + 3) = n + 4 /\ Nx(d, n + 4) = n + 2
      /\ \A y \in Ids(c) \cup {0} : y # n + 3 => Nx(d, y) = Nx(c, y)
      /\ d.labeli = p.labeli + 2 /\ LabelPos(d, p.labeli + 1) = n + 4
  <2> HIDE DEF n
  <2> QED BY <1>6, <1>7, LabelAfterRing, ZenonT(30)
<1> HIDE DEF d
<1>9. /\ Ring(e) /\ SameRing(d, e) /\ e.insertpos = n + 4 /\ e.lock_ctrl = TRUE
  BY <1>8, LockRing
<1> HIDE DEF e
<1>10. /\ Ring(q) /\ SameRing(e, q) /\ q.insertpos = n + 4 /\ q.lock_ctrl = TRUE /\ q.lock_cx = "loop"
  BY <1>9, LockRing
<1>11. q = OpenLoop(p, op, times)
  <2>1. ib = Insn(op, a.labeli)
    BY <1>2 DEF ib
  <2> QED BY <2>1, Zenon DEF OpenLoop, a, b, c, d, e, q, ic
<1> HIDE DEF q
<1>12. /\ Extends(p, a) /\ Extends(a, b) /\ Extends(b, c) /\ Extends(c, d) /\ Extends(d, q)
  <2>1. Kept(d, q, 0)
    <3>1. SameRing(d, q)
      BY <1>9, <1>10 DEF SameRing
    <3> QED BY <3>1, <1>8, KeptSame
  <2> QED BY <2>1, <1>2, <1>4, <1>6, <1>8, KeptExtends
<1>13. Extends(c, q) /\ Extends(b, q) /\ Extends(a, q) /\ Extends(p, q)
  BY <1>12, ExtendsTrans
<1>14. /\ q.code[n + 1] = Insn("label", p.labeli) /\ q.code[n + 2] = ib
       /\ q.code[n + 3] = ic /\ q.code[n + 4] = Insn("label", p.labeli + 1)
       /\ LabelPos(q, p.labeli) = n + 1 /\ LabelPos(q, p.labeli + 1) = n + 4
       /\ q.labeli = p.labeli + 2
  <2>1. p.labeli \in 0..(a.labeli - 1) /\ p.labeli + 1 \in 0..(d.labeli - 1)
    BY <1>0, <1>2, <1>8, SMTT(30)
  <2>2. q.labeli = d.labeli
    BY <1>9, <1>10 DEF SameRing
  <2> QED BY <2>1, <2>2, <1>2, <1>4, <1>6, <1>8, <1>12, <1>13 DEF Extends
<1>15. Ids(q) = Ids(d) /\ \A y : Nx(q, y) = Nx(d, y)
  BY <1>9, <1>10 DEF SameRing, Ids, Nx
<1>16. /\ Nx(q, p.insertpos) = n + 3 /\ Nx(q, n + 3) = n + 4 /\ Nx(q, n + 4) = n + 2
       /\ Nx(q, n + 2) = n + 1
  <2>1. /\ n + 1 \in Ids(a) /\ n + 2 \in Ids(b) /\ n + 2 \in Ids(c) /\ n + 1 # n + 2 /\ n + 2 # n + 3
        /\ p.insertpos \in Ids(a) \cup {0} /\ p.insertpos \in Ids(b) \cup {0}
        /\ p.insertpos \in Ids(c) \cup {0} /\ p.insertpos # n + 3
    BY <1>0, <1>2, <1>4, <1>6
  <2> HIDE DEF n
  <2> QED BY <2>1, <1>2, <1>4, <1>6, <1>8, <1>15
<1>17. ASSUME NEW y \in Ids(p) \cup {0}, y # p.insertpos PROVE Nx(q, y) = Nx(p, y)
  <2>1. y \in Ids(a) \cup {0} /\ y \in Ids(b) \cup {0} /\ y \in Ids(c) \cup {0} /\ y # n + 3
    BY <1>2, <1>4, <1>6
  <2>2. Nx(p, y) \in Ids(p) \cup {0}
    BY <1>0
  <2>3. Nx(a, y) = Nx(p, y) /\ Nx(p, y) # n + 1 /\ Nx(p, y) # n + 2
    BY <2>2, <1>2, <1>4, <1>17
  <2> HIDE DEF n
  <2> QED BY <2>1, <2>3, <1>4, <1>6, <1>8, <1>15
<1>18. /\ Ids(q) = Ids(p) \cup {n + 1, n + 2, n + 3, n + 4}
       /\ {n + 1, n + 2, n + 3, n + 4} \cap (Ids(p) \cup {0}) = {}
  BY <1>2, <1>4, <1>6, <1>8, <1>15
<1>40. LoopOpened(p, op, times, q)
  BY <1>0, <1>10, <1>11, <1>13, <1>14, <1>16, <1>17, <1>18 DEF LoopOpened, ib, ic
<1> QED BY <1>40, <1>11

\* The program with the frame of a call block.
CallOpened(p, q) ==
  LET n == Len(p.code)
  IN /\ Ring(q) /\ Extends(p, q) /\ q.lock_ctrl = TRUE /\ q.lock_cx = p.lock_cx
     /\ n \in Nat /\ Ids(q) = Ids(p) \cup {n + 1, n + 2, n + 3, n + 4, n + 5, n + 6}
     /\ q.insertpos = n + 2
     /\ {n + 1, n + 2, n + 3, n + 4, n + 5, n + 6} \cap (Ids(p) \cup {0}) = {}
     /\ q.code[n + 1] = Insn("jmp", p.labeli + 1) /\ q.code[n + 2] = Insn("label", p.labeli)
     /\ q.code[n + 3] = Insn("ret", 0) /\ q.code[n + 4] = Insn("label", p.labeli + 1)
     /\ q.code[n + 5] = Insn("call", p.labeli) /\ q.code[n + 6] = Insn("label", p.labeli + 2)
     /\ q.labeli = p.labeli + 3 /\ p.labeli \in Nat
     /\ LabelPos(q, p.labeli) = n + 2 /\ LabelPos(q, p.labeli + 1) = n + 4
     /\ LabelPos(q, p.labeli + 2) = n + 6
     /\ Nx(q, p.insertpos) = n + 1 /\ Nx(q, n + 1) = n + 2 /\ Nx(q, n + 2) = n + 3
     /\ Nx(q, n + 3) = n + 4 /\ Nx(q, n + 4) = n + 5 /\ Nx(q, n + 5) = n + 6
     /\ \A y \in Ids(p) \cup {0} : y # p.insertpos => Nx(q, y) = Nx(p, y)

\* A call block: the jmp around the body, the body's label and ret, the call of it.
LEMMA OpenCallRing ==
  ASSUME NEW p, Ring(p), p.lock_ctrl = FALSE
  PROVE  CallOpened(p, OpenCall(p))
<1> DEFINE n == Len(p.code)
           ia == Insn("jmp", p.labeli + 1)
           ic == Insn("ret", 0)
           ie == Insn("call", p.labeli)
           a == stat_insert_insn(p, ia, "after")
           b == gen_label(a, "after")
           c == stat_insert_insn(b, ic, "after")
           d == gen_label(c, "after")
           e == stat_insert_insn(d, ie, "after")
           f == gen_label(e, "after")
           g == update_insert_pos_to_label(f, p.labeli)
           q == [g EXCEPT !.lock_ctrl = TRUE]
<1>0. /\ p.labeli \in Nat /\ n \in Nat /\ p.insertpos \in Ids(p) \cup {0} /\ 0 \notin Ids(p)
      /\ \A y \in Ids(p) \cup {0} : Nx(p, y) \in Ids(p) \cup {0}
  BY RingClosed DEF Ring, Sound, Shape, PGState
<1>1. ia \in PlainInsns /\ ic \in PlainInsns /\ ie \in PlainInsns
  <2>1. p.labeli + 1 \in Int /\ p.labeli \in Int /\ 0 \in Int
    BY <1>0
  <2> QED BY <2>1, TransferInsn DEF Transfers, Jumps
<1>2. /\ Ring(a) /\ Kept(p, a, 1) /\ a.insertpos = n + 1 /\ a.code[n + 1] = ia
      /\ Len(a.code) = n + 1 /\ Ids(a) = Ids(p) \cup {n + 1} /\ n + 1 \notin Ids(p) \cup {0}
      /\ Nx(a, p.insertpos) = n + 1
      /\ \A y \in Ids(p) \cup {0} : y # p.insertpos => Nx(a, y) = Nx(p, y)
      /\ a.labeli = p.labeli /\ a.lock_ctrl = FALSE /\ a.lock_cx = p.lock_cx
  <2> HIDE DEF ia
  <2> QED BY <1>1, PutAfterRing
<1> HIDE DEF a, ia, ic, ie
<1>31. (n + 1) + 1 = n + 2
  BY <1>0
<1>32. (n + 2) + 1 = n + 3
  BY <1>0
<1>33. (n + 3) + 1 = n + 4 /\ (p.labeli + 1) + 1 = p.labeli + 2
  BY <1>0
<1>34. (n + 4) + 1 = n + 5
  BY <1>0
<1>35. (n + 5) + 1 = n + 6 /\ (p.labeli + 2) + 1 = p.labeli + 3
  BY <1>0
<1>4. /\ Ring(b) /\ Kept(a, b, 1) /\ b.insertpos = n + 2
      /\ b.code[n + 2] = Insn("label", p.labeli)
      /\ Len(b.code) = n + 2 /\ Ids(b) = Ids(a) \cup {n + 2} /\ n + 2 \notin Ids(a) \cup {0}
      /\ Nx(b, n + 1) = n + 2
      /\ \A y \in Ids(a) \cup {0} : y # n + 1 => Nx(b, y) = Nx(a, y)
      /\ b.labeli = p.labeli + 1 /\ LabelPos(b, p.labeli) = n + 2
      /\ b.lock_ctrl = FALSE /\ b.lock_cx = p.lock_cx
  <2> HIDE DEF n
  <2> QED BY <1>2, <1>31, LabelAfterRing
<1> HIDE DEF b
<1>5. /\ Ring(c) /\ Kept(b, c, 1) /\ c.insertpos = n + 3 /\ c.code[n + 3] = ic
      /\ Len(c.code) = n + 3 /\ Ids(c) = Ids(b) \cup {n + 3} /\ n + 3 \notin Ids(b) \cup {0}
      /\ Nx(c, n + 2) = n + 3
      /\ \A y \in Ids(b) \cup {0} : y # n + 2 => Nx(c, y) = Nx(b, y)
      /\ c.labeli = p.labeli + 1 /\ c.lock_ctrl = FALSE /\ c.lock_cx = p.lock_cx
  <2> HIDE DEF n
  <2>1. ic \in PlainInsns
    BY <1>1
  <2>2. Ring(b) /\ b.insertpos = n + 2 /\ Len(b.code) + 1 = n + 3
    BY <1>32, <1>4
  <2>3. /\ Ring(c) /\ Kept(b, c, 1) /\ c.insertpos = Len(b.code) + 1
        /\ c.code[Len(b.code) + 1] = ic /\ Len(c.code) = Len(b.code) + 1
        /\ Ids(c) = Ids(b) \cup {Len(b.code) + 1} /\ Len(b.code) + 1 \notin Ids(b) \cup {0}
        /\ Nx(c, b.insertpos) = Len(b.code) + 1
        /\ \A y \in Ids(b) \cup {0} : y # b.insertpos => Nx(c, y) = Nx(b, y)
        /\ c.labeli = b.labeli /\ c.lock_ctrl = b.lock_ctrl /\ c.lock_cx = b.lock_cx
    <3> HIDE DEF c
    <3> QED BY <2>1, <2>2, PutAfterRing DEF c
  <2> HIDE DEF c
  <2> QED BY <2>2, <2>3, <1>4, Zenon
<1> HIDE DEF c
<1>6. /\ Ring(d) /\ Kept(c, d, 1) /\ d.insertpos = n + 4
      /\ d.code[n + 4] = Insn("label", p.labeli + 1)
      /\ Len(d.code) = n + 4 /\ Ids(d) = Ids(c) \cup {n + 4} /\ n + 4 \notin Ids(c) \cup {0}
      /\ Nx(d, n + 3) = n + 4
      /\ \A y \in Ids(c) \cup {0} : y # n + 3 => Nx(d, y) = Nx(c, y)
      /\ d.labeli = p.labeli + 2 /\ LabelPos(d, p.labeli + 1) = n + 4
      /\ d.lock_ctrl = FALSE /\ d.lock_cx = p.lock_cx
  <2> HIDE DEF n
  <2> QED BY <1>33, <1>5, LabelAfterRing, ZenonT(30)
<1> HIDE DEF d
<1>7. /\ Ring(e) /\ Kept(d, e, 1) /\ e.insertpos = n + 5 /\ e.code[n + 5] = ie
      /\ Len(e.code) = n + 5 /\ Ids(e) = Ids(d) \cup {n + 5} /\ n + 5 \notin Ids(d) \cup {0}
      /\ Nx(e, n + 4) = n + 5
      /\ \A y \in Ids(d) \cup {0} : y # n + 4 => Nx(e, y) = Nx(d, y)
      /\ e.labeli = p.labeli + 2 /\ e.lock_ctrl = FALSE /\ e.lock_cx = p.lock_cx
  <2> HIDE DEF n
  <2>1. ie \in PlainInsns
    BY <1>1
  <2>2. Ring(d) /\ d.insertpos = n + 4 /\ Len(d.code) + 1 = n + 5
    BY <1>34, <1>6
  <2>3. /\ Ring(e) /\ Kept(d, e, 1) /\ e.insertpos = Len(d.code) + 1
        /\ e.code[Len(d.code) + 1] = ie /\ Len(e.code) = Len(d.code) + 1
        /\ Ids(e) = Ids(d) \cup {Len(d.code) + 1} /\ Len(d.code) + 1 \notin Ids(d) \cup {0}
        /\ Nx(e, d.insertpos) = Len(d.code) + 1
        /\ \A y \in Ids(d) \cup {0} : y # d.insertpos => Nx(e, y) = Nx(d, y)
        /\ e.labeli = d.labeli /\ e.lock_ctrl = d.lock_ctrl /\ e.lock_cx = d.lock_cx
    <3> HIDE DEF e
    <3> QED BY <2>1, <2>2, PutAfterRing DEF e
  <2> HIDE DEF e
  <2> QED BY <2>2, <2>3, <1>6, Zenon
<1> HIDE DEF e
<1>8. /\ Ring(f) /\ Kept(e, f, 1) /\ f.insertpos = n + 6
      /\ f.code[n + 6] = Insn("label", p.labeli + 2)
      /\ Len(f.code) = n + 6 /\ Ids(f) = Ids(e) \cup {n + 6} /\ n + 6 \notin Ids(e) \cup {0}
      /\ Nx(f, n + 5) = n + 6
      /\ \A y \in Ids(e) \cup {0} : y # n + 5 => Nx(f, y) = Nx(e, y)
      /\ f.labeli = p.labeli + 3 /\ LabelPos(f, p.labeli + 2) = n + 6
      /\ f.lock_ctrl = FALSE /\ f.lock_cx = p.lock_cx
  <2> HIDE DEF n
  <2> QED BY <1>35, <1>7, LabelAfterRing, ZenonT(30)
<1> HIDE DEF f
<1>9. /\ Extends(b, f) /\ Extends(p, f) /\ Extends(a, f) /\ Extends(c, f) /\ Extends(d, f)
      /\ Extends(e, f)
  <2>1. /\ Extends(p, a) /\ Extends(a, b) /\ Extends(b, c) /\ Extends(c, d) /\ Extends(d, e)
        /\ Extends(e, f)
    BY <1>2, <1>4, <1>5, <1>6, <1>7, <1>8, KeptExtends
  <2> QED BY <2>1, ExtendsTrans
<1>10. p.labeli \in 0..(f.labeli - 1) /\ LabelPos(f, p.labeli) = n + 2
       /\ LabelPos(f, p.labeli + 1) = n + 4
  <2>1. p.labeli \in 0..(b.labeli - 1) /\ p.labeli + 1 \in 0..(d.labeli - 1)
        /\ p.labeli \in 0..(f.labeli - 1)
    <3>1. /\ p.labeli \in Nat /\ b.labeli = p.labeli + 1 /\ d.labeli = p.labeli + 2
          /\ f.labeli = p.labeli + 3
      BY <1>0, <1>4, <1>6, <1>8
    <3>2. \A k \in Nat : /\ k \in 0..((k + 1) - 1) /\ k + 1 \in 0..((k + 2) - 1)
                         /\ k \in 0..((k + 3) - 1)
      OBVIOUS
    <3> HIDE DEF n
    <3> QED BY <3>1, <3>2
  <2> QED BY <2>1, <1>4, <1>6, <1>9 DEF Extends
<1>11. /\ Ring(g) /\ SameRing(f, g) /\ g.insertpos = n + 2
       /\ g.lock_ctrl = f.lock_ctrl /\ g.lock_cx = f.lock_cx
  BY <1>8, <1>10, MoveRing DEF Ring, Sound
<1> HIDE DEF g
<1>12. /\ Ring(q) /\ SameRing(g, q) /\ q.insertpos = n + 2 /\ q.lock_ctrl = TRUE
       /\ q.lock_cx = p.lock_cx
  <2>1. /\ Ring(q) /\ SameRing(g, q) /\ q.insertpos = g.insertpos /\ q.lock_ctrl = TRUE
        /\ q.lock_cx = g.lock_cx
    BY <1>11, LockRing
  <2> QED BY <2>1, <1>8, <1>11
<1>13. q = OpenCall(p)
  BY Zenon DEF OpenCall, a, b, c, d, e, f, g, q, ia, ic, ie
<1> HIDE DEF q
<1>14. /\ q.code = f.code /\ q.labeli = f.labeli /\ q.labelspos = f.labelspos
       /\ Ids(q) = Ids(f) /\ \A y : Nx(q, y) = Nx(f, y)
  BY <1>11, <1>12 DEF SameRing, Ids, Nx
<1>15. Extends(p, q)
  BY <1>9, <1>14 DEF Extends, LabelPos
<1>16. /\ q.code[n + 1] = ia /\ q.code[n + 2] = Insn("label", p.labeli)
       /\ q.code[n + 3] = ic /\ q.code[n + 4] = Insn("label", p.labeli + 1)
       /\ q.code[n + 5] = ie /\ q.code[n + 6] = Insn("label", p.labeli + 2)
  <2>1. /\ n + 1 \in Ids(a) /\ n + 2 \in Ids(b) /\ n + 3 \in Ids(c) /\ n + 4 \in Ids(d)
        /\ n + 5 \in Ids(e)
    BY <1>2, <1>4, <1>5, <1>6, <1>7
  <2>2. f.code[n + 1] = ia /\ f.code[n + 2] = Insn("label", p.labeli)
    BY <2>1, <1>2, <1>4, <1>9 DEF Extends
  <2>3. f.code[n + 3] = ic /\ f.code[n + 4] = Insn("label", p.labeli + 1)
    BY <2>1, <1>5, <1>6, <1>9 DEF Extends
  <2>4. f.code[n + 5] = ie
    BY <2>1, <1>7, <1>9 DEF Extends
  <2> QED BY <2>2, <2>3, <2>4, <1>8, <1>14
<1>17. /\ LabelPos(q, p.labeli) = n + 2 /\ LabelPos(q, p.labeli + 1) = n + 4
       /\ LabelPos(q, p.labeli + 2) = n + 6 /\ q.labeli = p.labeli + 3
  BY <1>8, <1>10, <1>14 DEF LabelPos
<1>18. /\ n + 1 \in Ids(a) /\ n + 1 \in Ids(b) /\ n + 1 \in Ids(c) /\ n + 1 \in Ids(d) /\ n + 1 \in Ids(e)
       /\ n + 2 \in Ids(b) /\ n + 2 \in Ids(c) /\ n + 2 \in Ids(d) /\ n + 2 \in Ids(e)
       /\ n + 3 \in Ids(c) /\ n + 3 \in Ids(d) /\ n + 3 \in Ids(e)
       /\ n + 4 \in Ids(d) /\ n + 4 \in Ids(e) /\ n + 5 \in Ids(e)
       /\ n + 1 # n + 2 /\ n + 1 # n + 3 /\ n + 1 # n + 4 /\ n + 1 # n + 5
       /\ n + 2 # n + 3 /\ n + 2 # n + 4 /\ n + 2 # n + 5 /\ n + 3 # n + 4 /\ n + 3 # n + 5
       /\ n + 4 # n + 5
  BY <1>0, <1>2, <1>4, <1>5, <1>6, <1>7
<1>19. \A y \in Ids(p) \cup {0} :
         /\ y \in Ids(a) \cup {0} /\ y \in Ids(b) \cup {0} /\ y \in Ids(c) \cup {0}
         /\ y \in Ids(d) \cup {0} /\ y \in Ids(e) \cup {0}
         /\ y # n + 1 /\ y # n + 2 /\ y # n + 3 /\ y # n + 4 /\ y # n + 5
  BY <1>2, <1>4, <1>5, <1>6, <1>7
<1>20. /\ Nx(q, n + 1) = n + 2 /\ Nx(q, n + 2) = n + 3 /\ Nx(q, n + 3) = n + 4
       /\ Nx(q, n + 4) = n + 5 /\ Nx(q, n + 5) = n + 6
  <2> HIDE DEF n
  <2> QED BY <1>4, <1>5, <1>6, <1>7, <1>8, <1>14, <1>18
<1>21. \A y \in Ids(p) \cup {0} : Nx(q, y) = Nx(a, y)
  <2> HIDE DEF n
  <2> QED BY <1>4, <1>5, <1>6, <1>7, <1>8, <1>14, <1>19
<1>22. /\ Nx(q, p.insertpos) = n + 1
       /\ \A y \in Ids(p) \cup {0} : y # p.insertpos => Nx(q, y) = Nx(p, y)
  BY <1>0, <1>2, <1>21
<1>23. /\ Ids(q) = Ids(p) \cup {n + 1, n + 2, n + 3, n + 4, n + 5, n + 6}
       /\ {n + 1, n + 2, n + 3, n + 4, n + 5, n + 6} \cap (Ids(p) \cup {0}) = {}
  BY <1>2, <1>4, <1>5, <1>6, <1>7, <1>8, <1>14
<1>40. CallOpened(p, q)
  BY <1>0, <1>12, <1>13, <1>15, <1>16, <1>17, <1>20, <1>22, <1>23 DEF CallOpened, ia, ic, ie
<1> QED BY <1>40, <1>13

\* The finished program.
Finished(p, q) ==
  LET n == Len(p.code)
  IN /\ Ring(q) /\ Extends(p, q) /\ n \in Nat /\ Len(q.code) = n + 2
     /\ Ids(q) = Ids(p) \cup {n + 1, n + 2} /\ {n + 1, n + 2} \cap (Ids(p) \cup {0}) = {}
     /\ q.code[n + 1] = Insn("jmp", p.labeli) /\ q.code[n + 2] = Insn("label", p.labeli)
     /\ q.labeli = p.labeli + 1 /\ p.labeli \in Nat /\ LabelPos(q, p.labeli) = n + 2
     /\ Nx(q, p.insertpos) = n + 1 /\ Nx(q, n + 2) = 0
     /\ \A y \in Ids(p) \cup {0} : y # p.insertpos =>
          Nx(q, y) = IF Nx(p, y) = 0 THEN n + 2 ELSE Nx(p, y)

\* The end of the program: a jmp from where the walk is to a label behind everything.
LEMMA FinishRing ==
  ASSUME NEW p, Ring(p), p.lock_ctrl = FALSE
  PROVE  Finished(p, gen_control_transfer_finish(p))
<1> DEFINE n == Len(p.code)
           ia == Insn("jmp", p.labeli)
           a == stat_insert_insn(p, ia, "after")
           q == gen_label(a, "tail")
<1>0. /\ p.labeli \in Nat /\ n \in Nat /\ p.insertpos \in Ids(p) \cup {0}
  BY RingClosed DEF Ring, Sound, Shape, PGState
<1>1. ia \in PlainInsns
  BY <1>0, TransferInsn DEF Transfers, Jumps
<1>2. /\ Ring(a) /\ Kept(p, a, 1) /\ a.insertpos = n + 1 /\ a.code[n + 1] = ia
      /\ Len(a.code) = n + 1 /\ Ids(a) = Ids(p) \cup {n + 1} /\ n + 1 \notin Ids(p) \cup {0}
      /\ Nx(a, p.insertpos) = n + 1
      /\ \A y \in Ids(p) \cup {0} : y # p.insertpos => Nx(a, y) = Nx(p, y)
      /\ a.labeli = p.labeli /\ a.lock_ctrl = FALSE
  <2> HIDE DEF ia
  <2> QED BY <1>1, PutAfterRing
<1> HIDE DEF a
<1>3. gen_control_transfer_finish(p) = q
  BY DEF gen_control_transfer_finish, a
<1>4. Ring(q) /\ Put(a, q, Insn("label", p.labeli)) /\ Links(a, q, "tail") /\ NewLabel(a, q)
  BY <1>2, LabelRing DEF Places
<1> HIDE DEF q, ia
<1>5. (n + 1) + 1 = n + 2
  BY <1>0
<1>6. Kept(a, q, 1)
  BY <1>0, <1>2, <1>4, KeptBy
<1>7. Extends(p, a) /\ Extends(a, q) /\ Extends(p, q)
  BY <1>2, <1>4, <1>6, KeptExtends, ExtendsTrans
<1>8. /\ Len(q.code) = n + 2 /\ q.insertpos = n + 2 /\ Ids(q) = Ids(a) \cup {n + 2}
      /\ n + 2 \notin Ids(a) \cup {0} /\ q.code[n + 2] = Insn("label", p.labeli)
      /\ q.labeli = p.labeli + 1 /\ LabelPos(q, p.labeli) = n + 2
  BY <1>2, <1>4, <1>5 DEF Put, NewLabel
<1>9. q.code[n + 1] = ia
  BY <1>2, <1>7 DEF Extends
<1>10. /\ Nx(q, n + 2) = 0
       /\ \A y \in Ids(a) \cup {0} : Nx(q, y) = IF Nx(a, y) = 0 THEN n + 2 ELSE Nx(a, y)
  BY <1>4, <1>8 DEF Links, Behind
<1>11. Nx(q, p.insertpos) = n + 1
  BY <1>0, <1>2, <1>10
<1>12. \A y \in Ids(p) \cup {0} : y # p.insertpos =>
         Nx(q, y) = IF Nx(p, y) = 0 THEN n + 2 ELSE Nx(p, y)
  BY <1>2, <1>10
<1>13. Ids(q) = Ids(p) \cup {n + 1, n + 2} /\ {n + 1, n + 2} \cap (Ids(p) \cup {0}) = {}
  BY <1>2, <1>8
<1>40. Finished(p, q)
  BY <1>0, <1>3, <1>4, <1>7, <1>8, <1>9, <1>10, <1>11, <1>12, <1>13 DEF Finished, ia
<1> QED BY <1>40, <1>3

-----------------------------------------------------------------------------
(* Marks for the new instructions of a step.                                *)

\* Marks can be given to all new instructions at once.
LEMMA NewMarks ==
  ASSUME NEW m \in Marks, NEW n \in Nat,
         NEW A \in [Nat -> Nat], NEW C \in [Nat -> Nat], NEW L \in [Nat -> Nat]
  PROVE  \E m2 \in Marks :
           /\ \A y \in 0..n : m2.at[y] = m.at[y] /\ m2.call[y] = m.call[y] /\ m2.loop[y] = m.loop[y]
           /\ \A y \in Nat : y > n => Is(m2, y, A[y], C[y], L[y])
<1> DEFINE at == [y \in Nat |-> IF y > n THEN A[y] ELSE m.at[y]]
           call == [y \in Nat |-> IF y > n THEN C[y] ELSE m.call[y]]
           loop == [y \in Nat |-> IF y > n THEN L[y] ELSE m.loop[y]]
<1>0. m.at \in [Nat -> Nat] /\ m.call \in [Nat -> Nat] /\ m.loop \in [Nat -> Nat]
  BY DEF Marks
<1>1. at \in [Nat -> Nat] /\ call \in [Nat -> Nat] /\ loop \in [Nat -> Nat]
  BY <1>0
<1>2. \A y \in 0..n : at[y] = m.at[y] /\ call[y] = m.call[y] /\ loop[y] = m.loop[y]
  OBVIOUS
<1>3. \A y \in Nat : y > n => at[y] = A[y] /\ call[y] = C[y] /\ loop[y] = L[y]
  OBVIOUS
<1> HIDE DEF at, call, loop
<1> DEFINE m2 == [at |-> at, call |-> call, loop |-> loop]
<1>4. m2 \in Marks /\ m2.at = at /\ m2.call = call /\ m2.loop = loop
  BY <1>1 DEF Marks
<1> HIDE DEF m2
<1> QED BY <1>2, <1>3, <1>4 DEF Is

\* Marks of new instructions that all come before the same serial number.
LEMMA PlainMarks ==
  ASSUME NEW p, NEW m \in Marks, Len(p.code) \in Nat, NEW a \in Nat
  PROVE  \E m2 \in Marks : /\ Agree(p, m, m2)
                           /\ \A y \in Nat : y > Len(p.code) => Is(m2, y, a, 0, 0)
<1> DEFINE n == Len(p.code)
           A == [y \in Nat |-> a]
           Z == [y \in Nat |-> 0]
<1>1. A \in [Nat -> Nat] /\ Z \in [Nat -> Nat] /\ \A y \in Nat : A[y] = a /\ Z[y] = 0
  OBVIOUS
<1> HIDE DEF A, Z
<1>2. PICK m2 \in Marks :
        /\ \A y \in 0..n : m2.at[y] = m.at[y] /\ m2.call[y] = m.call[y] /\ m2.loop[y] = m.loop[y]
        /\ \A y \in Nat : y > n => Is(m2, y, A[y], Z[y], Z[y])
  BY <1>1, NewMarks
<1>3. Agree(p, m, m2)
  <2>1. \A id \in Ids(p) : id \in 0..n
    BY DEF Ids
  <2> QED BY <2>1, <1>2 DEF Agree
<1>4. \A y \in Nat : y > n => Is(m2, y, a, 0, 0)
  BY <1>1, <1>2
<1> QED BY <1>3, <1>4

\* What is known stays known with other marks, ...
LEMMA KnownSame ==
  ASSUME NEW m, NEW m2 \in Marks, NEW h, NEW bs, Known(m, h, bs)
  PROVE  Known(m2, h, bs) /\ LongerHome(h, h) /\ LongerBlocks(bs, bs)
BY DEF Known, LongerHome, LongerBlocks

\* ... with another instruction, ...
LEMMA KnownLonger ==
  ASSUME NEW m, NEW m2 \in Marks, NEW h, NEW bs, Known(m, h, bs), NEW b \in 0..Len(bs)
  PROVE  LET g == Append(h, b)
         IN /\ Known(m2, g, bs) /\ Len(g) = Len(h) + 1 /\ g[Len(h) + 1] = b
            /\ \A k \in 1..Len(h) : g[k] = h[k]
            /\ b = 0 => LongerHome(h, g)
<1> DEFINE g == Append(h, b)
<1>0. /\ h \in Seq(Nat) /\ bs \in Seq(BlockRec) /\ Len(h) \in Nat /\ Len(bs) \in Nat
      /\ \A k \in 1..Len(h) : h[k] \in 0..Len(bs)
      /\ \A k \in 1..Len(bs) : bs[k] \in BlockRec
      /\ b \in Nat
  BY DEF Known
<1>1. /\ g \in Seq(Nat) /\ Len(g) = Len(h) + 1 /\ g[Len(h) + 1] = b
      /\ \A k \in 1..Len(h) : g[k] = h[k]
  BY <1>0, AppendProperties
<1> HIDE DEF g
<1>2. ASSUME NEW k \in 1..Len(g) PROVE g[k] \in 0..Len(bs) /\ (k > Len(h) => g[k] = b)
  <2>1. CASE k \in 1..Len(h)
    <3>1. g[k] \in 0..Len(bs)
      BY <2>1, <1>0, <1>1
    <3>2. ~(k > Len(h))
      BY <2>1, <1>0
    <3> QED BY <3>1, <3>2
  <2>2. CASE k \notin 1..Len(h)
    <3>1. k = Len(h) + 1
      BY <2>2, <1>0, <1>1
    <3> QED BY <3>1, <1>1
  <2> QED BY <2>1, <2>2
<1>3. Known(m2, g, bs)
  <2>1. Len(g) \in Nat
    BY <1>0, <1>1
  <2> QED BY <2>1, <1>0, <1>1, <1>2 DEF Known
<1>4. b = 0 => LongerHome(h, g)
  BY <1>0, <1>1, <1>2 DEF LongerHome
<1> QED BY <1>1, <1>3, <1>4 DEF g

\* ... and with another block.
LEMMA KnownBlock ==
  ASSUME NEW m, NEW m2 \in Marks, NEW h, NEW bs, Known(m, h, bs), NEW r \in BlockRec
  PROVE  LET g == Append(bs, r)
         IN /\ Known(m2, h, g) /\ Len(g) = Len(bs) + 1
            /\ g[Len(bs) + 1] = r /\ LongerBlocks(bs, g)
<1> DEFINE g == Append(bs, r)
<1>0. /\ h \in Seq(Nat) /\ bs \in Seq(BlockRec) /\ Len(h) \in Nat /\ Len(bs) \in Nat
      /\ \A k \in 1..Len(h) : h[k] \in 0..Len(bs)
      /\ \A k \in 1..Len(bs) : bs[k] \in BlockRec
  BY DEF Known
<1>1. /\ g \in Seq(BlockRec) /\ Len(g) = Len(bs) + 1 /\ g[Len(bs) + 1] = r
      /\ \A k \in 1..Len(bs) : g[k] = bs[k]
  BY <1>0, AppendProperties
<1> HIDE DEF g
<1>2. ASSUME NEW k \in 1..Len(g) PROVE g[k] \in BlockRec
  <2>1. k \in 1..Len(bs) \/ k = Len(bs) + 1
    BY <1>0, <1>1
  <2> QED BY <2>1, <1>0, <1>1
<1>3. \A k \in 1..Len(h) : h[k] \in 0..Len(g)
  BY <1>0, <1>1
<1>4. Known(m2, h, g)
  <2>1. Len(g) \in Nat
    BY <1>0, <1>1
  <2> QED BY <2>1, <1>0, <1>1, <1>2, <1>3 DEF Known
<1>5. LongerBlocks(bs, g)
  BY <1>0, <1>1 DEF LongerBlocks
<1> QED BY <1>1, <1>4, <1>5 DEF g

\* A label is in order wherever its mark is one.
LEMMA LabelLocal ==
  ASSUME NEW p, NEW m, NEW h, NEW bs, NEW id, Op(p, id) = "label",
         m.at[id] \in 1..(Len(h) + 1), m.loop[id] \in 0..Len(bs)
  PROVE  LocalAt(p, m, h, bs, id)
BY DEF LocalAt, RangeAt, WorkAt, LoopAt, CallAt, JumpAt, W, Transfers, Jumps, Loops

\* A jump is in order when its label is marked as it is.
LEMMA JumpLocal ==
  ASSUME NEW p, NEW m, NEW h, NEW bs, NEW id, Op(p, id) \in Jumps,
         m.at[id] \in 1..(Len(h) + 1), m.loop[id] \in 0..Len(bs),
         Arg(p, id) \in 0..(p.labeli - 1), To(p, id) \in Ids(p), Op(p, To(p, id)) = "label",
         Same(m, To(p, id), id)
  PROVE  LocalAt(p, m, h, bs, id)
BY DEF LocalAt, RangeAt, WorkAt, LoopAt, CallAt, JumpAt, W, Transfers, Jumps, Loops

\* A step whose first new instruction comes behind the open one.
LEMMA ExtendOpen ==
  ASSUME NEW p, NEW q, NEW m, NEW m2, NEW h, NEW h2, NEW bs, NEW bs2, NEW o, NEW o2,
         Chain(p, m, h, bs, o), Known(m2, h2, bs2), Extends(p, q), Agree(p, m, m2),
         Redirects(p, q, m2, o), LongerHome(h, h2), LongerBlocks(bs, bs2),
         \A id \in Ids(q) \ Ids(p) : /\ LocalAt(q, m2, h2, bs2, id)
                                     /\ id # o2 => FlowAt(q, m2, h2, bs2, id),
         Nx(q, o) # 0, Is(m2, Nx(q, o), Len(h) + 1, 0, 0),
         o2 # 0, OpenOK(q, m2, h2, o2)
  PROVE  Chain(q, m2, h2, bs2, o2)
<1>1. o # 0 => FlowAt(q, m2, h2, bs2, o)
  <2> SUFFICES ASSUME o # 0 PROVE FlowAt(q, m2, h2, bs2, o)
    OBVIOUS
  <2>1. /\ o \in Ids(p) /\ Op(p, o) \in W \cup {"label", "raw"}
        /\ Op(p, o) \in W => Is(m, o, Len(h), 0, 0)
        /\ Op(p, o) = "label" => Is(m, o, Len(h) + 1, 0, 0)
    BY DEF Chain, OpenOK
  <2>2. Op(q, o) = Op(p, o)
    BY <2>1 DEF Extends, Op
  <2>3. /\ Op(p, o) \in W => Is(m2, o, Len(h), 0, 0)
        /\ Op(p, o) = "label" => Is(m2, o, Len(h) + 1, 0, 0)
    BY <2>1 DEF Agree, Is
  <2> QED BY <2>1, <2>2, <2>3 DEF FlowAt, Fed, Same, Is, W, Loops, Falling
<1>2. o = 0 => Nx(q, 0) # 0 /\ Is(m2, Nx(q, 0), 1, 0, 0)
  BY DEF Chain, OpenOK
<1> QED BY <1>1, <1>2, Extend

-----------------------------------------------------------------------------
(* What the steps outside a block do to the order.                          *)

\* A step outside a block: an order at the position becomes one at the new position.
Grows(p, h, bs, q, h2, bs2) ==
  \A m : Chain(p, m, h, bs, p.insertpos) => \E m2 : Chain(q, m2, h2, bs2, q.insertpos)

\* A label that some later jump may be sent to.
LEMMA ChainLabel ==
  ASSUME NEW p, NEW h, NEW bs, Ring(p), p.lock_ctrl = FALSE
  PROVE  Grows(p, h, bs, gen_label(p, "after"), h, bs)
<1> DEFINE q == gen_label(p, "after")
           n == Len(p.code)
           o == p.insertpos
<1>1. /\ Ring(q) /\ Kept(p, q, 1) /\ q.insertpos = n + 1
      /\ q.code[n + 1] = Insn("label", p.labeli)
      /\ n \in Nat /\ Ids(q) = Ids(p) \cup {n + 1} /\ n + 1 \notin Ids(p) \cup {0}
      /\ Nx(q, o) = n + 1
      /\ \A y \in Ids(p) \cup {0} : y # o => Nx(q, y) = Nx(p, y)
  BY LabelAfterRing
<1> HIDE DEF q
<1> SUFFICES ASSUME NEW m, Chain(p, m, h, bs, o)
             PROVE  \E m2 : Chain(q, m2, h, bs, n + 1)
  BY <1>1 DEF Grows, q
<1>2. m \in Marks /\ Known(m, h, bs) /\ Len(h) \in Nat /\ Len(bs) \in Nat
  BY DEF Chain, Known
<1>3. PICK m2 \in Marks : Agree(p, m, m2) /\ \A y \in Nat : y > n => Is(m2, y, Len(h) + 1, 0, 0)
  <2>1. Len(h) + 1 \in Nat
    BY <1>2
  <2> QED BY <2>1, <1>1, <1>2, PlainMarks
<1>4. Is(m2, n + 1, Len(h) + 1, 0, 0)
  BY <1>1, <1>3
<1>5. Op(q, n + 1) = "label"
  BY <1>1 DEF Op, Insn
<1>6. LocalAt(q, m2, h, bs, n + 1)
  <2>1. m2.at[n + 1] \in 1..(Len(h) + 1) /\ m2.loop[n + 1] \in 0..Len(bs)
    BY <1>2, <1>4 DEF Is
  <2> QED BY <2>1, <1>5, LabelLocal
<1>7. Known(m2, h, bs) /\ LongerHome(h, h) /\ LongerBlocks(bs, bs)
  BY <1>2, KnownSame
<1>8. Redirects(p, q, m2, o)
  BY <1>1 DEF Redirects
<1>9. OpenOK(q, m2, h, n + 1)
  BY <1>1, <1>4, <1>5 DEF OpenOK, W
<1>10. Extends(p, q)
  BY <1>1, KeptExtends
<1> HIDE DEF n
<1>11. \A id \in Ids(q) \ Ids(p) : LocalAt(q, m2, h, bs, id) /\ (id # n + 1 => FlowAt(q, m2, h, bs, id))
  BY <1>1, <1>6
<1>12. Nx(q, o) # 0 /\ Is(m2, Nx(q, o), Len(h) + 1, 0, 0) /\ n + 1 # 0
  BY <1>1, <1>4
<1> QED BY <1>3, <1>7, <1>8, <1>9, <1>10, <1>11, <1>12, ExtendOpen

\* An instruction of the template, or a jump that is left as it is.
LEMMA ChainPlain ==
  ASSUME NEW p, NEW h, NEW bs, Ring(p), NEW insn \in PlainInsns, insn.op \in W \cup {"raw"},
         insn.op \in W => insn.arg = Len(h) + 1
  PROVE  Grows(p, h, bs, stat_insert_insn(p, insn, "after"),
               IF insn.op = "raw" THEN h ELSE Append(h, 0), bs)
<1> DEFINE q == stat_insert_insn(p, insn, "after")
           n == Len(p.code)
           o == p.insertpos
           h2 == IF insn.op = "raw" THEN h ELSE Append(h, 0)
<1>1. /\ Ring(q) /\ Kept(p, q, 1) /\ q.insertpos = n + 1 /\ q.code[n + 1] = insn
      /\ n \in Nat /\ Ids(q) = Ids(p) \cup {n + 1} /\ n + 1 \notin Ids(p) \cup {0}
      /\ Nx(q, o) = n + 1
      /\ \A y \in Ids(p) \cup {0} : y # o => Nx(q, y) = Nx(p, y)
  BY PutAfterRing
<1> HIDE DEF q
<1> SUFFICES ASSUME NEW m, Chain(p, m, h, bs, o)
             PROVE  \E m2 : Chain(q, m2, h2, bs, n + 1)
  BY <1>1 DEF Grows, q
<1>2. m \in Marks /\ Known(m, h, bs) /\ Len(h) \in Nat /\ Len(bs) \in Nat
  BY DEF Chain, Known
<1>3. PICK m2 \in Marks : Agree(p, m, m2) /\ \A y \in Nat : y > n => Is(m2, y, Len(h) + 1, 0, 0)
  <2>1. Len(h) + 1 \in Nat
    BY <1>2
  <2> QED BY <2>1, <1>1, <1>2, PlainMarks
<1>4. Is(m2, n + 1, Len(h) + 1, 0, 0)
  BY <1>1, <1>3
<1>5. Op(q, n + 1) = insn.op /\ Arg(q, n + 1) = insn.arg
  BY <1>1 DEF Op, Arg
<1>6. /\ Known(m2, h2, bs) /\ LongerHome(h, h2) /\ LongerBlocks(bs, bs)
      /\ insn.op = "raw" => h2 = h
      /\ insn.op # "raw" => Len(h2) = Len(h) + 1 /\ h2[Len(h) + 1] = 0
  <2>0. 0 \in 0..Len(bs)
    BY <1>2
  <2>1. Known(m2, h, bs) /\ LongerHome(h, h) /\ LongerBlocks(bs, bs)
    BY <1>2, KnownSame
  <2>2. /\ Known(m2, Append(h, 0), bs) /\ Len(Append(h, 0)) = Len(h) + 1
        /\ Append(h, 0)[Len(h) + 1] = 0 /\ LongerHome(h, Append(h, 0))
    BY <2>0, <1>2, KnownLonger
  <2> QED BY <2>1, <2>2
<1> HIDE DEF h2
<1>7. LocalAt(q, m2, h2, bs, n + 1)
  <2>1. Len(h2) \in {Len(h), Len(h) + 1} /\ (insn.op # "raw" => Len(h) + 1 \in 1..Len(h2))
    BY <1>2, <1>6
  <2>2. m2.at[n + 1] \in 1..(Len(h2) + 1) /\ m2.loop[n + 1] = 0 /\ 0 \in 0..Len(bs)
    BY <2>1, <1>2, <1>4 DEF Is
  <2>3. insn.op \notin Transfers \cup {"ret", "movecx"}
    BY DEF W, Transfers, Jumps, Loops
  <2>4. RangeAt(q, m2, h2, bs, n + 1)
    BY <2>2, <2>3, <1>5 DEF RangeAt
  <2>5. WorkAt(q, m2, h2, bs, n + 1)
    BY <2>1, <2>2, <1>4, <1>5, <1>6 DEF WorkAt, W, Is
  <2>6. LoopAt(q, m2, h2, bs, n + 1) /\ CallAt(q, m2, n + 1) /\ JumpAt(q, m2, n + 1)
    BY <2>3, <1>5 DEF LoopAt, CallAt, JumpAt, Transfers, Jumps
  <2> QED BY <2>4, <2>5, <2>6 DEF LocalAt
<1>8. Redirects(p, q, m2, o)
  BY <1>1 DEF Redirects
<1>9. OpenOK(q, m2, h2, n + 1)
  <2>1. insn.op \in W => insn.op # "raw" /\ insn.op # "label"
    BY DEF W
  <2>2. insn.op # "label"
    BY DEF W
  <2> QED BY <2>1, <2>2, <1>1, <1>4, <1>5, <1>6 DEF OpenOK
<1>10. Extends(p, q)
  BY <1>1, KeptExtends
<1> HIDE DEF n
<1>11. \A id \in Ids(q) \ Ids(p) : LocalAt(q, m2, h2, bs, id) /\ (id # n + 1 => FlowAt(q, m2, h2, bs, id))
  BY <1>1, <1>7
<1>12. Nx(q, o) # 0 /\ Is(m2, Nx(q, o), Len(h) + 1, 0, 0) /\ n + 1 # 0
  BY <1>1, <1>4
<1> QED BY <1>3, <1>6, <1>8, <1>9, <1>10, <1>11, <1>12, ExtendOpen

\* A transfer names a label of the program it was generated in, and still does later.
LEMMA OldTargets ==
  ASSUME NEW p, NEW q, NEW m, NEW h, NEW bs, NEW o, Chain(p, m, h, bs, o), Extends(p, q),
         NEW id \in Ids(p), Op(q, id) \in Transfers
  PROVE  To(q, id) \in Ids(p)
<1>1. q.code[id] = p.code[id]
  BY DEF Extends
<1>2. p.code[id].arg \in 0..(p.labeli - 1) /\ To(p, id) \in Ids(p)
  BY <1>1 DEF Chain, LocalAt, RangeAt, Op, Arg
<1> QED BY <1>1, <1>2 DEF Extends, To

\* A jump to a label: the code before the label jumps over what comes there.
LEMMA ChainDivert ==
  ASSUME NEW p, NEW h, NEW bs, Ring(p), p.lock_ctrl = FALSE, NEW op \in Jumps,
         NEW label \in 0..(p.labeli - 1)
  PROVE  Grows(p, h, bs, Divert(p, op, label), h, bs)
<1> DEFINE q == Divert(p, op, label)
           n == Len(p.code)
           tp == LabelPos(p, label)
           o == p.insertpos
<1>0. PICK e \in {n + 1, n + 2} : Diverted(p, op, label, q, e)
  BY DivertRing
<1>1. /\ Ring(q) /\ Extends(p, q)
      /\ n \in Nat /\ Ids(q) = Ids(p) \cup {n + 1, e, e + 1, e + 2} /\ q.insertpos = e + 2
      /\ {n + 1, e, e + 1, e + 2} \cap (Ids(p) \cup {0}) = {}
      /\ q.code[n + 1] = Insn(op, p.labeli) /\ q.code[e] = Insn("jmp", p.labeli)
      /\ q.code[e + 1] = Insn("jmp", label) /\ q.code[e + 2] = Insn("label", p.labeli)
      /\ q.labeli = p.labeli + 1 /\ p.labeli \in Nat /\ LabelPos(q, p.labeli) = e + 2
      /\ tp \in Ids(p) /\ Op(p, tp) = "label" /\ LabelPos(q, label) = tp
      /\ Nx(q, o) = n + 1
      /\ op = "jmp" => e = n + 1
      /\ op = "jcc" => e = n + 2 /\ Nx(q, n + 1) = n + 2
      /\ \A y \in Ids(p) \cup {0} : y # o =>
           Nx(q, y) = IF Nx(p, y) = tp THEN e + 1 ELSE Nx(p, y)
  BY <1>0 DEF Diverted
<1> HIDE DEF q
<1> SUFFICES ASSUME NEW m, Chain(p, m, h, bs, o)
             PROVE  \E m2 : Chain(q, m2, h, bs, e + 2)
  BY <1>1 DEF Grows, q
<1>2. m \in Marks /\ Known(m, h, bs) /\ Len(h) \in Nat /\ Len(bs) \in Nat
  BY DEF Chain, Known
<1>3. /\ m.at[tp] \in 1..(Len(h) + 1) /\ m.loop[tp] \in 0..Len(bs)
      /\ m.at[tp] \in Nat /\ m.call[tp] \in Nat /\ m.loop[tp] \in Nat
  <2>1. m.at[tp] \in 1..(Len(h) + 1) /\ m.loop[tp] \in 0..Len(bs)
    BY <1>1 DEF Chain, LocalAt, RangeAt
  <2>2. tp \in Nat
    BY <1>1 DEF Ids
  <2>3. m.at \in [Nat -> Nat] /\ m.call \in [Nat -> Nat] /\ m.loop \in [Nat -> Nat]
    BY <1>2 DEF Marks
  <2> QED BY <2>1, <2>2, <2>3
<1>4. PICK m2 \in Marks :
        /\ Agree(p, m, m2)
        /\ Is(m2, n + 1, Len(h) + 1, 0, 0) /\ Is(m2, e, Len(h) + 1, 0, 0)
        /\ Is(m2, e + 1, m.at[tp], m.call[tp], m.loop[tp]) /\ Is(m2, e + 2, Len(h) + 1, 0, 0)
  <2> DEFINE A == [y \in Nat |-> IF y = e + 1 THEN m.at[tp] ELSE Len(h) + 1]
             C == [y \in Nat |-> IF y = e + 1 THEN m.call[tp] ELSE 0]
             L == [y \in Nat |-> IF y = e + 1 THEN m.loop[tp] ELSE 0]
  <2>1. A \in [Nat -> Nat] /\ C \in [Nat -> Nat] /\ L \in [Nat -> Nat]
    BY <1>2, <1>3
  <2>2. /\ n + 1 \in Nat /\ e \in Nat /\ e + 1 \in Nat /\ e + 2 \in Nat
        /\ n + 1 > n /\ e > n /\ e + 1 > n /\ e + 2 > n /\ n + 1 # e + 1 /\ e # e + 1 /\ e + 2 # e + 1
    BY <1>1
  <2>3. /\ \A y \in {n + 1, e, e + 2} : A[y] = Len(h) + 1 /\ C[y] = 0 /\ L[y] = 0
        /\ A[e + 1] = m.at[tp] /\ C[e + 1] = m.call[tp] /\ L[e + 1] = m.loop[tp]
    BY <2>2
  <2> HIDE DEF A, C, L
  <2>4. PICK m2 \in Marks :
          /\ \A y \in 0..n : m2.at[y] = m.at[y] /\ m2.call[y] = m.call[y] /\ m2.loop[y] = m.loop[y]
          /\ \A y \in Nat : y > n => Is(m2, y, A[y], C[y], L[y])
    BY <2>1, <1>1, <1>2, NewMarks
  <2>5. Agree(p, m, m2)
    <3>1. \A id \in Ids(p) : id \in 0..n
      BY DEF Ids
    <3> QED BY <3>1, <2>4 DEF Agree
  <2>6. /\ Is(m2, n + 1, A[n + 1], C[n + 1], L[n + 1]) /\ Is(m2, e, A[e], C[e], L[e])
        /\ Is(m2, e + 1, A[e + 1], C[e + 1], L[e + 1]) /\ Is(m2, e + 2, A[e + 2], C[e + 2], L[e + 2])
    BY <2>2, <2>4
  <2> QED BY <2>3, <2>5, <2>6
<1>5. /\ Op(q, n + 1) = op /\ Op(q, e) = "jmp" /\ Op(q, e + 1) = "jmp" /\ Op(q, e + 2) = "label"
      /\ Arg(q, n + 1) = p.labeli /\ Arg(q, e) = p.labeli /\ Arg(q, e + 1) = label
      /\ To(q, n + 1) = e + 2 /\ To(q, e) = e + 2 /\ To(q, e + 1) = tp
  BY <1>1 DEF Op, Arg, To, Insn
<1>6. Op(q, tp) = "label" /\ tp \in Ids(q) /\ p.labeli \in 0..(q.labeli - 1) /\ label \in 0..(q.labeli - 1)
      /\ e + 2 \in Ids(q)
  <2>1. Op(q, tp) = "label" /\ tp \in Ids(q) /\ e + 2 \in Ids(q)
    BY <1>1 DEF Extends, Op
  <2> QED BY <2>1, <1>1
<1>7. Is(m2, tp, m.at[tp], m.call[tp], m.loop[tp])
  BY <1>1, <1>4 DEF Agree, Is
<1>8. Len(h) + 1 \in 1..(Len(h) + 1) /\ 0 \in 0..Len(bs)
  BY <1>2
<1>9. /\ LocalAt(q, m2, h, bs, n + 1) /\ LocalAt(q, m2, h, bs, e)
      /\ LocalAt(q, m2, h, bs, e + 1) /\ LocalAt(q, m2, h, bs, e + 2)
  <2>1. LocalAt(q, m2, h, bs, n + 1)
    <3>1. Same(m2, e + 2, n + 1) /\ m2.at[n + 1] = Len(h) + 1 /\ m2.loop[n + 1] = 0
      BY <1>4 DEF Same, Is
    <3> QED BY <3>1, <1>5, <1>6, <1>8, JumpLocal
  <2>2. LocalAt(q, m2, h, bs, e)
    <3>1. Same(m2, e + 2, e) /\ m2.at[e] = Len(h) + 1 /\ m2.loop[e] = 0 /\ "jmp" \in Jumps
      BY <1>4 DEF Same, Is, Jumps
    <3> QED BY <3>1, <1>5, <1>6, <1>8, JumpLocal
  <2>3. LocalAt(q, m2, h, bs, e + 1)
    <3>1. Same(m2, tp, e + 1) /\ m2.at[e + 1] = m.at[tp] /\ m2.loop[e + 1] = m.loop[tp] /\ "jmp" \in Jumps
      BY <1>4, <1>7 DEF Same, Is, Jumps
    <3> QED BY <3>1, <1>3, <1>5, <1>6, JumpLocal
  <2>4. LocalAt(q, m2, h, bs, e + 2)
    <3>1. m2.at[e + 2] = Len(h) + 1 /\ m2.loop[e + 2] = 0
      BY <1>4 DEF Is
    <3> QED BY <3>1, <1>5, <1>8, LabelLocal
  <2> QED BY <2>1, <2>2, <2>3, <2>4
<1>10. FlowAt(q, m2, h, bs, n + 1) /\ FlowAt(q, m2, h, bs, e) /\ FlowAt(q, m2, h, bs, e + 1)
  <2>1. FlowAt(q, m2, h, bs, e) /\ FlowAt(q, m2, h, bs, e + 1)
    BY <1>5 DEF FlowAt, Falling, W, Loops
  <2>2. CASE op = "jmp"
    BY <2>2, <1>5 DEF FlowAt, Falling, W, Loops
  <2>3. CASE op = "jcc"
    <3>1. Nx(q, n + 1) = e /\ e # 0 /\ Same(m2, e, n + 1)
      BY <2>3, <1>1, <1>4 DEF Same, Is
    <3>2. Op(q, n + 1) = "jcc"
      BY <2>3, <1>5
    <3> QED BY <2>1, <3>1, <3>2 DEF FlowAt, Fed, W, Loops
  <2> QED BY <2>1, <2>2, <2>3 DEF Jumps
<1>11. Known(m2, h, bs) /\ LongerHome(h, h) /\ LongerBlocks(bs, bs)
  BY <1>2, KnownSame
<1>12. Redirects(p, q, m2, o)
  <2>1. Same(m2, e + 1, tp) /\ e + 1 # 0
    BY <1>1, <1>4, <1>7 DEF Same, Is
  <2> QED BY <2>1, <1>1 DEF Redirects
<1>13. OpenOK(q, m2, h, e + 2)
  BY <1>1, <1>4, <1>5, <1>6 DEF OpenOK, W
<1>14. \A id \in Ids(q) \ Ids(p) : LocalAt(q, m2, h, bs, id) /\ (id # e + 2 => FlowAt(q, m2, h, bs, id))
  BY <1>1, <1>9, <1>10
<1>15. Nx(q, o) # 0 /\ Is(m2, Nx(q, o), Len(h) + 1, 0, 0) /\ e + 2 # 0
  BY <1>1, <1>4
<1> QED BY <1>1, <1>4, <1>11, <1>12, <1>13, <1>14, <1>15, ExtendOpen

\* A jump when there is no label yet.
LEMMA ChainDivertNew ==
  ASSUME NEW p, NEW h, NEW bs, Ring(p), p.lock_ctrl = FALSE, NEW op \in Jumps
  PROVE  Grows(p, h, bs, Divert(p, op, NoLabel), h, bs)
<1> DEFINE q == Divert(p, op, NoLabel)
           n == Len(p.code)
           o == p.insertpos
<1>0. \E e \in {n + 1, n + 2} :
        /\ Ring(q) /\ Extends(p, q) /\ q.lock_ctrl = FALSE /\ q.lock_cx = p.lock_cx
        /\ n \in Nat /\ Ids(q) = Ids(p) \cup {n + 1, e, e + 1} /\ q.insertpos = e + 1
        /\ {n + 1, e, e + 1} \cap (Ids(p) \cup {0}) = {}
        /\ q.code[n + 1] = Insn(op, p.labeli) /\ q.code[e] = Insn("jmp", p.labeli)
        /\ q.code[e + 1] = Insn("label", p.labeli)
        /\ q.labeli = p.labeli + 1 /\ p.labeli \in Nat /\ LabelPos(q, p.labeli) = e + 1
        /\ op = "jmp" => e = n + 1 /\ Nx(q, o) = e + 1
        /\ op = "jcc" => e = n + 2 /\ Nx(q, o) = n + 1 /\ Nx(q, n + 1) = e + 1
        /\ \A y \in Ids(p) \cup {0} : y # o => Nx(q, y) = Nx(p, y)
  BY DivertNewRing, ZenonT(30)
<1>1. PICK e \in {n + 1, n + 2} :
        /\ Ring(q) /\ Extends(p, q)
        /\ n \in Nat /\ Ids(q) = Ids(p) \cup {n + 1, e, e + 1} /\ q.insertpos = e + 1
        /\ {n + 1, e, e + 1} \cap (Ids(p) \cup {0}) = {}
        /\ q.code[n + 1] = Insn(op, p.labeli) /\ q.code[e] = Insn("jmp", p.labeli)
        /\ q.code[e + 1] = Insn("label", p.labeli)
        /\ q.labeli = p.labeli + 1 /\ p.labeli \in Nat /\ LabelPos(q, p.labeli) = e + 1
        /\ op = "jmp" => e = n + 1 /\ Nx(q, o) = e + 1
        /\ op = "jcc" => e = n + 2 /\ Nx(q, o) = n + 1 /\ Nx(q, n + 1) = e + 1
        /\ \A y \in Ids(p) \cup {0} : y # o => Nx(q, y) = Nx(p, y)
  BY <1>0
<1> HIDE DEF q
<1> SUFFICES ASSUME NEW m, Chain(p, m, h, bs, o)
             PROVE  \E m2 : Chain(q, m2, h, bs, e + 1)
  BY <1>1 DEF Grows, q
<1>2. m \in Marks /\ Known(m, h, bs) /\ Len(h) \in Nat /\ Len(bs) \in Nat
  BY DEF Chain, Known
<1>3. PICK m2 \in Marks : Agree(p, m, m2) /\ \A y \in Nat : y > n => Is(m2, y, Len(h) + 1, 0, 0)
  <2>1. Len(h) + 1 \in Nat
    BY <1>2
  <2> QED BY <2>1, <1>1, <1>2, PlainMarks
<1>4. \A y \in {n + 1, e, e + 1} : Is(m2, y, Len(h) + 1, 0, 0)
  BY <1>1, <1>3
<1>5. /\ Op(q, n + 1) = op /\ Op(q, e) = "jmp" /\ Op(q, e + 1) = "label"
      /\ Arg(q, n + 1) = p.labeli /\ Arg(q, e) = p.labeli
      /\ To(q, n + 1) = e + 1 /\ To(q, e) = e + 1
  BY <1>1 DEF Op, Arg, To, Insn
<1>6. p.labeli \in 0..(q.labeli - 1) /\ e + 1 \in Ids(q)
  BY <1>1
<1>7. Len(h) + 1 \in 1..(Len(h) + 1) /\ 0 \in 0..Len(bs)
  BY <1>2
<1>8. \A y \in {n + 1, e, e + 1} : /\ Same(m2, e + 1, y) /\ Same(m2, y, n + 1)
                                   /\ m2.at[y] = Len(h) + 1 /\ m2.loop[y] = 0
  BY <1>4 DEF Same, Is
<1>9. LocalAt(q, m2, h, bs, n + 1) /\ LocalAt(q, m2, h, bs, e) /\ LocalAt(q, m2, h, bs, e + 1)
  <2>1. LocalAt(q, m2, h, bs, n + 1)
    BY <1>5, <1>6, <1>7, <1>8, JumpLocal
  <2>2. LocalAt(q, m2, h, bs, e)
    <3>1. "jmp" \in Jumps
      BY DEF Jumps
    <3> QED BY <3>1, <1>5, <1>6, <1>7, <1>8, JumpLocal
  <2>3. LocalAt(q, m2, h, bs, e + 1)
    BY <1>5, <1>7, <1>8, LabelLocal
  <2> QED BY <2>1, <2>2, <2>3
<1>10. FlowAt(q, m2, h, bs, n + 1) /\ FlowAt(q, m2, h, bs, e)
  <2>1. FlowAt(q, m2, h, bs, e)
    BY <1>5 DEF FlowAt, Falling, W, Loops
  <2>2. CASE op = "jmp"
    BY <2>2, <1>5 DEF FlowAt, Falling, W, Loops
  <2>3. CASE op = "jcc"
    <3>1. Nx(q, n + 1) = e + 1 /\ e + 1 # 0 /\ Same(m2, e + 1, n + 1)
      BY <2>3, <1>1, <1>8
    <3>2. Op(q, n + 1) = "jcc"
      BY <2>3, <1>5
    <3> QED BY <2>1, <3>1, <3>2 DEF FlowAt, Fed, W, Loops
  <2> QED BY <2>1, <2>2, <2>3 DEF Jumps
<1>11. Known(m2, h, bs) /\ LongerHome(h, h) /\ LongerBlocks(bs, bs)
  BY <1>2, KnownSame
<1>12. Redirects(p, q, m2, o)
  BY <1>1 DEF Redirects
<1>13. OpenOK(q, m2, h, e + 1)
  BY <1>1, <1>4, <1>5, <1>6 DEF OpenOK, W
<1>14. \A id \in Ids(q) \ Ids(p) : LocalAt(q, m2, h, bs, id) /\ (id # e + 1 => FlowAt(q, m2, h, bs, id))
  BY <1>1, <1>9, <1>10
<1>15. Nx(q, o) # 0 /\ Is(m2, Nx(q, o), Len(h) + 1, 0, 0) /\ e + 1 # 0
  BY <1>1, <1>4 DEF Jumps
<1> QED BY <1>1, <1>3, <1>11, <1>12, <1>13, <1>14, <1>15, ExtendOpen

-----------------------------------------------------------------------------
(* A block that is open: its body goes between the insert position and the
   instruction that closes it, what comes after the block is behind o.      *)

\* The label of a body is followed by an instruction of it.
Filled(p, t) == Nx(p, t) # 0 /\ Op(p, Nx(p, t)) \in W \cup {"raw"}

\* The body ends at the loop, which is followed by o.
LoopBlock(p, m, bs, o, k) ==
  /\ Op(p, k) \in Loops /\ m.loop[k] = Len(bs) /\ p.lock_cx = "loop" /\ Nx(p, k) = o
  /\ \A id \in Ids(p) : Op(p, id) \in Loops /\ m.loop[id] = Len(bs) => id = k
  /\ p.insertpos = To(p, k) \/ Filled(p, To(p, k))
  /\ \A id \in Ids(p) : Op(p, id) = "ret" => Nx(p, m.call[id]) # o

\* The body ends at the ret, which returns to o.
CallBlock(p, m, bs, o, k) ==
  /\ Op(p, k) = "ret" /\ Nx(p, m.call[k]) = o /\ bs[Len(bs)].op \notin Loops
  /\ \A id \in Ids(p) : Op(p, id) = "ret" /\ m.call[id] = m.call[k] => id = k

BlockAt(p, m, h, bs, o, k) ==
  /\ p.insertpos \in Ids(p) /\ Op(p, p.insertpos) \in W \cup {"label", "raw"}
  /\ k \in Ids(p) /\ k # o /\ p.insertpos # o /\ o \in Ids(p) /\ Op(p, o) = "label"
  /\ m.at[k] = Len(h) + 1 /\ Len(bs) # 0
  /\ \A id \in Ids(p) : Op(p, id) \in Transfers => To(p, id) # o
  /\ LoopBlock(p, m, bs, o, k) \/ CallBlock(p, m, bs, o, k)

\* ... which is behind the insert position.
BlockShape(p, m, h, bs, o) == BlockAt(p, m, h, bs, o, Nx(p, p.insertpos))

\* A block begins with its body empty.
Opens(p, h, bs, q, bs2, o2) ==
  \A m : Chain(p, m, h, bs, p.insertpos) =>
    \E m2 : Chain(q, m2, h, bs2, o2) /\ BlockShape(q, m2, h, bs2, o2)

\* A returning body is called from what was there before or from its own block.
LEMMA OldCalls ==
  ASSUME NEW p, NEW q, NEW m, NEW h, NEW bs, Ring(p), Chain(p, m, h, bs, p.insertpos), Extends(p, q),
         \A y \in Ids(p) \cup {0} : y # p.insertpos => Nx(q, y) = Nx(p, y),
         NEW id \in Ids(p), Op(q, id) = "ret"
  PROVE  m.call[id] \in Ids(p) /\ Nx(q, m.call[id]) \in Ids(p) \cup {0}
<1>1. q.code[id] = p.code[id]
  BY DEF Extends
<1>2. m.call[id] \in Ids(p) /\ Op(p, m.call[id]) = "call"
  BY <1>1 DEF Chain, LocalAt, CallAt, Op
<1>3. p.insertpos # m.call[id]
  <2>1. 0 \notin Ids(p)
    BY RingClosed
  <2> QED BY <2>1, <1>2 DEF Chain, OpenOK, W
<1>4. Nx(p, m.call[id]) \in Ids(p) \cup {0}
  BY <1>2, RingClosed
<1> QED BY <1>2, <1>3, <1>4

\* A loop block: the counter is loaded, the body begins and ends, and the walk goes on behind.
LEMMA ChainOpenLoop ==
  ASSUME NEW p, NEW h, NEW bs, Ring(p), p.lock_ctrl = FALSE, NEW op \in Loops,
         NEW times \in 1..(CXSize - 1)
  PROVE  Opens(p, h, bs, OpenLoop(p, op, times), Append(bs, [op |-> op, times |-> times]),
               Len(p.code) + 1)
<1> DEFINE q == OpenLoop(p, op, times)
           n == Len(p.code)
           o == p.insertpos
           r == [op |-> op, times |-> times]
           bs2 == Append(bs, r)
           b == Len(bs) + 1
<1>0. times \in 0..(CXSize - 1)
  BY ConstantsAssumption
<1>1. /\ Ring(q) /\ Extends(p, q) /\ q.lock_ctrl = TRUE /\ q.lock_cx = "loop"
      /\ n \in Nat /\ Ids(q) = Ids(p) \cup {n + 1, n + 2, n + 3, n + 4}
      /\ q.insertpos = n + 4
      /\ {n + 1, n + 2, n + 3, n + 4} \cap (Ids(p) \cup {0}) = {}
      /\ q.code[n + 1] = Insn("label", p.labeli) /\ q.code[n + 2] = Insn(op, p.labeli + 1)
      /\ q.code[n + 3] = Insn("movecx", times)
      /\ q.code[n + 4] = Insn("label", p.labeli + 1)
      /\ q.labeli = p.labeli + 2 /\ p.labeli \in Nat
      /\ LabelPos(q, p.labeli) = n + 1 /\ LabelPos(q, p.labeli + 1) = n + 4
      /\ Nx(q, o) = n + 3 /\ Nx(q, n + 3) = n + 4 /\ Nx(q, n + 4) = n + 2
      /\ Nx(q, n + 2) = n + 1
      /\ \A y \in Ids(p) \cup {0} : y # o => Nx(q, y) = Nx(p, y)
  <2>1. LoopOpened(p, op, times, q)
    BY <1>0, OpenLoopRing
  <2> HIDE DEF q
  <2> QED BY <2>1 DEF LoopOpened
<1> HIDE DEF q
<1> SUFFICES ASSUME NEW m, Chain(p, m, h, bs, o)
             PROVE  \E m2 : Chain(q, m2, h, bs2, n + 1) /\ BlockShape(q, m2, h, bs2, n + 1)
  BY DEF Opens, q
<1>2. m \in Marks /\ Known(m, h, bs) /\ Len(h) \in Nat /\ Len(bs) \in Nat
  BY DEF Chain, Known
<1>3. r \in BlockRec /\ r.op = op /\ r.times = times
  BY ConstantsAssumption DEF BlockRec, Transfers
<1> HIDE DEF r
<1>4. PICK m2 \in Marks :
        /\ Agree(p, m, m2)
        /\ Is(m2, n + 1, Len(h) + 1, 0, 0) /\ Is(m2, n + 2, Len(h) + 1, 0, b)
        /\ Is(m2, n + 3, Len(h) + 1, 0, 0) /\ Is(m2, n + 4, Len(h) + 1, 0, b)
  <2> DEFINE A == [y \in Nat |-> Len(h) + 1]
             C == [y \in Nat |-> 0]
             L == [y \in Nat |-> IF y \in {n + 2, n + 4} THEN b ELSE 0]
  <2>1. A \in [Nat -> Nat] /\ C \in [Nat -> Nat] /\ L \in [Nat -> Nat]
    BY <1>2
  <2>2. n + 1 \in Nat /\ n + 2 \in Nat /\ n + 3 \in Nat /\ n + 4 \in Nat
    BY <1>1
  <2>3. /\ \A y \in {n + 1, n + 2, n + 3, n + 4} : A[y] = Len(h) + 1 /\ C[y] = 0
        /\ L[n + 1] = 0 /\ L[n + 2] = b /\ L[n + 3] = 0 /\ L[n + 4] = b
    BY <1>1, <2>2, SMTT(30)
  <2> HIDE DEF A, C, L
  <2>4. PICK m2 \in Marks :
          /\ \A y \in 0..n : m2.at[y] = m.at[y] /\ m2.call[y] = m.call[y] /\ m2.loop[y] = m.loop[y]
          /\ \A y \in Nat : y > n => Is(m2, y, A[y], C[y], L[y])
    BY <2>1, <1>1, <1>2, NewMarks
  <2>5. Agree(p, m, m2)
    <3>1. \A id \in Ids(p) : id \in 0..n
      BY DEF Ids
    <3> QED BY <3>1, <2>4 DEF Agree
  <2>6. n + 1 > n /\ n + 2 > n /\ n + 3 > n /\ n + 4 > n
    BY <1>1, SMTT(30)
  <2>7. \A y \in {n + 1, n + 2, n + 3, n + 4} : Is(m2, y, A[y], C[y], L[y])
    BY <2>2, <2>4, <2>6
  <2> QED BY <2>3, <2>5, <2>7
<1>5. /\ Op(q, n + 1) = "label" /\ Op(q, n + 2) = op /\ Op(q, n + 3) = "movecx" /\ Op(q, n + 4) = "label"
      /\ Arg(q, n + 2) = p.labeli + 1 /\ Arg(q, n + 3) = times /\ To(q, n + 2) = n + 4
  BY <1>1 DEF Op, Arg, To, Insn
<1>6. /\ Known(m2, h, bs2) /\ Len(bs2) = b /\ bs2[b] = r /\ LongerBlocks(bs, bs2) /\ LongerHome(h, h)
      /\ b \in 1..Len(bs2) /\ bs2[b].op = op /\ bs2[b].times = times
  <2>1. Known(m2, h, bs2) /\ Len(bs2) = b /\ bs2[b] = r /\ LongerBlocks(bs, bs2)
    BY <1>2, <1>3, KnownBlock
  <2>2. LongerHome(h, h)
    BY <1>2, KnownSame
  <2> HIDE DEF bs2
  <2>3. b \in 1..Len(bs2)
    BY <2>1, <1>2
  <2> QED BY <2>1, <2>2, <2>3, <1>3
<1>7. \A k \in 1..Len(h) : h[k] # b
  BY <1>2 DEF Known
<1> HIDE DEF bs2
<1>8. Len(h) + 1 \in 1..(Len(h) + 1) /\ 0 \in 0..Len(bs2) /\ b \in 0..Len(bs2) /\ b # 0
  BY <1>2, <1>6
<1> HIDE DEF b
<1>9. /\ LocalAt(q, m2, h, bs2, n + 1) /\ LocalAt(q, m2, h, bs2, n + 2)
      /\ LocalAt(q, m2, h, bs2, n + 3) /\ LocalAt(q, m2, h, bs2, n + 4)
  <2>1. LocalAt(q, m2, h, bs2, n + 1)
    <3>1. m2.at[n + 1] = Len(h) + 1 /\ m2.loop[n + 1] = 0
      BY <1>4 DEF Is
    <3> QED BY <3>1, <1>5, <1>8, LabelLocal
  <2>2. LocalAt(q, m2, h, bs2, n + 4)
    <3>1. m2.at[n + 4] = Len(h) + 1 /\ m2.loop[n + 4] = b
      BY <1>4 DEF Is
    <3> QED BY <3>1, <1>5, <1>8, LabelLocal
  <2>3. LocalAt(q, m2, h, bs2, n + 3)
    BY <1>4, <1>5, <1>8 DEF LocalAt, RangeAt, WorkAt, LoopAt, CallAt, JumpAt, Is, W, Loops, Transfers, Jumps
  <2>4. LocalAt(q, m2, h, bs2, n + 2)
    <3>1. /\ m2.at[n + 2] = Len(h) + 1 /\ m2.call[n + 2] = 0 /\ m2.loop[n + 2] = b
          /\ m2.at[n + 4] = Len(h) + 1 /\ m2.call[n + 4] = 0 /\ m2.loop[n + 4] = b
      BY <1>4 DEF Is
    <3>2. RangeAt(q, m2, h, bs2, n + 2)
      BY <3>1, <1>1, <1>5, <1>8 DEF RangeAt
    <3>3. op \notin W /\ op \notin {"call", "ret", "jmp", "jcc", "movecx"}
      BY DEF Loops, W
    <3>4. \A k \in 1..Len(h) : h[k] = b <=> Len(h) + 1 =< k /\ k < Len(h) + 1
      BY <1>2, <1>7
    <3>5. ~ (Len(h) + 1 < Len(h) + 1) /\ Len(h) + 1 =< Len(h) + 1
      BY <1>2
    <3>6. LoopAt(q, m2, h, bs2, n + 2)
      BY <3>1, <3>4, <3>5, <1>5, <1>6 DEF LoopAt
    <3> QED BY <3>2, <3>3, <3>6, <1>5 DEF LocalAt, WorkAt, CallAt, JumpAt
  <2> QED BY <2>1, <2>2, <2>3, <2>4
<1>10. FlowAt(q, m2, h, bs2, n + 2) /\ FlowAt(q, m2, h, bs2, n + 3) /\ FlowAt(q, m2, h, bs2, n + 4)
  <2>1. FlowAt(q, m2, h, bs2, n + 2)
    <3>1. op \notin W /\ op \notin {"label", "jcc", "movecx", "call"}
      BY DEF Loops, W
    <3> QED BY <3>1, <1>1, <1>4, <1>5 DEF FlowAt, Fed, Is
  <2>2. FlowAt(q, m2, h, bs2, n + 3)
    <3>1. "movecx" \notin W /\ "movecx" \notin Loops
      BY DEF Loops, W
    <3>2. Fed(q, m2, h, bs2, n + 3, n + 4)
      BY <3>1, <1>1, <1>4, <1>5, <1>6, <1>7 DEF Fed, Is
    <3> QED BY <3>2, <1>1 DEF FlowAt
  <2>3. FlowAt(q, m2, h, bs2, n + 4)
    BY <1>1, <1>4, <1>5 DEF FlowAt, Fed, Is, Same, W, Loops
  <2> QED BY <2>1, <2>2, <2>3
<1>11. Redirects(p, q, m2, o)
  BY <1>1 DEF Redirects
<1>12. OpenOK(q, m2, h, n + 1)
  BY <1>1, <1>4, <1>5 DEF OpenOK, W
<1>13. \A id \in Ids(q) \ Ids(p) : LocalAt(q, m2, h, bs2, id) /\ (id # n + 1 => FlowAt(q, m2, h, bs2, id))
  BY <1>1, <1>9, <1>10
<1>14. Nx(q, o) # 0 /\ Is(m2, Nx(q, o), Len(h) + 1, 0, 0) /\ n + 1 # 0
  BY <1>1, <1>4
<1>15. Chain(q, m2, h, bs2, n + 1)
  BY <1>1, <1>4, <1>6, <1>11, <1>12, <1>13, <1>14, ExtendOpen
<1>16. \A id \in Ids(p) : /\ Op(q, id) \in Transfers => To(q, id) # n + 1
                          /\ Op(q, id) \in Loops => m2.loop[id] # b
                          /\ Op(q, id) = "ret" => Nx(q, m2.call[id]) # n + 1
  <2> TAKE id \in Ids(p)
  <2>1. ASSUME Op(q, id) \in Transfers PROVE To(q, id) # n + 1
    <3>1. To(q, id) \in Ids(p)
      BY <2>1, <1>1, OldTargets
    <3> QED BY <3>1, <1>1
  <2>2. m2.loop[id] # b
    <3>1. m2.loop[id] = m.loop[id] /\ m.loop[id] \in 0..Len(bs)
      BY <1>4 DEF Agree, Chain, LocalAt, RangeAt
    <3> QED BY <3>1, <1>2 DEF b
  <2>3. ASSUME Op(q, id) = "ret" PROVE Nx(q, m2.call[id]) # n + 1
    <3>1. Nx(q, m.call[id]) \in Ids(p) \cup {0} /\ m2.call[id] = m.call[id]
      BY <2>3, <1>1, <1>4, OldCalls DEF Agree
    <3> QED BY <3>1, <1>1
  <2> QED BY <2>1, <2>2, <2>3
<1>17. LoopBlock(q, m2, bs2, n + 1, n + 2)
  <2>1. m2.loop[n + 2] = b
    BY <1>4 DEF Is
  <2>2. \A id \in {n + 1, n + 2, n + 3, n + 4} : /\ Op(q, id) \in Loops => id = n + 2
                                                 /\ Op(q, id) # "ret"
    BY <1>5 DEF Loops
  <2> QED BY <2>1, <2>2, <1>1, <1>5, <1>6, <1>16 DEF LoopBlock
<1>18. \A id \in Ids(q) : Op(q, id) \in Transfers => To(q, id) # n + 1
  <2>1. \A id \in {n + 1, n + 2, n + 3, n + 4} : Op(q, id) \in Transfers => id = n + 2
    BY <1>5 DEF Transfers, Jumps, Loops
  <2>2. n + 4 # n + 1
    BY <1>1
  <2> QED BY <2>1, <2>2, <1>1, <1>5, <1>16
<1>19. BlockAt(q, m2, h, bs2, n + 1, n + 2)
  <2>1. n + 2 # n + 1 /\ n + 4 # n + 1 /\ m2.at[n + 2] = Len(h) + 1
    BY <1>1, <1>4 DEF Is
  <2> QED BY <2>1, <1>1, <1>5, <1>6, <1>8, <1>17, <1>18 DEF BlockAt
<1> QED BY <1>1, <1>15, <1>19 DEF BlockShape

\* A call block: a jmp around the body, which returns to where the walk goes on.
LEMMA ChainOpenCall ==
  ASSUME NEW p, NEW h, NEW bs, Ring(p), p.lock_ctrl = FALSE
  PROVE  Opens(p, h, bs, OpenCall(p), Append(bs, [op |-> "call", times |-> 1]), Len(p.code) + 6)
<1> DEFINE q == OpenCall(p)
           n == Len(p.code)
           o == p.insertpos
           r == [op |-> "call", times |-> 1]
           bs2 == Append(bs, r)
           new == {n + 1, n + 2, n + 3, n + 4, n + 5, n + 6}
<1>1. /\ Ring(q) /\ Extends(p, q)
      /\ n \in Nat /\ Ids(q) = Ids(p) \cup new
      /\ q.insertpos = n + 2
      /\ new \cap (Ids(p) \cup {0}) = {}
      /\ q.code[n + 1] = Insn("jmp", p.labeli + 1) /\ q.code[n + 2] = Insn("label", p.labeli)
      /\ q.code[n + 3] = Insn("ret", 0) /\ q.code[n + 4] = Insn("label", p.labeli + 1)
      /\ q.code[n + 5] = Insn("call", p.labeli) /\ q.code[n + 6] = Insn("label", p.labeli + 2)
      /\ q.labeli = p.labeli + 3 /\ p.labeli \in Nat
      /\ LabelPos(q, p.labeli) = n + 2 /\ LabelPos(q, p.labeli + 1) = n + 4
      /\ Nx(q, o) = n + 1 /\ Nx(q, n + 1) = n + 2 /\ Nx(q, n + 2) = n + 3
      /\ Nx(q, n + 3) = n + 4 /\ Nx(q, n + 4) = n + 5 /\ Nx(q, n + 5) = n + 6
      /\ \A y \in Ids(p) \cup {0} : y # o => Nx(q, y) = Nx(p, y)
  <2>1. CallOpened(p, q)
    BY OpenCallRing
  <2> HIDE DEF q
  <2> QED BY <2>1 DEF CallOpened
<1> HIDE DEF q
<1> SUFFICES ASSUME NEW m, Chain(p, m, h, bs, o)
             PROVE  \E m2 : Chain(q, m2, h, bs2, n + 6) /\ BlockShape(q, m2, h, bs2, n + 6)
  BY DEF Opens, q
<1>2. m \in Marks /\ Known(m, h, bs) /\ Len(h) \in Nat /\ Len(bs) \in Nat
  BY DEF Chain, Known
<1>3. r \in BlockRec /\ r.op = "call"
  BY DEF BlockRec, Transfers, Loops
<1> HIDE DEF r
<1>4. PICK m2 \in Marks :
        /\ Agree(p, m, m2)
        /\ Is(m2, n + 1, Len(h) + 1, 0, 0) /\ Is(m2, n + 2, Len(h) + 1, n + 5, 0)
        /\ Is(m2, n + 3, Len(h) + 1, n + 5, 0) /\ Is(m2, n + 4, Len(h) + 1, 0, 0)
        /\ Is(m2, n + 5, Len(h) + 1, 0, 0) /\ Is(m2, n + 6, Len(h) + 1, 0, 0)
  <2> DEFINE A == [y \in Nat |-> Len(h) + 1]
             C == [y \in Nat |-> IF y \in {n + 2, n + 3} THEN n + 5 ELSE 0]
             L == [y \in Nat |-> 0]
  <2>1. A \in [Nat -> Nat] /\ C \in [Nat -> Nat] /\ L \in [Nat -> Nat]
    BY <1>1, <1>2
  <2>2. n + 1 \in Nat /\ n + 2 \in Nat /\ n + 3 \in Nat /\ n + 4 \in Nat /\ n + 5 \in Nat /\ n + 6 \in Nat
    BY <1>1, SMTT(30)
  <2>3. /\ \A y \in new : A[y] = Len(h) + 1 /\ L[y] = 0
        /\ C[n + 1] = 0 /\ C[n + 2] = n + 5 /\ C[n + 3] = n + 5 /\ C[n + 4] = 0
        /\ C[n + 5] = 0 /\ C[n + 6] = 0
    <3>1. \A y \in new : A[y] = Len(h) + 1 /\ L[y] = 0
      BY <2>2
    <3>2. \A y \in {n + 1, n + 4, n + 5, n + 6} : y \in Nat /\ y \notin {n + 2, n + 3}
      <4>1. \A k \in Nat : /\ k + 1 # k + 2 /\ k + 1 # k + 3 /\ k + 4 # k + 2 /\ k + 4 # k + 3
                          /\ k + 5 # k + 2 /\ k + 5 # k + 3 /\ k + 6 # k + 2 /\ k + 6 # k + 3
        OBVIOUS
      <4>2. n \in Nat
        BY <1>1
      <4> HIDE DEF n
      <4> QED BY <2>2, <4>1, <4>2
    <3>3. \A y \in {n + 1, n + 4, n + 5, n + 6} : C[y] = 0
      BY <3>2
    <3>4. C[n + 2] = n + 5 /\ C[n + 3] = n + 5
      BY <2>2
    <3> HIDE DEF A, C, L
    <3> QED BY <3>1, <3>3, <3>4
  <2> HIDE DEF A, C, L
  <2>4. PICK m2 \in Marks :
          /\ \A y \in 0..n : m2.at[y] = m.at[y] /\ m2.call[y] = m.call[y] /\ m2.loop[y] = m.loop[y]
          /\ \A y \in Nat : y > n => Is(m2, y, A[y], C[y], L[y])
    BY <2>1, <1>1, <1>2, NewMarks
  <2>5. Agree(p, m, m2)
    <3>1. \A id \in Ids(p) : id \in 0..n
      BY DEF Ids
    <3> QED BY <3>1, <2>4 DEF Agree
  <2>6. n + 1 > n /\ n + 2 > n /\ n + 3 > n /\ n + 4 > n /\ n + 5 > n /\ n + 6 > n
    <3>1. n \in Nat
      BY <1>1
    <3> QED BY <3>1
  <2>7. \A y \in new : Is(m2, y, A[y], C[y], L[y])
    BY <2>2, <2>4, <2>6
  <2> QED BY <2>3, <2>5, <2>7
<1>5. /\ Op(q, n + 1) = "jmp" /\ Op(q, n + 2) = "label" /\ Op(q, n + 3) = "ret" /\ Op(q, n + 4) = "label"
      /\ Op(q, n + 5) = "call" /\ Op(q, n + 6) = "label"
      /\ Arg(q, n + 1) = p.labeli + 1 /\ To(q, n + 1) = n + 4
      /\ Arg(q, n + 5) = p.labeli /\ To(q, n + 5) = n + 2
  BY <1>1 DEF Op, Arg, To, Insn
<1>6. /\ Known(m2, h, bs2) /\ Len(bs2) = Len(bs) + 1 /\ LongerBlocks(bs, bs2) /\ LongerHome(h, h)
      /\ Len(bs2) # 0 /\ bs2[Len(bs2)].op = "call"
  <2>1. Known(m2, h, bs2) /\ Len(bs2) = Len(bs) + 1 /\ bs2[Len(bs) + 1] = r /\ LongerBlocks(bs, bs2)
    BY <1>2, <1>3, KnownBlock
  <2>2. LongerHome(h, h)
    BY <1>2, KnownSame
  <2> HIDE DEF bs2
  <2>3. Len(bs2) # 0
    BY <2>1, <1>2
  <2> QED BY <2>1, <2>2, <2>3, <1>3
<1> HIDE DEF bs2
<1>7. /\ Len(h) + 1 \in 1..(Len(h) + 1) /\ 0 \in 0..Len(bs2)
      /\ p.labeli \in 0..(q.labeli - 1) /\ p.labeli + 1 \in 0..(q.labeli - 1)
  <2>1. Len(h) + 1 \in 1..(Len(h) + 1) /\ 0 \in 0..Len(bs2)
    BY <1>2, <1>6
  <2>2. p.labeli \in 0..(q.labeli - 1) /\ p.labeli + 1 \in 0..(q.labeli - 1)
    BY <1>1, SMTT(30)
  <2> QED BY <2>1, <2>2
<1>8. /\ \A y \in new : m2.at[y] = Len(h) + 1 /\ m2.loop[y] = 0
      /\ m2.call[n + 1] = 0 /\ m2.call[n + 2] = n + 5 /\ m2.call[n + 3] = n + 5
      /\ m2.call[n + 4] = 0 /\ m2.call[n + 5] = 0 /\ m2.call[n + 6] = 0
  BY <1>4 DEF Is
<1>9. \A id \in new : LocalAt(q, m2, h, bs2, id)
  <2>1. \A id \in {n + 2, n + 4, n + 6} : LocalAt(q, m2, h, bs2, id)
    BY <1>5, <1>7, <1>8, LabelLocal
  <2>2. LocalAt(q, m2, h, bs2, n + 1)
    <3>1. Same(m2, n + 4, n + 1) /\ "jmp" \in Jumps /\ n + 4 \in Ids(q)
      BY <1>1, <1>8 DEF Same, Is, Jumps
    <3> QED BY <3>1, <1>5, <1>7, <1>8, JumpLocal
  <2>3. LocalAt(q, m2, h, bs2, n + 3)
    <3>1. CallAt(q, m2, n + 3)
      BY <1>1, <1>5, <1>8 DEF CallAt
    <3>2. RangeAt(q, m2, h, bs2, n + 3)
      BY <1>5, <1>7, <1>8 DEF RangeAt, Transfers, Jumps, Loops
    <3> QED BY <3>1, <3>2, <1>5 DEF LocalAt, WorkAt, LoopAt, JumpAt, W, Loops
  <2>4. LocalAt(q, m2, h, bs2, n + 5)
    <3>1. CallAt(q, m2, n + 5)
      BY <1>5, <1>8 DEF CallAt, Is
    <3>2. RangeAt(q, m2, h, bs2, n + 5)
      BY <1>1, <1>5, <1>7, <1>8 DEF RangeAt
    <3> QED BY <3>1, <3>2, <1>5 DEF LocalAt, WorkAt, LoopAt, JumpAt, W, Loops
  <2> QED BY <2>1, <2>2, <2>3, <2>4
<1>10. \A id \in new \ {n + 6} : FlowAt(q, m2, h, bs2, id)
  <2>1. FlowAt(q, m2, h, bs2, n + 1) /\ FlowAt(q, m2, h, bs2, n + 3)
    BY <1>5 DEF FlowAt, Falling, W, Loops
  <2>2. FlowAt(q, m2, h, bs2, n + 2)
    <3>1. Same(m2, n + 3, n + 2) /\ n + 3 # 0
      BY <1>1, <1>8 DEF Same, Is
    <3> QED BY <3>1, <1>1, <1>5 DEF FlowAt, Fed, W, Loops
  <2>3. FlowAt(q, m2, h, bs2, n + 4)
    <3>1. Same(m2, n + 5, n + 4) /\ n + 5 # 0
      BY <1>1, <1>8 DEF Same, Is
    <3> QED BY <3>1, <1>1, <1>5 DEF FlowAt, Fed, W, Loops
  <2>4. FlowAt(q, m2, h, bs2, n + 5)
    <3>1. n + 6 # 0
      BY <1>1
    <3> QED BY <3>1, <1>1, <1>5, <1>8 DEF FlowAt, Fed, W, Loops
  <2> QED BY <2>1, <2>2, <2>3, <2>4
<1>11. Redirects(p, q, m2, o)
  BY <1>1 DEF Redirects
<1>12. OpenOK(q, m2, h, n + 6)
  BY <1>1, <1>4, <1>5 DEF OpenOK, W
<1>13. \A id \in Ids(q) \ Ids(p) : LocalAt(q, m2, h, bs2, id) /\ (id # n + 6 => FlowAt(q, m2, h, bs2, id))
  <2> HIDE DEF new
  <2> QED BY <1>1, <1>9, <1>10
<1>14. Nx(q, o) # 0 /\ Is(m2, Nx(q, o), Len(h) + 1, 0, 0) /\ n + 6 # 0
  BY <1>1, <1>4
<1>15. Chain(q, m2, h, bs2, n + 6)
  BY <1>1, <1>4, <1>6, <1>11, <1>12, <1>13, <1>14, ExtendOpen
<1>16. \A id \in Ids(p) : /\ Op(q, id) \in Transfers => To(q, id) # n + 6
                          /\ Op(q, id) = "ret" => m2.call[id] # n + 5
  <2> TAKE id \in Ids(p)
  <2>1. ASSUME Op(q, id) \in Transfers PROVE To(q, id) # n + 6
    <3>1. To(q, id) \in Ids(p)
      BY <2>1, <1>1, OldTargets
    <3> QED BY <3>1, <1>1
  <2>2. ASSUME Op(q, id) = "ret" PROVE m2.call[id] # n + 5
    <3>1. m.call[id] \in Ids(p) /\ m2.call[id] = m.call[id]
      BY <2>2, <1>1, <1>4, OldCalls DEF Agree
    <3> QED BY <3>1, <1>1
  <2> QED BY <2>1, <2>2
<1>17. CallBlock(q, m2, bs2, n + 6, n + 3)
  <2>1. \A id \in new : Op(q, id) = "ret" => id = n + 3
    BY <1>5
  <2>2. "call" \notin Loops
    BY DEF Loops
  <2> HIDE DEF new
  <2> QED BY <2>1, <2>2, <1>1, <1>5, <1>6, <1>8, <1>16 DEF CallBlock
<1>18. \A id \in Ids(q) : Op(q, id) \in Transfers => To(q, id) # n + 6
  <2>1. \A id \in new : Op(q, id) \in Transfers => id = n + 1 \/ id = n + 5
    BY <1>5 DEF Transfers, Jumps, Loops
  <2>2. n + 4 # n + 6 /\ n + 2 # n + 6
    BY <1>1
  <2> HIDE DEF new
  <2> QED BY <2>1, <2>2, <1>1, <1>5, <1>16
<1>19. BlockAt(q, m2, h, bs2, n + 6, n + 3)
  <2>1. n + 3 # n + 6 /\ n + 2 # n + 6
    BY <1>1
  <2> QED BY <2>1, <1>1, <1>5, <1>6, <1>8, <1>17, <1>18 DEF BlockAt
<1> QED BY <1>1, <1>15, <1>19 DEF BlockShape

\* The end of the program: one more jump, and everything that ran out runs on to the last label.
LEMMA ChainFinish ==
  ASSUME NEW p, NEW h, NEW bs, NEW m, Ring(p), p.lock_ctrl = FALSE, Chain(p, m, h, bs, p.insertpos)
  PROVE  LET q == gen_control_transfer_finish(p)
         IN \E m2 : Chain(q, m2, h, bs, Len(q.code)) /\ Nx(q, Len(q.code)) = 0
                    /\ Op(q, Len(q.code)) = "label"
<1> DEFINE q == gen_control_transfer_finish(p)
           n == Len(p.code)
           o == p.insertpos
<1>1. /\ Ring(q) /\ Extends(p, q) /\ n \in Nat /\ Len(q.code) = n + 2
      /\ Ids(q) = Ids(p) \cup {n + 1, n + 2} /\ {n + 1, n + 2} \cap (Ids(p) \cup {0}) = {}
      /\ q.code[n + 1] = Insn("jmp", p.labeli) /\ q.code[n + 2] = Insn("label", p.labeli)
      /\ q.labeli = p.labeli + 1 /\ p.labeli \in Nat /\ LabelPos(q, p.labeli) = n + 2
      /\ Nx(q, o) = n + 1 /\ Nx(q, n + 2) = 0
      /\ \A y \in Ids(p) \cup {0} : y # o =>
           Nx(q, y) = IF Nx(p, y) = 0 THEN n + 2 ELSE Nx(p, y)
  <2>1. Finished(p, q)
    BY FinishRing
  <2> HIDE DEF q
  <2> QED BY <2>1 DEF Finished
<1> HIDE DEF q
<1>2. m \in Marks /\ Known(m, h, bs) /\ Len(h) \in Nat /\ Len(bs) \in Nat
  BY DEF Chain, Known
<1>3. PICK m2 \in Marks : Agree(p, m, m2) /\ \A y \in Nat : y > n => Is(m2, y, Len(h) + 1, 0, 0)
  <2>1. Len(h) + 1 \in Nat
    BY <1>2
  <2> QED BY <2>1, <1>1, <1>2, PlainMarks
<1>4. Is(m2, n + 1, Len(h) + 1, 0, 0) /\ Is(m2, n + 2, Len(h) + 1, 0, 0)
  <2>1. n + 1 \in Nat /\ n + 1 > n /\ n + 2 \in Nat /\ n + 2 > n
    BY <1>1
  <2> QED BY <2>1, <1>3
<1>5. Op(q, n + 1) = "jmp" /\ Op(q, n + 2) = "label" /\ Arg(q, n + 1) = p.labeli /\ To(q, n + 1) = n + 2
  BY <1>1 DEF Op, Arg, To, Insn
<1>6. Known(m2, h, bs) /\ LongerHome(h, h) /\ LongerBlocks(bs, bs)
  BY <1>2, KnownSame
<1>7. Redirects(p, q, m2, o)
  BY <1>1 DEF Redirects
<1>8. OpenOK(q, m2, h, n + 2)
  BY <1>1, <1>4, <1>5 DEF OpenOK, W
<1>9. LocalAt(q, m2, h, bs, n + 1) /\ LocalAt(q, m2, h, bs, n + 2)
  <2>1. Len(h) + 1 \in 1..(Len(h) + 1) /\ 0 \in 0..Len(bs) /\ p.labeli \in 0..(q.labeli - 1)
    BY <1>1, <1>2
  <2>2. /\ m2.at[n + 1] = Len(h) + 1 /\ m2.loop[n + 1] = 0 /\ m2.at[n + 2] = Len(h) + 1
        /\ m2.loop[n + 2] = 0 /\ Same(m2, n + 2, n + 1) /\ "jmp" \in Jumps /\ n + 2 \in Ids(q)
    BY <1>1, <1>4 DEF Is, Same, Jumps
  <2>3. LocalAt(q, m2, h, bs, n + 1)
    BY <2>1, <2>2, <1>5, JumpLocal
  <2> QED BY <2>1, <2>2, <2>3, <1>5, LabelLocal
<1>10. FlowAt(q, m2, h, bs, n + 1)
  BY <1>5 DEF FlowAt, Falling, W, Loops
<1>11. \A id \in Ids(q) \ Ids(p) : LocalAt(q, m2, h, bs, id) /\ (id # n + 2 => FlowAt(q, m2, h, bs, id))
  BY <1>1, <1>9, <1>10
<1>12. Nx(q, o) # 0 /\ Is(m2, Nx(q, o), Len(h) + 1, 0, 0) /\ n + 2 # 0
  BY <1>1, <1>4
<1>13. Chain(q, m2, h, bs, n + 2)
  BY <1>1, <1>3, <1>6, <1>7, <1>8, <1>11, <1>12, ExtendOpen
<1> QED BY <1>1, <1>5, <1>13 DEF q

\* The marks after an instruction x was put into the open block: the end k of the
\* body and the label o behind the block come later now.
Moved(p, m, k, o, x, N, m2) ==
  /\ m2 \in Marks
  /\ Is(m2, x, m.at[k], m.call[k], m.loop[k]) /\ m2.at[k] = N /\ m2.at[o] = N
  /\ \A y \in Ids(p) : m2.call[y] = m.call[y] /\ m2.loop[y] = m.loop[y]
  /\ \A y \in Ids(p) : y # k /\ y # o => m2.at[y] = m.at[y]

\* There are such marks.
LEMMA MovedMarks ==
  ASSUME NEW p, NEW m \in Marks, NEW k \in Ids(p), NEW o \in Ids(p), k # o, NEW x \in Nat,
         x \notin Ids(p), NEW N \in Nat
  PROVE  \E m2 : Moved(p, m, k, o, x, N, m2)
<1> DEFINE A == [y \in Nat |-> IF y = x THEN m.at[k] ELSE IF y \in {k, o} THEN N ELSE m.at[y]]
           C == [y \in Nat |-> IF y = x THEN m.call[k] ELSE m.call[y]]
           L == [y \in Nat |-> IF y = x THEN m.loop[k] ELSE m.loop[y]]
           m2 == [at |-> A, call |-> C, loop |-> L]
<1>1. m.at \in [Nat -> Nat] /\ m.call \in [Nat -> Nat] /\ m.loop \in [Nat -> Nat]
  BY DEF Marks
<1>2. \A y \in Ids(p) : y \in Nat /\ y # x
  BY DEF Ids
<1>3. A \in [Nat -> Nat] /\ C \in [Nat -> Nat] /\ L \in [Nat -> Nat]
  BY <1>1, <1>2
<1>4. A[x] = m.at[k] /\ C[x] = m.call[k] /\ L[x] = m.loop[k] /\ A[k] = N /\ A[o] = N
  BY <1>2
<1>5. \A y \in Ids(p) : C[y] = m.call[y] /\ L[y] = m.loop[y] /\ (y # k /\ y # o => A[y] = m.at[y])
  BY <1>2
<1> HIDE DEF A, C, L
<1>6. Moved(p, m, k, o, x, N, m2)
  BY <1>3, <1>4, <1>5 DEF Moved, Marks, Is
<1> QED BY <1>6

\* What the shape of the open block says of the other instructions.
BlockFacts(p, m, bs, o, k) ==
  /\ \A y \in Ids(p) \cup {0} : Nx(p, y) = k => y = p.insertpos
  /\ \A y \in Ids(p) \cup {0} : Nx(p, y) = o =>
       y \in Ids(p) /\ (Op(p, y) = "call" \/ (y = k /\ Op(p, k) \in Loops))
  /\ \A id \in Ids(p) : Op(p, id) \in Loops /\ m.loop[id] = Len(bs) => id = k
  /\ \A id \in Ids(p) : Op(p, id) = "ret" /\ Nx(p, m.call[id]) = o => id = k
  /\ Op(p, k) = "ret" => Nx(p, m.call[k]) = o
  /\ Op(p, k) \in Loops => Nx(p, k) = o /\ m.loop[k] = Len(bs)
  /\ Op(p, k) \in Loops \cup {"ret"}
  /\ \A id \in Ids(p) : Op(p, id) \in Transfers =>
       To(p, id) \in Ids(p) /\ To(p, id) # o /\ To(p, id) # k
  /\ p.insertpos # k /\ p.insertpos # 0 /\ Is(m, o, m.at[k], 0, 0)
  /\ m.loop[k] = 0 => bs[Len(bs)].op \notin Loops
  /\ m.loop[k] # 0 => m.loop[k] = Len(bs) /\ p.lock_cx = "loop"

\* They follow from the shape.
LEMMA BlockHas ==
  ASSUME NEW p, NEW h, NEW bs, NEW m, NEW o, NEW k, Ring(p), Chain(p, m, h, bs, o),
         k = Nx(p, p.insertpos), BlockAt(p, m, h, bs, o, k)
  PROVE  BlockFacts(p, m, bs, o, k)
<1> DEFINE ip == p.insertpos
<1>1. /\ \A y \in Ids(p) \cup {0} : Nx(p, y) \in Ids(p) \cup {0}
      /\ \A y, z \in Ids(p) \cup {0} : Nx(p, y) = Nx(p, z) => y = z
      /\ \A y \in Ids(p) : Nx(p, y) # y
      /\ 0 \notin Ids(p)
  BY RingClosed
<1>2. /\ ip \in Ids(p) /\ k \in Ids(p) /\ k # o /\ ip # o /\ o \in Ids(p) /\ Op(p, o) = "label"
      /\ m.at[k] = Len(h) + 1
      /\ LoopBlock(p, m, bs, o, k) \/ CallBlock(p, m, bs, o, k)
      /\ Op(p, ip) \in W \cup {"label", "raw"}
      /\ \A id \in Ids(p) : Op(p, id) \in Transfers => To(p, id) # o
  BY DEF BlockAt
<1>3. \A y \in Ids(p) \cup {0} : Nx(p, y) = k => y = ip
  BY <1>1, <1>2
<1>4. ip # k /\ ip # 0
  BY <1>1, <1>2
<1>5. \A id \in Ids(p) : LocalAt(p, m, h, bs, id)
  BY DEF Chain
<1>6. Is(m, o, m.at[k], 0, 0)
  <2>1. OpenOK(p, m, h, o) /\ o # 0
    BY <1>1, <1>2 DEF Chain
  <2>2. Is(m, o, Len(h) + 1, 0, 0)
    BY <2>1, <1>2 DEF OpenOK
  <2> QED BY <2>2, <1>2
<1>7. Op(p, k) \in Loops \cup {"ret"} /\ Op(p, k) # "label"
  BY <1>2 DEF LoopBlock, CallBlock, Loops
<1>8. \A id \in Ids(p) : Op(p, id) \in Transfers =>
        To(p, id) \in Ids(p) /\ To(p, id) # o /\ To(p, id) # k
  BY <1>2, <1>5, <1>7 DEF LocalAt, RangeAt
<1>9. CASE LoopBlock(p, m, bs, o, k)
  <2>1. /\ Op(p, k) \in Loops /\ m.loop[k] = Len(bs) /\ p.lock_cx = "loop" /\ Nx(p, k) = o
        /\ \A id \in Ids(p) : Op(p, id) \in Loops /\ m.loop[id] = Len(bs) => id = k
        /\ \A id \in Ids(p) : Op(p, id) = "ret" => Nx(p, m.call[id]) # o
    BY <1>9 DEF LoopBlock
  <2>2. Op(p, k) # "ret"
    BY <2>1 DEF Loops
  <2>3. Len(bs) # 0
    BY DEF BlockAt
  <2>4. \A y \in Ids(p) \cup {0} : Nx(p, y) = o => y = k
    BY <2>1, <1>1, <1>2
  <2> QED BY <2>1, <2>2, <2>3, <2>4, <1>2, <1>3, <1>4, <1>6, <1>7, <1>8 DEF BlockFacts
<1>10. CASE CallBlock(p, m, bs, o, k)
  <2>1. /\ Op(p, k) = "ret" /\ Nx(p, m.call[k]) = o /\ bs[Len(bs)].op \notin Loops
        /\ \A id \in Ids(p) : Op(p, id) = "ret" /\ m.call[id] = m.call[k] => id = k
    BY <1>10 DEF CallBlock
  <2>2. Op(p, k) \notin Loops
    BY <2>1 DEF Loops
  <2>3. \A id \in Ids(p) : Op(p, id) = "ret" =>
          m.loop[id] = 0 /\ m.call[id] \in Ids(p) /\ Op(p, m.call[id]) = "call"
    BY <1>5 DEF LocalAt, CallAt
  <2>4. \A y \in Ids(p) \cup {0} : Nx(p, y) = o => y = m.call[k]
    BY <2>1, <2>3, <1>1, <1>2
  <2>5. \A id \in Ids(p) : Op(p, id) = "ret" /\ Nx(p, m.call[id]) = o => id = k
    BY <2>1, <2>3, <2>4
  <2>6. \A id \in Ids(p) : ~ (Op(p, id) \in Loops /\ m.loop[id] = Len(bs))
    BY <2>1, <1>5 DEF LocalAt, LoopAt
  <2> QED BY <2>1, <2>2, <2>3, <2>4, <2>5, <2>6, <1>2, <1>3, <1>4, <1>6, <1>7, <1>8 DEF BlockFacts
<1> QED BY <1>2, <1>9, <1>10

\* The home of a new instruction of the open block is that block.
HomeInside(p, h, h2, bs, q, x) ==
  /\ Len(h) =< Len(h2) /\ \A j \in 1..Len(h) : h2[j] = h[j]
  /\ \A j \in 1..Len(h2) : j > Len(h) => j = Len(h) + 1 /\ h2[j] = Len(bs)
  /\ Op(q, x) \in W \cup {"raw"}
  /\ Op(q, x) = "raw" => Len(h2) = Len(h)
  /\ Op(q, x) \in W => Len(h2) = Len(h) + 1 /\ Arg(q, x) = Len(h) + 1
  /\ Op(q, x) = "workcx" /\ ~NamesCX => p.lock_cx # "loop"

\* q is p with the instruction x at the insert position, in the block that ends at k.
Inside(p, m, h, bs, o, k, q, x, m2, h2) ==
  /\ Chain(p, m, h, bs, o) /\ BlockFacts(p, m, bs, o, k) /\ Known(m2, h2, bs)
  /\ p.insertpos \in Ids(p) /\ Op(p, p.insertpos) \in W \cup {"label", "raw"}
  /\ k \in Ids(p) /\ k # o /\ p.insertpos # o /\ o \in Ids(p) /\ Op(p, o) = "label"
  /\ m.at[k] = Len(h) + 1 /\ Nx(p, p.insertpos) = k
  /\ x \notin Ids(p) \cup {0} /\ Ids(q) = Ids(p) \cup {x} /\ 0 \notin Ids(p) /\ Extends(p, q)
  /\ Nx(q, p.insertpos) = x /\ Nx(q, x) = k
  /\ \A y \in Ids(p) \cup {0} : y # p.insertpos => Nx(q, y) = Nx(p, y)
  /\ Moved(p, m, k, o, x, Len(h2) + 1, m2)
  /\ HomeInside(p, h, h2, bs, q, x)
  /\ q.insertpos = x /\ q.lock_cx = p.lock_cx

\* The older instructions read the same.
LEMMA InsideReads ==
  ASSUME NEW p, NEW m, NEW h, NEW bs, NEW o, NEW k, NEW q, NEW x, NEW m2, NEW h2,
         Inside(p, m, h, bs, o, k, q, x, m2, h2), NEW id \in Ids(p)
  PROVE  /\ Op(q, id) = Op(p, id) /\ Arg(q, id) = Arg(p, id)
         /\ LocalAt(p, m, h, bs, id)
         /\ Op(p, id) \in Transfers => /\ To(q, id) = To(p, id) /\ To(p, id) \in Ids(p)
                                       /\ To(p, id) # k /\ To(p, id) # o
                                       /\ Arg(p, id) \in 0..(q.labeli - 1)
         /\ Op(p, id) \notin Loops \cup {"ret", "label"} => id # k /\ id # o
<1>1. q.code[id] = p.code[id]
  BY DEF Inside, Extends
<1>2. LocalAt(p, m, h, bs, id)
  BY DEF Inside, Chain
<1>3. ASSUME Op(p, id) \in Transfers
      PROVE  /\ To(q, id) = To(p, id) /\ To(p, id) \in Ids(p) /\ To(p, id) # k /\ To(p, id) # o
             /\ Arg(p, id) \in 0..(q.labeli - 1)
  <2>1. To(p, id) \in Ids(p) /\ To(p, id) # k /\ To(p, id) # o
    BY <1>3 DEF Inside, BlockFacts
  <2>2. Arg(p, id) \in 0..(p.labeli - 1)
    BY <1>2, <1>3 DEF LocalAt, RangeAt
  <2>3. /\ p.labeli \in Nat /\ q.labeli \in Nat /\ p.labeli =< q.labeli
        /\ \A l \in 0..(p.labeli - 1) : LabelPos(q, l) = LabelPos(p, l)
    BY DEF Inside, Extends
  <2>4. To(q, id) = LabelPos(q, Arg(p, id)) /\ To(p, id) = LabelPos(p, Arg(p, id))
    BY <1>1 DEF To, Arg
  <2> QED BY <2>1, <2>2, <2>3, <2>4
<1>4. Op(p, k) \in Loops \cup {"ret"} /\ Op(p, o) = "label"
  BY DEF Inside, BlockFacts
<1> QED BY <1>1, <1>2, <1>3, <1>4 DEF Op, Arg

\* Numbers of the steps inside a block.
LEMMA InsideNumbers ==
  ASSUME NEW p, NEW m, NEW h, NEW bs, NEW o, NEW k, NEW q, NEW x, NEW m2, NEW h2,
         Inside(p, m, h, bs, o, k, q, x, m2, h2)
  PROVE  /\ Len(h) \in Nat /\ Len(h2) \in Nat /\ Len(bs) \in Nat /\ Len(h) =< Len(h2)
         /\ Len(h2) =< Len(h) + 1
         /\ \A id \in Ids(p) : m.at[id] \in 1..(Len(h) + 1) /\ m.loop[id] \in 0..Len(bs)
         /\ \A id \in Ids(p) : m2.at[id] \in 1..(Len(h2) + 1)
<1>1. Len(h) \in Nat /\ Len(h2) \in Nat /\ Len(bs) \in Nat /\ Len(h) =< Len(h2)
  BY DEF Inside, Chain, Known, HomeInside
<1>2. Len(h2) =< Len(h) + 1
  <2>1. Len(h2) = Len(h) \/ Len(h2) = Len(h) + 1
    BY DEF Inside, HomeInside
  <2> QED BY <1>1, <2>1
<1>3. \A id \in Ids(p) : m.at[id] \in 1..(Len(h) + 1) /\ m.loop[id] \in 0..Len(bs)
  BY DEF Inside, Chain, LocalAt, RangeAt
<1>4. \A id \in Ids(p) : m2.at[id] = m.at[id] \/ m2.at[id] = Len(h2) + 1
  BY DEF Inside, Moved
<1>5. Len(h2) + 1 \in 1..(Len(h2) + 1)
  BY <1>1
<1>6. \A id \in Ids(p) : m2.at[id] \in 1..(Len(h2) + 1)
  <2> TAKE id \in Ids(p)
  <2>1. m.at[id] \in 1..(Len(h2) + 1)
    BY <1>1, <1>3
  <2> QED BY <2>1, <1>4, <1>5
<1> QED BY <1>1, <1>2, <1>3, <1>6

\* A loop still ends the body it ended, or one that is one instruction longer.
LEMMA InsideLoop ==
  ASSUME NEW p, NEW m, NEW h, NEW bs, NEW o, NEW k, NEW q, NEW x, NEW m2, NEW h2,
         Inside(p, m, h, bs, o, k, q, x, m2, h2), NEW id \in Ids(p),
         id = k /\ Op(p, k) \in Loops => p.insertpos = To(p, k) \/ Filled(p, To(p, k))
  PROVE  LoopAt(q, m2, h2, bs, id)
<1> DEFINE t == To(p, id)
           N == Len(h) + 1
<1> SUFFICES ASSUME Op(p, id) \in Loops
             PROVE  LoopAt(q, m2, h2, bs, id)
  BY InsideReads DEF LoopAt
<1>1. /\ Op(q, id) = Op(p, id) /\ To(q, id) = t /\ t \in Ids(p) /\ t # k /\ t # o
      /\ LocalAt(p, m, h, bs, id)
  BY InsideReads DEF Transfers
<1>2. /\ m.loop[id] \in 1..Len(bs) /\ bs[m.loop[id]].op = Op(p, id) /\ m.call[id] = 0
      /\ m.loop[t] = m.loop[id] /\ m.call[t] = 0 /\ m.at[t] =< m.at[id]
      /\ \A j \in 1..Len(h) : h[j] = m.loop[id] <=> m.at[t] =< j /\ j < m.at[id]
      /\ m.at[t] < m.at[id] => Nx(p, t) # 0 /\ Op(p, Nx(p, t)) \in W \cup {"raw"}
  BY <1>1 DEF LocalAt, LoopAt
<1>3. m2.at[t] = m.at[t] /\ m2.loop[t] = m.loop[t] /\ m2.call[t] = m.call[t]
      /\ m2.loop[id] = m.loop[id] /\ m2.call[id] = m.call[id]
  BY <1>1 DEF Inside, Moved
<1>4. /\ Len(h) \in Nat /\ Len(h2) \in Nat /\ m.at[t] \in 1..N /\ m.at[id] \in 1..N
      /\ Len(h) =< Len(h2) /\ Len(h2) =< N
  BY <1>1, InsideNumbers
<1>5. id # o
  BY DEF Inside, Loops
<1>6. /\ \A j \in 1..Len(h) : h2[j] = h[j]
      /\ \A j \in 1..Len(h2) : j > Len(h) => j = N /\ h2[j] = Len(bs)
  BY DEF Inside, HomeInside
<1>7. m2.at[t] =< m2.at[id]
      /\ \A j \in 1..Len(h2) : h2[j] = m2.loop[id] <=> m2.at[t] =< j /\ j < m2.at[id]
  <2>1. CASE id = k
    <3>1. m2.at[id] = Len(h2) + 1 /\ m.at[id] = N /\ m.loop[id] = Len(bs)
      BY <2>1 DEF Inside, Moved, BlockFacts
    <3>2. m2.at[t] =< m2.at[id]
      BY <3>1, <1>3, <1>4
    <3>3. ASSUME NEW j \in 1..Len(h2)
          PROVE  h2[j] = m2.loop[id] <=> m2.at[t] =< j /\ j < m2.at[id]
      <4>1. CASE j \in 1..Len(h)
        <5>1. h2[j] = m2.loop[id] <=> m.at[t] =< j /\ j < N
          BY <4>1, <3>1, <1>2, <1>3, <1>6
        <5>2. j < N /\ j < Len(h2) + 1
          BY <4>1, <1>4
        <5> QED BY <5>1, <5>2, <3>1, <1>3
      <4>2. CASE j = N
        <5>1. h2[j] = Len(bs) /\ j < Len(h2) + 1 /\ m.at[t] =< j
          BY <4>2, <3>3, <1>4, <1>6
        <5> QED BY <5>1, <3>1, <1>3
      <4> QED BY <4>1, <4>2, <1>4
    <3> QED BY <3>2, <3>3
  <2>2. CASE id # k
    <3>1. m2.at[id] = m.at[id] /\ m.loop[id] # Len(bs)
      BY <2>2, <1>5 DEF Inside, Moved, BlockFacts
    <3>2. ASSUME NEW j \in 1..Len(h2)
          PROVE  h2[j] = m2.loop[id] <=> m2.at[t] =< j /\ j < m2.at[id]
      <4>1. CASE j \in 1..Len(h)
        BY <4>1, <3>1, <1>2, <1>3, <1>6
      <4>2. CASE j = N
        <5>1. h2[j] = Len(bs) /\ ~ (j < m.at[id])
          BY <4>2, <3>2, <1>4, <1>6
        <5> QED BY <5>1, <3>1, <1>3
      <4> QED BY <4>1, <4>2, <1>4
    <3> QED BY <3>1, <3>2, <1>2, <1>3
  <2> QED BY <2>1, <2>2
<1>8. ASSUME m2.at[t] < m2.at[id] PROVE Nx(q, t) # 0 /\ Op(q, Nx(q, t)) \in W \cup {"raw"}
  <2>1. CASE t = p.insertpos
    BY <2>1 DEF Inside, HomeInside
  <2>2. CASE t # p.insertpos
    <3>1. Nx(q, t) = Nx(p, t) /\ Nx(p, t) \in Ids(p) \cup {0}
      BY <2>2, <1>1 DEF Inside, Extends
    <3>2. Nx(p, t) # 0 /\ Op(p, Nx(p, t)) \in W \cup {"raw"}
      <4>1. CASE id = k
        BY <4>1, <2>2 DEF Filled
      <4>2. CASE id # k
        BY <4>2, <1>2, <1>3, <1>5, <1>8 DEF Inside, Moved
      <4> QED BY <4>1, <4>2
    <3>3. Op(q, Nx(p, t)) = Op(p, Nx(p, t))
      BY <3>1, <3>2, InsideReads
    <3> QED BY <3>1, <3>2, <3>3
  <2> QED BY <2>1, <2>2
<1> QED BY <1>1, <1>2, <1>3, <1>7, <1>8 DEF LoopAt

\* The older instructions are in order after a step inside a block.
LEMMA InsideLocal ==
  ASSUME NEW p, NEW m, NEW h, NEW bs, NEW o, NEW k, NEW q, NEW x, NEW m2, NEW h2,
         Inside(p, m, h, bs, o, k, q, x, m2, h2), NEW id \in Ids(p),
         id = k /\ Op(p, k) \in Loops => p.insertpos = To(p, k) \/ Filled(p, To(p, k))
  PROVE  LocalAt(q, m2, h2, bs, id)
<1>1. /\ Op(q, id) = Op(p, id) /\ Arg(q, id) = Arg(p, id) /\ LocalAt(p, m, h, bs, id)
      /\ Op(p, id) \in Transfers => /\ To(q, id) = To(p, id) /\ To(p, id) \in Ids(p)
                                    /\ To(p, id) # k /\ To(p, id) # o
                                    /\ Arg(p, id) \in 0..(q.labeli - 1)
      /\ Op(p, id) \notin Loops \cup {"ret", "label"} => id # k /\ id # o
  BY InsideReads
<1>2. /\ \A y \in Ids(p) : m2.call[y] = m.call[y] /\ m2.loop[y] = m.loop[y]
      /\ \A y \in Ids(p) : y # k /\ y # o => m2.at[y] = m.at[y]
      /\ Ids(q) = Ids(p) \cup {x}
  BY DEF Inside, Moved
<1>3. /\ Len(h) \in Nat /\ Len(h2) \in Nat /\ Len(h) =< Len(h2)
      /\ m.loop[id] \in 0..Len(bs) /\ m2.at[id] \in 1..(Len(h2) + 1)
  BY InsideNumbers
<1>4. RangeAt(q, m2, h2, bs, id)
  <2>1. Op(p, id) \in Transfers => Op(q, To(p, id)) = "label" /\ To(p, id) \in Ids(q)
    <3>1. Op(p, id) \in Transfers => Op(p, To(p, id)) = "label"
      BY <1>1 DEF LocalAt, RangeAt
    <3> QED BY <3>1, <1>1, <1>2, InsideReads
  <2> QED BY <2>1, <1>1, <1>2, <1>3 DEF RangeAt
<1>5. WorkAt(q, m2, h2, bs, id)
  <2>1. CASE Op(p, id) \in W
    <3>1. /\ m.at[id] = Arg(p, id) /\ Arg(p, id) \in 1..Len(h)
          /\ m.loop[id] # 0 => h[Arg(p, id)] = m.loop[id]
          /\ m.loop[id] = 0 => h[Arg(p, id)] = 0 \/ bs[h[Arg(p, id)]].op \notin Loops
          /\ Op(p, id) = "workcx" /\ ~NamesCX => m.loop[id] = 0
      BY <2>1, <1>1 DEF LocalAt, WorkAt
    <3>2. h2[Arg(p, id)] = h[Arg(p, id)] /\ Arg(p, id) \in 1..Len(h2)
      <4>1. \A j \in 1..Len(h) : h2[j] = h[j]
        BY DEF Inside, HomeInside
      <4> QED BY <4>1, <3>1, <1>3
    <3>3. Op(p, id) \notin Loops \cup {"ret", "label"}
      BY <2>1 DEF W, Loops
    <3>4. m2.at[id] = m.at[id] /\ m2.loop[id] = m.loop[id]
      BY <3>3, <1>1, <1>2
    <3> QED BY <3>1, <3>2, <3>4, <1>1 DEF WorkAt
  <2> QED BY <2>1, <1>1 DEF WorkAt
<1>6. LoopAt(q, m2, h2, bs, id)
  BY InsideLoop
<1>7. JumpAt(q, m2, id)
  <2>1. CASE Op(p, id) \in {"jmp", "jcc"}
    <3>1. Op(p, id) \in Transfers /\ Op(p, id) \notin Loops \cup {"ret", "label"}
      BY <2>1 DEF Transfers, Jumps, Loops
    <3>2. Same(m, To(p, id), id)
      BY <2>1, <1>1 DEF LocalAt, JumpAt
    <3>3. Same(m2, To(p, id), id)
      BY <3>1, <3>2, <1>1, <1>2 DEF Same, Is
    <3> QED BY <3>1, <3>3, <2>1, <1>1 DEF JumpAt
  <2>2. CASE Op(p, id) = "movecx"
    BY <2>2, <1>1, <1>2 DEF JumpAt, LocalAt
  <2> QED BY <2>1, <2>2, <1>1 DEF JumpAt
<1>8. CallAt(q, m2, id)
  <2>1. CASE Op(p, id) = "call"
    <3>1. Op(p, id) \in Transfers /\ Op(p, id) \notin Loops \cup {"ret", "label"}
      BY <2>1 DEF Transfers, Loops
    <3>2. m.call[id] = 0 /\ m.loop[id] = 0 /\ Is(m, To(p, id), m.at[id], id, 0)
      BY <2>1, <1>1 DEF LocalAt, CallAt
    <3>3. m2.call[id] = 0 /\ m2.loop[id] = 0 /\ Is(m2, To(p, id), m2.at[id], id, 0)
      BY <3>1, <3>2, <1>1, <1>2 DEF Is
    <3> QED BY <3>1, <3>3, <2>1, <1>1 DEF CallAt
  <2>2. CASE Op(p, id) = "ret"
    <3> DEFINE c == m.call[id]
               z == Nx(p, c)
    <3>1. /\ m.loop[id] = 0 /\ c \in Ids(p) /\ Op(p, c) = "call" /\ z # 0
          /\ m.at[z] = m.at[id]
      BY <2>2, <1>1 DEF LocalAt, CallAt
    <3>2. c # p.insertpos /\ Nx(q, c) = z /\ z \in Ids(p) /\ z # k /\ Op(q, c) = "call" /\ c \in Ids(q)
      <4>1. c # p.insertpos
        BY <3>1 DEF Inside, W
      <4>2. Nx(q, c) = z /\ z \in Ids(p)
        BY <3>1, <4>1 DEF Inside, Extends
      <4>3. z # k
        BY <3>1, <4>1 DEF Inside, BlockFacts
      <4> QED BY <3>1, <4>1, <4>2, <4>3, <1>2, InsideReads
    <3>3. m2.at[z] = m2.at[id]
      <4>1. CASE id = k
        <5>1. z = o
          BY <4>1, <2>2 DEF Inside, BlockFacts
        <5> QED BY <4>1, <5>1 DEF Inside, Moved
      <4>2. CASE id # k
        <5>1. z # o
          BY <4>2, <2>2 DEF Inside, BlockFacts
        <5>2. id # o
          BY <2>2 DEF Inside
        <5> QED BY <4>2, <5>1, <5>2, <3>1, <3>2, <1>2
      <4> QED BY <4>1, <4>2
    <3>4. m2.loop[id] = 0 /\ m2.call[id] = c
      BY <3>1, <1>2
    <3> QED BY <3>1, <3>2, <3>3, <3>4, <2>2, <1>1 DEF CallAt
  <2> QED BY <2>1, <2>2, <1>1 DEF CallAt
<1> QED BY <1>4, <1>5, <1>6, <1>7, <1>8 DEF LocalAt

\* The new instruction is in order.
LEMMA InsideNew ==
  ASSUME NEW p, NEW m, NEW h, NEW bs, NEW o, NEW k, NEW q, NEW x, NEW m2, NEW h2,
         Inside(p, m, h, bs, o, k, q, x, m2, h2)
  PROVE  LocalAt(q, m2, h2, bs, x) /\ FlowAt(q, m2, h2, bs, x)
<1>1. /\ m2.at[x] = Len(h) + 1 /\ m2.call[x] = m.call[k] /\ m2.loop[x] = m.loop[k]
      /\ m2.at[k] = Len(h2) + 1 /\ m2.call[k] = m.call[k] /\ m2.loop[k] = m.loop[k]
      /\ Nx(q, x) = k /\ k # 0
  BY DEF Inside, Moved, Is
<1>2. /\ Len(h) \in Nat /\ Len(h2) \in Nat /\ Len(h) =< Len(h2) /\ Len(bs) \in Nat
      /\ m.loop[k] \in 0..Len(bs)
  <2>1. k \in Ids(p)
    BY DEF Inside
  <2> QED BY <2>1, InsideNumbers
<1>3. Op(q, x) \in W \cup {"raw"}
  BY DEF Inside, HomeInside
<1>4. Op(q, x) \notin Transfers \cup Loops \cup {"ret", "call", "jmp", "jcc", "movecx", "label"}
  BY <1>3 DEF W, Transfers, Jumps, Loops
<1>5. RangeAt(q, m2, h2, bs, x)
  <2>1. m2.at[x] \in 1..(Len(h2) + 1)
    BY <1>1, <1>2
  <2> QED BY <2>1, <1>1, <1>2, <1>4 DEF RangeAt
<1>6. CASE Op(q, x) = "raw"
  BY <1>5, <1>6, <1>4 DEF LocalAt, WorkAt, LoopAt, CallAt, JumpAt, FlowAt, Falling, W
<1>7. CASE Op(q, x) \in W
  <2>1. Len(h2) = Len(h) + 1 /\ Arg(q, x) = Len(h) + 1
    BY <1>7 DEF Inside, HomeInside
  <2>2. Arg(q, x) \in 1..Len(h2) /\ Arg(q, x) > Len(h) /\ Len(h) + 1 \in 1..Len(h2)
    BY <2>1, <1>2
  <2>3. h2[Arg(q, x)] = Len(bs)
    BY <2>2 DEF Inside, HomeInside
  <2>4. /\ m.loop[k] = 0 => bs[Len(bs)].op \notin Loops
        /\ m.loop[k] # 0 => m.loop[k] = Len(bs) /\ p.lock_cx = "loop"
    BY DEF Inside, BlockFacts
  <2>5. Op(q, x) = "workcx" /\ ~NamesCX => p.lock_cx # "loop"
    BY DEF Inside, HomeInside
  <2>6. WorkAt(q, m2, h2, bs, x)
    BY <2>1, <2>2, <2>3, <2>4, <2>5, <1>1 DEF WorkAt
  <2>7. Fed(q, m2, h2, bs, x, k)
    <3>1. Is(m2, k, m2.at[x] + 1, m2.call[x], m2.loop[x])
      BY <2>1, <1>1 DEF Is
    <3> QED BY <3>1, <1>1, <1>4 DEF Fed
  <2>8. FlowAt(q, m2, h2, bs, x)
    BY <2>7, <1>1 DEF FlowAt
  <2> QED BY <2>6, <2>8, <1>4, <1>5 DEF LocalAt, LoopAt, CallAt, JumpAt
<1> QED BY <1>3, <1>6, <1>7

\* What comes behind an older instruction may come there after a step inside a block.
LEMMA InsideFlow ==
  ASSUME NEW p, NEW m, NEW h, NEW bs, NEW o, NEW k, NEW q, NEW x, NEW m2, NEW h2,
         Inside(p, m, h, bs, o, k, q, x, m2, h2), NEW id \in Ids(p), id # o
  PROVE  FlowAt(q, m2, h2, bs, id)
<1>1. /\ Op(q, id) = Op(p, id) /\ Arg(q, id) = Arg(p, id) /\ LocalAt(p, m, h, bs, id)
      /\ Op(p, id) \notin Loops \cup {"ret", "label"} => id # k /\ id # o
  BY InsideReads
<1>2. /\ \A y \in Ids(p) : m2.call[y] = m.call[y] /\ m2.loop[y] = m.loop[y]
      /\ \A y \in Ids(p) : y # k /\ y # o => m2.at[y] = m.at[y]
      /\ m2.at[k] = Len(h2) + 1 /\ m2.at[o] = Len(h2) + 1
      /\ Is(m2, x, m.at[k], m.call[k], m.loop[k])
  BY DEF Inside, Moved
<1> SUFFICES ASSUME Op(p, id) \in Falling
             PROVE  Fed(q, m2, h2, bs, id, Nx(q, id))
  BY <1>1 DEF FlowAt
<1> DEFINE z == Nx(p, id)
<1>3. Fed(p, m, h, bs, id, z)
  BY DEF Inside, Chain, FlowAt
<1>4. z \in Ids(p)
  <2>1. z # 0 /\ z \in Ids(p) \cup {0}
    BY <1>3 DEF Fed, Inside, Extends
  <2> QED BY <2>1
<1>5. CASE id = p.insertpos
  <2>1. Nx(q, id) = x /\ z = k /\ x # 0 /\ id # k
    BY <1>5 DEF Inside, BlockFacts
  <2>2. Op(p, id) \in W \cup {"label"}
    BY <1>5 DEF Inside, Falling, W, Loops
  <2>3. m2.at[id] = m.at[id] /\ m2.call[id] = m.call[id] /\ m2.loop[id] = m.loop[id]
    BY <2>1, <1>2
  <2>4. Op(p, id) \notin Loops \cup {"jcc", "movecx", "call"}
    BY <2>2 DEF W, Loops
  <2>5. CASE Op(p, id) \in W
    <3>1. Is(m, k, m.at[id] + 1, m.call[id], m.loop[id]) /\ Op(p, id) # "label"
      BY <2>1, <2>5, <1>3 DEF Fed, W
    <3>2. Is(m2, x, m2.at[id] + 1, m2.call[id], m2.loop[id])
      BY <3>1, <2>3, <1>2 DEF Is
    <3> QED BY <3>1, <3>2, <2>1, <2>4, <1>1 DEF Fed
  <2>6. CASE Op(p, id) = "label"
    <3>1. Same(m, k, id) /\ Op(p, id) \notin W
      BY <2>1, <2>6, <1>3 DEF Fed, W
    <3>2. Same(m2, x, id)
      BY <3>1, <2>3, <1>2 DEF Same, Is
    <3> QED BY <3>1, <3>2, <2>1, <2>4, <1>1 DEF Fed
  <2> QED BY <2>2, <2>5, <2>6
<1>6. CASE id # p.insertpos /\ z = o
  <2>1. Nx(q, id) = o /\ o # 0 /\ o \in Ids(p)
    BY <1>6 DEF Inside
  <2>2. Op(p, id) = "call" \/ (id = k /\ Op(p, k) \in Loops)
    BY <1>6 DEF Inside, BlockFacts
  <2>3. m.call[o] = 0 /\ m.loop[o] = 0
    BY DEF Inside, BlockFacts, Is
  <2>4. m2.call[o] = 0 /\ m2.loop[o] = 0
    BY <2>1, <2>3, <1>2
  <2>5. CASE Op(p, id) = "call"
    BY <2>1, <2>4, <2>5, <1>1 DEF Fed, W, Loops
  <2>6. CASE id = k /\ Op(p, k) \in Loops
    <3>1. Is(m2, o, m2.at[id], 0, 0)
      BY <2>4, <2>6, <1>2 DEF Is
    <3>2. Op(p, id) \notin W \cup {"label", "jcc", "movecx", "call"}
      BY <2>6 DEF W, Loops
    <3> QED BY <3>1, <3>2, <2>1, <1>1 DEF Fed
  <2> QED BY <2>2, <2>5, <2>6
<1>7. CASE id # p.insertpos /\ z # o
  <2>1. Nx(q, id) = z /\ z # k
    BY <1>7 DEF Inside, BlockFacts
  <2>2. m2.at[z] = m.at[z] /\ m2.call[z] = m.call[z] /\ m2.loop[z] = m.loop[z]
    BY <2>1, <1>2, <1>4, <1>7
  <2>3. id # k
    <3>1. Op(p, k) \in Loops => Nx(p, k) = o
      BY DEF Inside, BlockFacts
    <3>2. "ret" \notin Falling
      BY DEF Falling, W, Loops
    <3>3. Op(p, k) \in Loops \cup {"ret"}
      BY DEF Inside, BlockFacts
    <3> QED BY <3>1, <3>2, <3>3, <1>7
  <2>4. m2.at[id] = m.at[id] /\ m2.call[id] = m.call[id] /\ m2.loop[id] = m.loop[id]
    BY <2>3, <1>2
  <2>5. ASSUME Op(p, id) = "movecx"
        PROVE  \A j \in 1..Len(h2) : h2[j] = m.loop[z] => m.at[id] =< j
    <3>1. \A j \in 1..Len(h) : h[j] = m.loop[z] => m.at[id] =< j
      BY <2>5, <1>3 DEF Fed
    <3>2. /\ \A j \in 1..Len(h) : h2[j] = h[j]
          /\ \A j \in 1..Len(h2) : j > Len(h) => j = Len(h) + 1
      BY DEF Inside, HomeInside
    <3>3. Len(h) \in Nat /\ Len(h2) \in Nat /\ m.at[id] \in 1..(Len(h) + 1)
      BY InsideNumbers
    <3> TAKE j \in 1..Len(h2)
    <3>4. CASE j \in 1..Len(h)
      BY <3>1, <3>2, <3>4
    <3>5. CASE j > Len(h)
      BY <3>2, <3>3, <3>5
    <3>6. j \in 1..Len(h) \/ j > Len(h)
      BY <3>3
    <3> QED BY <3>4, <3>5, <3>6
  <2> HIDE DEF z
  <2> QED BY <2>1, <2>2, <2>4, <2>5, <1>1, <1>3 DEF Fed, Same, Is
<1> QED BY <1>5, <1>6, <1>7

\* The block keeps its shape.
LEMMA InsideShape ==
  ASSUME NEW p, NEW m, NEW h, NEW bs, NEW o, NEW k, NEW q, NEW x, NEW m2, NEW h2,
         Inside(p, m, h, bs, o, k, q, x, m2, h2), BlockAt(p, m, h, bs, o, k)
  PROVE  BlockAt(q, m2, h2, bs, o, k)
<1>1. /\ \A y \in Ids(p) : m2.call[y] = m.call[y] /\ m2.loop[y] = m.loop[y]
      /\ m2.at[k] = Len(h2) + 1 /\ Ids(q) = Ids(p) \cup {x} /\ x \notin Ids(p) \cup {0}
      /\ k \in Ids(p) /\ o \in Ids(p) /\ k # o /\ Op(p, o) = "label" /\ q.insertpos = x
      /\ q.lock_cx = p.lock_cx /\ Len(bs) # 0 /\ p.insertpos # k /\ Nx(q, p.insertpos) = x
      /\ \A y \in Ids(p) \cup {0} : y # p.insertpos => Nx(q, y) = Nx(p, y)
      /\ Op(q, x) \in W \cup {"raw"}
  BY DEF Inside, Moved, HomeInside, BlockAt, BlockFacts
<1>2. \A id \in Ids(p) : /\ Op(q, id) = Op(p, id)
                         /\ Op(p, id) \in Transfers => To(q, id) = To(p, id) /\ To(p, id) \in Ids(p)
                                                       /\ To(p, id) # k /\ To(p, id) # o
  BY InsideReads
<1>3. Op(q, x) \notin Transfers /\ Op(q, x) \notin Loops \cup {"ret"}
  BY <1>1 DEF W, Transfers, Jumps, Loops
<1>4. \A id \in Ids(p) : Op(p, id) = "ret" => m.call[id] \in Ids(p) /\ m.call[id] # p.insertpos
  <2> TAKE id \in Ids(p)
  <2> HAVE Op(p, id) = "ret"
  <2>1. m.call[id] \in Ids(p) /\ Op(p, m.call[id]) = "call"
    BY InsideReads DEF LocalAt, CallAt
  <2>2. Op(p, p.insertpos) # "call"
    BY DEF Inside, W
  <2> QED BY <2>1, <2>2
<1>5. CASE LoopBlock(p, m, bs, o, k)
  <2>1. /\ Op(p, k) \in Loops /\ m.loop[k] = Len(bs) /\ p.lock_cx = "loop" /\ Nx(p, k) = o
        /\ \A id \in Ids(p) : Op(p, id) \in Loops /\ m.loop[id] = Len(bs) => id = k
        /\ p.insertpos = To(p, k) \/ Filled(p, To(p, k))
        /\ \A id \in Ids(p) : Op(p, id) = "ret" => Nx(p, m.call[id]) # o
    BY <1>5 DEF LoopBlock
  <2>2. To(q, k) = To(p, k) /\ To(p, k) \in Ids(p)
    BY <2>1, <1>1, <1>2 DEF Transfers
  <2>3. Filled(q, To(p, k))
    <3>1. CASE p.insertpos = To(p, k)
      BY <3>1, <1>1 DEF Filled
    <3>2. CASE p.insertpos # To(p, k)
      <4>1. Nx(q, To(p, k)) = Nx(p, To(p, k)) /\ Filled(p, To(p, k))
        BY <3>2, <2>1, <2>2, <1>1
      <4>2. Nx(p, To(p, k)) \in Ids(p)
        <5>1. Nx(p, To(p, k)) \in Ids(p) \cup {0}
          BY <2>2 DEF Inside, Extends
        <5> QED BY <5>1, <4>1 DEF Filled
      <4> QED BY <4>1, <4>2, <1>2 DEF Filled
    <3> QED BY <3>1, <3>2
  <2>4. \A id \in Ids(q) : Op(q, id) \in Loops /\ m2.loop[id] = Len(bs) => id = k
    BY <2>1, <1>1, <1>2, <1>3
  <2>5. \A id \in Ids(q) : Op(q, id) = "ret" => Nx(q, m2.call[id]) # o
    BY <2>1, <1>1, <1>2, <1>3, <1>4
  <2>6. LoopBlock(q, m2, bs, o, k)
    BY <2>1, <2>2, <2>3, <2>4, <2>5, <1>1, <1>2 DEF LoopBlock
  <2> QED BY <2>6, <1>1, <1>2, <1>3 DEF BlockAt
<1>6. CASE CallBlock(p, m, bs, o, k)
  <2>1. /\ Op(p, k) = "ret" /\ Nx(p, m.call[k]) = o /\ bs[Len(bs)].op \notin Loops
        /\ \A id \in Ids(p) : Op(p, id) = "ret" /\ m.call[id] = m.call[k] => id = k
    BY <1>6 DEF CallBlock
  <2>2. CallBlock(q, m2, bs, o, k)
    BY <2>1, <1>1, <1>2, <1>3, <1>4 DEF CallBlock
  <2> QED BY <2>2, <1>1, <1>2, <1>3 DEF BlockAt
<1> QED BY <1>5, <1>6 DEF BlockAt

\* An instruction of the body of a block, or a jump that is left as it is there.
LEMMA ChainInside ==
  ASSUME NEW p, NEW m, NEW h, NEW bs, NEW o, Ring(p), Chain(p, m, h, bs, o),
         BlockShape(p, m, h, bs, o), NEW insn \in PlainInsns, insn.op \in W \cup {"raw"},
         insn.op \in W => insn.arg = Len(h) + 1,
         insn.op = "workcx" /\ ~NamesCX => p.lock_cx # "loop"
  PROVE  LET q  == stat_insert_insn(p, insn, "after")
             h2 == IF insn.op = "raw" THEN h ELSE Append(h, Len(bs))
         IN \E m2 : Chain(q, m2, h2, bs, o) /\ BlockShape(q, m2, h2, bs, o)
<1> DEFINE q == stat_insert_insn(p, insn, "after")
           h2 == IF insn.op = "raw" THEN h ELSE Append(h, Len(bs))
           n == Len(p.code)
           x == n + 1
           k == Nx(p, p.insertpos)
<1>1. /\ Ring(q) /\ Kept(p, q, 1) /\ q.insertpos = n + 1 /\ q.code[n + 1] = insn
      /\ n \in Nat /\ Ids(q) = Ids(p) \cup {n + 1} /\ n + 1 \notin Ids(p) \cup {0}
      /\ Nx(q, p.insertpos) = n + 1 /\ Nx(q, n + 1) = k
      /\ \A y \in Ids(p) \cup {0} : y # p.insertpos => Nx(q, y) = Nx(p, y)
      /\ q.lock_cx = p.lock_cx
  BY PutAfterRing
<1> HIDE DEF q
<1>2. Extends(p, q)
  BY <1>1, KeptExtends
<1>3. x \in Nat
  BY <1>1
<1> HIDE DEF x
<1>4. BlockAt(p, m, h, bs, o, k)
  BY DEF BlockShape
<1>5. BlockFacts(p, m, bs, o, k)
  BY <1>4, BlockHas
<1> HIDE DEF k
<1>6. Known(m, h, bs) /\ m \in Marks /\ Len(h) \in Nat /\ Len(bs) \in Nat /\ Len(bs) \in 0..Len(bs)
  BY DEF Chain, Known
<1>7. /\ Known(m, h2, bs) /\ Len(h2) \in Nat
      /\ Len(h) =< Len(h2) /\ \A j \in 1..Len(h) : h2[j] = h[j]
      /\ \A j \in 1..Len(h2) : j > Len(h) => j = Len(h) + 1 /\ h2[j] = Len(bs)
      /\ insn.op = "raw" => Len(h2) = Len(h)
      /\ insn.op \in W => Len(h2) = Len(h) + 1
  <2>1. CASE insn.op = "raw"
    <3>1. h2 = h /\ insn.op \notin W
      BY <2>1 DEF W
    <3> HIDE DEF h2
    <3> QED BY <3>1, <1>6
  <2>2. CASE insn.op # "raw"
    <3> DEFINE g == Append(h, Len(bs))
    <3>1. h2 = g
      BY <2>2
    <3>2. /\ Known(m, g, bs) /\ Len(g) = Len(h) + 1 /\ g[Len(h) + 1] = Len(bs)
          /\ \A j \in 1..Len(h) : g[j] = h[j]
      BY <1>6, KnownLonger
    <3> HIDE DEF h2, g
    <3> QED BY <3>1, <3>2, <2>2, <1>6
  <2> QED BY <2>1, <2>2
<1> HIDE DEF h2
<1>8. k \in Ids(p) /\ o \in Ids(p) /\ k # o
  BY <1>4 DEF BlockAt
<1>9. PICK m2 : Moved(p, m, k, o, x, Len(h2) + 1, m2)
  <2>1. x \notin Ids(p) /\ Len(h2) + 1 \in Nat
    BY <1>1, <1>7 DEF x
  <2> QED BY <2>1, <1>3, <1>6, <1>8, MovedMarks
<1>10. Known(m2, h2, bs)
  <2>1. m2 \in Marks
    BY <1>9 DEF Moved
  <2> QED BY <2>1, <1>7, KnownSame
<1>11. Op(q, x) = insn.op /\ Arg(q, x) = insn.arg
  BY <1>1 DEF Op, Arg, x
<1>12. HomeInside(p, h, h2, bs, q, x)
  BY <1>7, <1>11 DEF HomeInside
<1>13. /\ p.insertpos \in Ids(p) /\ Op(p, p.insertpos) \in W \cup {"label", "raw"}
       /\ p.insertpos # o /\ Op(p, o) = "label" /\ m.at[k] = Len(h) + 1
       /\ 0 \notin Ids(p)
  BY <1>4, RingClosed DEF BlockAt
<1>14. /\ Nx(p, p.insertpos) = k /\ Nx(q, p.insertpos) = x /\ Nx(q, x) = k /\ q.insertpos = x
       /\ x \notin Ids(p) \cup {0} /\ Ids(q) = Ids(p) \cup {x}
  BY <1>1 DEF k, x
<1>15. Inside(p, m, h, bs, o, k, q, x, m2, h2)
  BY <1>1, <1>2, <1>5, <1>8, <1>9, <1>10, <1>12, <1>13, <1>14 DEF Inside
<1>16. BlockAt(q, m2, h2, bs, o, k)
  BY <1>4, <1>15, InsideShape
<1>17. k \in Ids(p) /\ (Op(p, k) \in Loops => p.insertpos = To(p, k) \/ Filled(p, To(p, k)))
  BY <1>4 DEF BlockAt, LoopBlock, CallBlock, Loops
<1>18. \A id \in Ids(p) : LocalAt(q, m2, h2, bs, id)
  BY <1>15, <1>17, InsideLocal
<1>19. LocalAt(q, m2, h2, bs, x) /\ FlowAt(q, m2, h2, bs, x)
  BY <1>15, InsideNew
<1>20. \A id \in Ids(p) : id # o => FlowAt(q, m2, h2, bs, id)
  BY <1>15, InsideFlow
<1>21. StartOK(q, m2, o)
  <2>1. o # 0 /\ Nx(q, 0) = Nx(p, 0) /\ Nx(p, 0) # k /\ Nx(p, 0) # o
    BY <1>5, <1>8, <1>13, <1>15 DEF Inside, BlockFacts
  <2>2. Nx(p, 0) # 0 /\ Is(m, Nx(p, 0), 1, 0, 0)
    BY <2>1 DEF Chain, StartOK
  <2>3. Nx(p, 0) \in Ids(p)
    BY <2>2, <1>2 DEF Extends
  <2>4. Is(m2, Nx(p, 0), 1, 0, 0)
    BY <2>1, <2>2, <2>3, <1>9 DEF Is, Moved
  <2> QED BY <2>1, <2>2, <2>4 DEF StartOK
<1>22. OpenOK(q, m2, h2, o)
  <2>1. Op(q, o) = "label" /\ o # 0 /\ o \in Ids(q)
    BY <1>8, <1>13, <1>14, <1>15, InsideReads
  <2>2. Is(m2, o, Len(h2) + 1, 0, 0)
    BY <1>5, <1>8, <1>9 DEF Moved, BlockFacts, Is
  <2> QED BY <2>1, <2>2 DEF OpenOK, W
<1>23. Chain(q, m2, h2, bs, o)
  BY <1>10, <1>14, <1>18, <1>19, <1>20, <1>21, <1>22 DEF Chain
<1>24. BlockShape(q, m2, h2, bs, o)
  BY <1>14, <1>16 DEF BlockShape
<1> QED BY <1>23, <1>24 DEF q, h2

-----------------------------------------------------------------------------
(* The order of a generator state, and the steps of the walk.               *)

\* What is generated after the open block, or next, comes behind this entry.
OpenOf(p, l) == IF l # NoBlock THEN LabelPos(p, l) ELSE p.insertpos

\* The program has an order that what comes next fits.
Ordered(p, h, bs, l) ==
  \E m : /\ Chain(p, m, h, bs, OpenOf(p, l))
         /\ l # NoBlock => BlockShape(p, m, h, bs, OpenOf(p, l))

\* An open block has a label; jumps are left alone while it is.
BlockLabel(p, l) ==
  /\ l # NoBlock => l \in 0..(p.labeli - 1)
  /\ p.lock_ctrl = (l # NoBlock)

\* The order is one of the instructions and labels only.
LEMMA ChainSame ==
  ASSUME NEW p, NEW q, NEW m, NEW h, NEW bs, NEW o, SameRing(p, q), Chain(p, m, h, bs, o)
  PROVE  Chain(q, m, h, bs, o)
<1>1. /\ \A id : Op(q, id) = Op(p, id) /\ Arg(q, id) = Arg(p, id) /\ To(q, id) = To(p, id)
      /\ \A id : Nx(q, id) = Nx(p, id)
      /\ Ids(q) = Ids(p) /\ q.labeli = p.labeli
  BY DEF SameRing, Op, Arg, To, Nx, Ids, LabelPos
<1>2. ASSUME NEW id \in Ids(p) PROVE LocalAt(q, m, h, bs, id)
  <2>1. LocalAt(p, m, h, bs, id)
    BY DEF Chain
  <2>2. RangeAt(q, m, h, bs, id) /\ WorkAt(q, m, h, bs, id)
    BY <2>1, <1>1 DEF LocalAt, RangeAt, WorkAt
  <2>3. LoopAt(q, m, h, bs, id)
    BY <2>1, <1>1 DEF LocalAt, LoopAt
  <2>4. CallAt(q, m, id) /\ JumpAt(q, m, id)
    BY <2>1, <1>1 DEF LocalAt, CallAt, JumpAt
  <2> QED BY <2>2, <2>3, <2>4 DEF LocalAt
<1>3. ASSUME NEW id \in Ids(p), id # o PROVE FlowAt(q, m, h, bs, id)
  <2>1. FlowAt(p, m, h, bs, id)
    BY <1>3 DEF Chain
  <2> QED BY <2>1, <1>1 DEF FlowAt, Fed
<1>4. StartOK(q, m, o) /\ OpenOK(q, m, h, o)
  BY <1>1 DEF Chain, StartOK, OpenOK
<1> QED BY <1>1, <1>2, <1>3, <1>4 DEF Chain

\* An instruction of the template, or a jump that is left as it is.
LEMMA OrderedPlain ==
  ASSUME NEW p, NEW h, NEW bs, NEW l, Ring(p), Ordered(p, h, bs, l), BlockLabel(p, l),
         NEW insn \in PlainInsns, insn.op \in W \cup {"raw"}, insn.op \in W => insn.arg = Len(h) + 1,
         insn.op = "workcx" /\ ~NamesCX => p.lock_cx # "loop"
  PROVE  LET q == stat_insert_insn(p, insn, "after")
         IN /\ Ordered(q, IF insn.op = "raw" THEN h
                          ELSE Append(h, IF l # NoBlock THEN Len(bs) ELSE 0), bs, l)
            /\ Ring(q) /\ BlockLabel(q, l)
<1> DEFINE q == stat_insert_insn(p, insn, "after")
           h2 == IF insn.op = "raw" THEN h
                          ELSE Append(h, IF l # NoBlock THEN Len(bs) ELSE 0)
<1>1. Ring(q) /\ Kept(p, q, 1) /\ q.labeli = p.labeli /\ q.lock_ctrl = p.lock_ctrl
  BY PutAfterRing
<1>2. BlockLabel(q, l) /\ (l # NoBlock => OpenOf(q, l) = OpenOf(p, l))
  BY <1>1 DEF BlockLabel, OpenOf, Kept
<1>3. Ordered(q, h2, bs, l)
  <2>1. PICK m : /\ Chain(p, m, h, bs, OpenOf(p, l))
                 /\ l # NoBlock => BlockShape(p, m, h, bs, OpenOf(p, l))
    BY DEF Ordered
  <2>2. CASE l = NoBlock
    <3>1. Grows(p, h, bs, q, IF insn.op = "raw" THEN h ELSE Append(h, 0), bs)
      BY ChainPlain
    <3>2. OpenOf(p, l) = p.insertpos /\ OpenOf(q, l) = q.insertpos
      BY <2>2 DEF OpenOf
    <3>3. h2 = IF insn.op = "raw" THEN h ELSE Append(h, 0)
      BY <2>2
    <3> HIDE DEF q, h2
    <3>4. Grows(p, h, bs, q, h2, bs)
      BY <3>1, <3>3, Zenon
    <3> QED BY <2>1, <2>2, <3>2, <3>4 DEF Ordered, Grows
  <2>3. CASE l # NoBlock
    <3> DEFINE o == OpenOf(p, l)
    <3>1. Chain(p, m, h, bs, o) /\ BlockShape(p, m, h, bs, o)
      BY <2>1, <2>3
    <3> HIDE DEF o
    <3>2. \E m2 : /\ Chain(q, m2, IF insn.op = "raw" THEN h ELSE Append(h, Len(bs)), bs, o)
                  /\ BlockShape(q, m2, IF insn.op = "raw" THEN h ELSE Append(h, Len(bs)), bs, o)
      BY <3>1, ChainInside
    <3>3. h2 = IF insn.op = "raw" THEN h ELSE Append(h, Len(bs))
      BY <2>3
    <3>4. OpenOf(q, l) = o
      BY <1>2, <2>3 DEF o
    <3> HIDE DEF q, h2
    <3>5. \E m2 : Chain(q, m2, h2, bs, o) /\ BlockShape(q, m2, h2, bs, o)
      BY <3>2, <3>3, Zenon
    <3> QED BY <3>4, <3>5 DEF Ordered
  <2> QED BY <2>2, <2>3
<1> QED BY <1>1, <1>2, <1>3

\* A label before an instruction, unless jumps are left alone.
LEMMA OrderedLikely ==
  ASSUME NEW p, NEW h, NEW bs, NEW l, Ring(p), Ordered(p, h, bs, l), BlockLabel(p, l),
         NEW happens \in BOOLEAN
  PROVE  LET q == likely_gen_label(p, happens)
         IN Ring(q) /\ Ordered(q, h, bs, l) /\ BlockLabel(q, l) /\ q.lock_cx = p.lock_cx
<1>1. CASE happens /\ l = NoBlock
  <2> DEFINE q == gen_label(p, "after")
  <2>1. p.lock_ctrl = FALSE
    BY <1>1 DEF BlockLabel
  <2>2. Ring(q) /\ q.lock_ctrl = FALSE /\ q.lock_cx = p.lock_cx
    BY <2>1, LabelAfterRing
  <2>3. Grows(p, h, bs, q, h, bs)
    BY <2>1, ChainLabel
  <2> HIDE DEF q
  <2>4. BlockLabel(q, l)
    BY <1>1, <2>2 DEF BlockLabel
  <2>5. OpenOf(p, l) = p.insertpos /\ OpenOf(q, l) = q.insertpos
    BY <1>1 DEF OpenOf
  <2>6. Ordered(q, h, bs, l)
    BY <1>1, <2>3, <2>5 DEF Ordered, Grows
  <2>7. likely_gen_label(p, happens) = q
    BY <1>1 DEF likely_gen_label, q
  <2> QED BY <2>2, <2>4, <2>6, <2>7
<1>2. CASE ~happens
  BY <1>2 DEF likely_gen_label
<1>3. CASE happens /\ l # NoBlock
  <2>1. p.lock_ctrl = TRUE
    BY <1>3 DEF BlockLabel
  <2> QED BY <2>1 DEF likely_gen_label, gen_label
<1> QED BY <1>1, <1>2, <1>3

\* A jump outside a block.
LEMMA OrderedDivert ==
  ASSUME NEW p, NEW h, NEW bs, Ring(p), Ordered(p, h, bs, NoBlock), BlockLabel(p, NoBlock),
         NEW op \in Jumps, NEW label \in Selectable(p)
  PROVE  LET q == Divert(p, op, label)
         IN Ring(q) /\ Ordered(q, h, bs, NoBlock) /\ BlockLabel(q, NoBlock)
<1> DEFINE q == Divert(p, op, label)
<1>1. p.lock_ctrl = FALSE
  BY DEF BlockLabel
<1>2. Ring(q) /\ q.lock_ctrl = FALSE /\ Grows(p, h, bs, q, h, bs)
  <2>1. CASE label = NoLabel
    <3>1. Grows(p, h, bs, q, h, bs)
      BY <1>1, <2>1, ChainDivertNew
    <3>2. Ring(q) /\ q.lock_ctrl = FALSE
      BY <1>1, <2>1, DivertNewRing
    <3> QED BY <3>1, <3>2
  <2>2. CASE label \in 0..(p.labeli - 1)
    <3>1. Grows(p, h, bs, q, h, bs)
      BY <1>1, <2>2, ChainDivert
    <3>2. PICK e : Diverted(p, op, label, q, e)
      BY <1>1, <2>2, DivertRing
    <3> HIDE DEF q
    <3>3. Ring(q) /\ q.lock_ctrl = FALSE
      BY <3>2 DEF Diverted
    <3> QED BY <3>1, <3>3
  <2> QED BY <2>1, <2>2 DEF Selectable
<1> HIDE DEF q
<1>3. BlockLabel(q, NoBlock)
  BY <1>2 DEF BlockLabel
<1>4. OpenOf(p, NoBlock) = p.insertpos /\ OpenOf(q, NoBlock) = q.insertpos
  BY DEF OpenOf
<1>5. Ordered(q, h, bs, NoBlock)
  BY <1>2, <1>4 DEF Ordered, Grows
<1> QED BY <1>2, <1>3, <1>5 DEF q

\* The beginning of a block.
LEMMA OrderedOpen ==
  ASSUME NEW p, NEW h, NEW bs, Ring(p), Ordered(p, h, bs, NoBlock), BlockLabel(p, NoBlock),
         NEW op \in Loops \cup {"call"}, NEW times \in 1..(CXSize - 1), NEW label
  PROVE  LET q == gen_control_transfer_insn(p, op, times, label)
             r == ReturnedLabel(p, op, label)
         IN /\ Ring(q) /\ BlockLabel(q, r)
            /\ Ordered(q, h, Append(bs, [op |-> op, times |-> IF op \in Loops THEN times ELSE 1]), r)
<1>1. p.lock_ctrl = FALSE /\ OpenOf(p, NoBlock) = p.insertpos
  BY DEF BlockLabel, OpenOf
<1>2. op \notin Jumps
  BY DEF Jumps, Loops
<1>3. PICK m : Chain(p, m, h, bs, p.insertpos)
  BY <1>1 DEF Ordered
<1>4. CASE op \in Loops
  <2> DEFINE q == OpenLoop(p, op, times)
             bs2 == Append(bs, [op |-> op, times |-> times])
             r == p.labeli
  <2>1. op # "call"
    BY <1>4 DEF Loops
  <2>2. gen_control_transfer_insn(p, op, times, label) = q
    BY <1>1, <1>2, <1>4, <2>1, Zenon DEF gen_control_transfer_insn
  <2>3. ReturnedLabel(p, op, label) = r
    BY <1>1, <1>2, <1>4, <2>1, Zenon DEF ReturnedLabel
  <2>4. times \in 0..(CXSize - 1)
    BY ConstantsAssumption
  <2>5. LoopOpened(p, op, times, q)
    BY <1>1, <1>4, <2>4, OpenLoopRing
  <2>6. Opens(p, h, bs, q, bs2, Len(p.code) + 1)
    BY <1>1, <1>4, ChainOpenLoop
  <2>7. bs2 = Append(bs, [op |-> op, times |-> IF op \in Loops THEN times ELSE 1])
    BY <1>4
  <2> HIDE DEF q, bs2
  <2>8. Ring(q) /\ q.lock_ctrl = TRUE /\ r \in 0..(q.labeli - 1) /\ LabelPos(q, r) = Len(p.code) + 1
    BY <2>5 DEF LoopOpened
  <2>9. r # NoBlock
    BY <2>8 DEF NoBlock
  <2>10. BlockLabel(q, r) /\ OpenOf(q, r) = Len(p.code) + 1
    BY <2>8, <2>9 DEF BlockLabel, OpenOf
  <2>11. Ordered(q, h, bs2, r)
    BY <1>3, <2>6, <2>10 DEF Ordered, Opens
  <2> QED BY <2>2, <2>3, <2>7, <2>8, <2>10, <2>11, Zenon
<1>5. CASE op = "call"
  <2> DEFINE q == OpenCall(p)
             bs2 == Append(bs, [op |-> "call", times |-> 1])
             r == p.labeli + 2
  <2>1. op \notin Loops
    BY <1>5 DEF Loops
  <2>2. gen_control_transfer_insn(p, op, times, label) = q
    BY <1>1, <1>2, <1>5, <2>1, Zenon DEF gen_control_transfer_insn
  <2>3. ReturnedLabel(p, op, label) = r
    BY <1>1, <1>2, <1>5, <2>1, Zenon DEF ReturnedLabel
  <2>5. CallOpened(p, q)
    BY <1>1, OpenCallRing
  <2>6. Opens(p, h, bs, q, bs2, Len(p.code) + 6)
    BY <1>1, ChainOpenCall
  <2>7. bs2 = Append(bs, [op |-> op, times |-> IF op \in Loops THEN times ELSE 1])
    BY <1>5, <2>1
  <2> HIDE DEF q, bs2
  <2>8. Ring(q) /\ q.lock_ctrl = TRUE /\ r \in 0..(q.labeli - 1) /\ LabelPos(q, r) = Len(p.code) + 6
    BY <2>5 DEF CallOpened
  <2> HIDE DEF r
  <2>9. r # NoBlock
    BY <2>8 DEF NoBlock
  <2>10. BlockLabel(q, r) /\ OpenOf(q, r) = Len(p.code) + 6
    BY <2>8, <2>9 DEF BlockLabel, OpenOf
  <2>11. Ordered(q, h, bs2, r)
    BY <1>3, <2>6, <2>10 DEF Ordered, Opens
  <2> QED BY <2>2, <2>3, <2>7, <2>8, <2>10, <2>11, Zenon
<1> QED BY <1>4, <1>5

\* The end of a block.
LEMMA OrderedEnd ==
  ASSUME NEW p, NEW h, NEW bs, NEW l, Ring(p), Ordered(p, h, bs, l), BlockLabel(p, l), l # NoBlock
  PROVE  LET q == [update_insert_pos_to_label(p, l) EXCEPT !.lock_ctrl = FALSE]
         IN Ring(q) /\ Ordered(q, h, bs, NoBlock) /\ BlockLabel(q, NoBlock)
<1> DEFINE a == update_insert_pos_to_label(p, l)
           q == [a EXCEPT !.lock_ctrl = FALSE]
<1>1. l \in 0..(p.labeli - 1) /\ Shape(p) /\ Distinct(p.list)
  BY DEF BlockLabel, Ring, Sound
<1>2. Ring(a) /\ SameRing(p, a) /\ a.insertpos = LabelPos(p, l)
  BY <1>1, MoveRing
<1> HIDE DEF a
<1>3. Ring(q) /\ SameRing(a, q) /\ q.insertpos = a.insertpos /\ q.lock_ctrl = FALSE
  BY <1>2, LockRing
<1> HIDE DEF q
<1>4. SameRing(p, q) /\ q.insertpos = LabelPos(p, l)
  BY <1>2, <1>3 DEF SameRing
<1>5. PICK m : Chain(p, m, h, bs, LabelPos(p, l))
  BY DEF Ordered, OpenOf
<1>6. Chain(q, m, h, bs, OpenOf(q, NoBlock))
  BY <1>4, <1>5, ChainSame DEF OpenOf
<1>7. Ordered(q, h, bs, NoBlock) /\ BlockLabel(q, NoBlock)
  BY <1>3, <1>6 DEF Ordered, BlockLabel
<1> QED BY <1>3, <1>7 DEF q, a

-----------------------------------------------------------------------------
(* The walk keeps the order.                                                *)

\* The order while the template is walked.
GenOrder ==
  /\ Distinct(pg.list) /\ Len(home) = used.work /\ BlockLabel(pg, next_label)
  /\ Ordered(pg, home, blocks, next_label)

\* Where a generated program is in the walk, its state is sound.
LEMMA GenRing ==
  ASSUME IInv, BlockOK, GenOrder, phase = "gen"
  PROVE  Ring(pg)
  BY DEF IInv, BlockOK, GenOrder, Ring, Sound

\* An empty program has an order.
LEMMA OrderInit == Init => GenOrder
<1> SUFFICES ASSUME Init PROVE GenOrder
  OBVIOUS
<1> DEFINE zero == [id \in Nat |-> 0]
           m == [at |-> zero, call |-> zero, loop |-> zero]
<1>1. /\ pg.list = << >> /\ pg.code = << >> /\ pg.insertpos = 0 /\ pg.lock_ctrl = FALSE
      /\ home = << >> /\ blocks = << >> /\ next_label = NoBlock /\ used.work = 0
  BY DEF Init, NoEntry
<1>2. zero \in [Nat -> Nat]
  OBVIOUS
<1> HIDE DEF zero
<1>3. m \in Marks
  BY <1>2 DEF Marks
<1> HIDE DEF m
<1>4. Ids(pg) = {} /\ Len(home) = 0 /\ Len(blocks) = 0
  BY <1>1 DEF Ids
<1>5. Known(m, home, blocks)
  <2>1. << >> \in Seq(Nat) /\ << >> \in Seq(BlockRec)
    OBVIOUS
  <2> QED BY <1>1, <1>3, <1>4, <2>1 DEF Known
<1>6. Chain(pg, m, home, blocks, 0)
  BY <1>4, <1>5 DEF Chain, StartOK, OpenOK
<1>7. Distinct(pg.list)
  BY <1>1 DEF Distinct
<1>8. BlockLabel(pg, next_label) /\ OpenOf(pg, next_label) = 0
  BY <1>1 DEF BlockLabel, OpenOf
<1>9. Ordered(pg, home, blocks, next_label)
  BY <1>1, <1>6, <1>8 DEF Ordered
<1> QED BY <1>1, <1>4, <1>7, <1>8, <1>9 DEF GenOrder

\* A template instruction and the label that may come before it.
LEMMA WalkInsnOrder ==
  ASSUME IInv, BlockOK, GenOrder, NEW op \in {"work", "workcx"}, NEW happens \in BOOLEAN,
         WalkInsn(op, happens)
  PROVE  GenOrder'
<1> DEFINE a == likely_gen_label(pg, happens)
           insn == Insn(op, Serial)
           q == stat_insert_insn(a, insn, "after")
           h2 == Append(home, IF next_label # NoBlock THEN Len(blocks) ELSE 0)
<1>1. Ring(pg) /\ used \in Used /\ used.work \in Nat
  BY GenRing DEF WalkInsn, Walking, IInv, Used
<1>2. Ring(a) /\ Ordered(a, home, blocks, next_label) /\ BlockLabel(a, next_label)
      /\ a.lock_cx = pg.lock_cx
  BY <1>1, OrderedLikely DEF GenOrder
<1> HIDE DEF a
<1>3. insn \in PlainInsns /\ insn.op = op /\ insn.arg = Len(home) + 1
  BY <1>1 DEF Insn, Serial, PlainInsns, Insns, Ops, GenOrder
<1>4. op = "workcx" /\ ~NamesCX => a.lock_cx # "loop"
  BY <1>2 DEF WalkInsn
<1> HIDE DEF insn
<1>5. /\ Ordered(q, IF insn.op = "raw" THEN home ELSE h2, blocks, next_label)
      /\ Ring(q) /\ BlockLabel(q, next_label)
  BY <1>2, <1>3, <1>4, OrderedPlain DEF W
<1> HIDE DEF q
<1>6. Ordered(q, h2, blocks, next_label)
  BY <1>3, <1>5
<1>7. pg' = q /\ home' = h2 /\ blocks' = blocks /\ next_label' = next_label
  BY DEF WalkInsn, Note, InBlock, a, insn, q
<1>8. Len(home') = used'.work
  <2>1. home \in Seq(Nat)
    BY DEF GenOrder, Ordered, Chain, Known
  <2>2. Len(home') = Len(home) + 1
    <3>1. (IF next_label # NoBlock THEN Len(blocks) ELSE 0) \in Nat
      BY DEF GenOrder, Ordered, Chain, Known
    <3> QED BY <2>1, <3>1, <1>7, AppendProperties
  <2>3. used'.work = used.work + 1
    <3>1. used' = [used EXCEPT !.work = used.work + 1,
                               !.likely = used.likely + (IF happens THEN 1 ELSE 0)]
      BY Zenon DEF WalkInsn
    <3> QED BY <3>1, <1>1 DEF Used
  <2> QED BY <2>2, <2>3 DEF GenOrder
<1> QED BY <1>5, <1>6, <1>7, <1>8 DEF GenOrder, Ring

\* A check point.
LEMMA WalkCheckOrder ==
  ASSUME IInv, BlockOK, GenOrder, WalkCheck
  PROVE  GenOrder'
<1> DEFINE insn == Insn("check", Serial)
           q == stat_insert_insn(pg, insn, "after")
           h2 == Append(home, IF next_label # NoBlock THEN Len(blocks) ELSE 0)
<1>1. Ring(pg) /\ used \in Used /\ used.work \in Nat
  BY GenRing DEF WalkCheck, Walking, IInv, Used
<1>3. insn \in PlainInsns /\ insn.op = "check" /\ insn.arg = Len(home) + 1
  BY <1>1 DEF Insn, Serial, PlainInsns, Insns, Ops, GenOrder
<1> HIDE DEF insn
<1>5. /\ Ordered(q, IF insn.op = "raw" THEN home ELSE h2, blocks, next_label)
      /\ Ring(q) /\ BlockLabel(q, next_label)
  BY <1>1, <1>3, OrderedPlain DEF W, GenOrder
<1> HIDE DEF q
<1>6. Ordered(q, h2, blocks, next_label)
  BY <1>3, <1>5
<1>7. pg' = q /\ home' = h2 /\ blocks' = blocks /\ next_label' = next_label
  BY DEF WalkCheck, Note, InBlock, insn, q
<1>8. Len(home') = used'.work
  <2>1. home \in Seq(Nat)
    BY DEF GenOrder, Ordered, Chain, Known
  <2>2. Len(home') = Len(home) + 1
    <3>1. (IF next_label # NoBlock THEN Len(blocks) ELSE 0) \in Nat
      BY DEF GenOrder, Ordered, Chain, Known
    <3> QED BY <2>1, <3>1, <1>7, AppendProperties
  <2>3. used'.work = used.work + 1
    <3>1. used' = [used EXCEPT !.work = used.work + 1]
      BY Zenon DEF WalkCheck
    <3> QED BY <3>1, <1>1 DEF Used
  <2> QED BY <2>2, <2>3 DEF GenOrder
<1> QED BY <1>5, <1>6, <1>7, <1>8 DEF GenOrder, Ring

\* A jump written as an element of the template.
LEMMA WalkTransferElemOrder ==
  ASSUME IInv, BlockOK, GenOrder, NEW op \in Jumps, NEW happens \in BOOLEAN, NEW label \in Int,
         WalkTransferElem(op, happens, label)
  PROVE  GenOrder'
<1> DEFINE a == likely_gen_label(pg, happens)
           b == gen_control_transfer_insn(a, op, CXSize - 1, label)
           raw == Insn("raw", 0)
           c == stat_insert_insn(b, raw, "after")
<1>1. Ring(pg) /\ used \in Used /\ used.work \in Nat
  BY GenRing DEF WalkTransferElem, Walking, IInv, Used
<1>2. Ring(a) /\ Ordered(a, home, blocks, next_label) /\ BlockLabel(a, next_label)
      /\ label \in Selectable(a)
  BY <1>1, OrderedLikely DEF GenOrder, WalkTransferElem
<1> HIDE DEF a
<1>3. Ring(b) /\ Ordered(b, home, blocks, next_label) /\ BlockLabel(b, next_label)
  <2>1. CASE next_label # NoBlock
    <3>1. a.lock_ctrl = TRUE
      BY <1>2, <2>1 DEF BlockLabel
    <3>2. b = a
      BY <3>1, Zenon DEF gen_control_transfer_insn
    <3> HIDE DEF b
    <3> QED BY <1>2, <3>2
  <2>2. CASE next_label = NoBlock
    <3>1. a.lock_ctrl = FALSE
      BY <1>2, <2>2 DEF BlockLabel
    <3>2. b = Divert(a, op, label)
      <4>1. op \notin Loops /\ op # "call"
        BY DEF Jumps, Loops
      <4> QED BY <3>1, <4>1, Zenon DEF gen_control_transfer_insn
    <3> HIDE DEF b
    <3> QED BY <1>2, <2>2, <3>2, OrderedDivert
  <2> QED BY <2>1, <2>2
<1> HIDE DEF b
<1>4. raw \in PlainInsns /\ raw.op = "raw"
  BY DEF Insn, PlainInsns, Insns, Ops
<1> HIDE DEF raw
<1>5. Ring(c) /\ Ordered(c, home, blocks, next_label) /\ BlockLabel(c, next_label)
  <2>1. /\ Ordered(c, IF raw.op = "raw" THEN home
                      ELSE Append(home, IF next_label # NoBlock THEN Len(blocks) ELSE 0),
                   blocks, next_label)
        /\ Ring(c) /\ BlockLabel(c, next_label)
    BY <1>3, <1>4, OrderedPlain DEF W
  <2> HIDE DEF c
  <2> QED BY <2>1, <1>4
<1> HIDE DEF c
<1>7. /\ pg' = b \/ pg' = c
      /\ home' = home /\ blocks' = blocks /\ next_label' = next_label
  BY DEF WalkTransferElem, a, b, c, raw
<1>8. used'.work = used.work
  <2>1. used' = [used EXCEPT !.transfer = used.transfer + 1,
                             !.likely = used.likely + (IF happens THEN 1 ELSE 0)]
    BY Zenon DEF WalkTransferElem
  <2> QED BY <2>1, <1>1 DEF Used
<1> QED BY <1>3, <1>5, <1>7, <1>8 DEF GenOrder, Ring

\* The beginning of a transfer block.
LEMMA BeginTransferOrder ==
  ASSUME IInv, BlockOK, GenOrder, NEW op \in Loops \cup {"call"}, NEW times \in 1..(CXSize - 1),
         NEW label, BeginTransfer(op, times, label)
  PROVE  GenOrder'
<1> DEFINE q == gen_control_transfer_insn(pg, op, times, label)
           r == ReturnedLabel(pg, op, label)
           bs2 == Append(blocks, [op |-> op, times |-> IF op \in Loops THEN times ELSE 1])
<1>1. Ring(pg) /\ used \in Used
  BY GenRing DEF BeginTransfer, Walking, IInv
<1>2. next_label = NoBlock
  BY DEF BeginTransfer, InBlock
<1>3. Ring(q) /\ BlockLabel(q, r) /\ Ordered(q, home, bs2, r)
  BY <1>1, <1>2, OrderedOpen DEF GenOrder
<1> HIDE DEF q, r, bs2
<1>4. pg' = q /\ next_label' = r /\ blocks' = bs2 /\ home' = home
  BY DEF BeginTransfer, q, r, bs2
<1>5. used'.work = used.work
  <2>1. used' = [used EXCEPT !.transfer = used.transfer + 2]
    BY Zenon DEF BeginTransfer
  <2> QED BY <2>1, <1>1 DEF Used
<1> QED BY <1>3, <1>4, <1>5 DEF GenOrder, Ring

\* The end of a transfer block.
LEMMA EndTransferOrder ==
  ASSUME IInv, BlockOK, GenOrder, EndTransfer
  PROVE  GenOrder'
<1> DEFINE q == [update_insert_pos_to_label(pg, next_label) EXCEPT !.lock_ctrl = FALSE]
<1>1. Ring(pg) /\ next_label # NoBlock
  BY GenRing DEF EndTransfer, Walking, InBlock
<1>2. Ring(q) /\ Ordered(q, home, blocks, NoBlock) /\ BlockLabel(q, NoBlock)
  BY <1>1, OrderedEnd DEF GenOrder
<1> HIDE DEF q
<1>3. /\ pg' = q /\ next_label' = NoBlock
      /\ home' = home /\ blocks' = blocks /\ used' = used
  BY DEF EndTransfer, q
<1> QED BY <1>2, <1>3 DEF GenOrder, Ring

-----------------------------------------------------------------------------
(* How often a number is in a trace.                                        *)

\* How often n is in the trace.
Ran(tr, n) == Cardinality({i \in 1..Len(tr) : tr[i] = n})

\* A number is counted once more where it is appended.
LEMMA RanAppend ==
  ASSUME NEW S, NEW tr \in Seq(S), NEW a \in S, NEW n
  PROVE  /\ Ran(tr, n) \in Nat
         /\ Ran(Append(tr, a), n) = IF n = a THEN Ran(tr, n) + 1 ELSE Ran(tr, n)
<1> DEFINE k == Len(tr)
           t2 == Append(tr, a)
           A == {i \in 1..k : tr[i] = n}
           B == {i \in 1..Len(t2) : t2[i] = n}
<1>1. k \in Nat /\ Len(t2) = k + 1 /\ t2[k + 1] = a /\ \A i \in 1..k : t2[i] = tr[i]
  BY LenProperties, AppendProperties
<1> HIDE DEF t2, k
<1>2. IsFiniteSet(A) /\ Cardinality(A) \in Nat
  <2>1. IsFiniteSet(1..k)
    <3>1. 1 \in Int /\ k \in Int
      BY <1>1
    <3> QED BY <3>1, FS_Interval
  <2>2. A \subseteq 1..k
    OBVIOUS
  <2> HIDE DEF A
  <2> QED BY <2>1, <2>2, FS_Subset, FS_CardinalityType
<1>3. B = IF n = a THEN A \cup {k + 1} ELSE A
  BY <1>1
<1>4. k + 1 \notin A
  BY <1>1
<1> HIDE DEF A, B
<1>5. Cardinality(B) = IF n = a THEN Cardinality(A) + 1 ELSE Cardinality(A)
  BY <1>2, <1>3, <1>4, FS_AddElement
<1> QED BY <1>2, <1>5 DEF Ran, A, B, t2, k

\* Nothing is counted in the empty trace.
LEMMA RanEmpty ==
  ASSUME NEW n
  PROVE  Ran(<< >>, n) = 0
<1>1. {i \in 1..Len(<< >>) : << >>[i] = n} = {}
  OBVIOUS
<1> QED BY <1>1, FS_EmptySet DEF Ran

-----------------------------------------------------------------------------
(* Executing a program that has an order.                                   *)

\* The finished program: everything leads on to its last label.
Program(p, m, h, bs) ==
  /\ Ring(p) /\ Len(p.code) \in Ids(p) /\ Chain(p, m, h, bs, Len(p.code))
  /\ Nx(p, Len(p.code)) = 0 /\ Op(p, Len(p.code)) = "label"

\* b may be executed after a.
Follows(h, bs, a, b) ==
  \/ b = a + 1
  \/ /\ h[a] # 0 /\ h[b] = h[a] /\ bs[h[a]].op \in Loops
     /\ \A k \in 1..Len(h) : h[k] = h[a] => b =< k /\ k =< a

\* A trace in order.
Traced(h, bs, tr) ==
  /\ tr \in Seq(1..Len(h))
  /\ tr # << >> => tr[1] = 1
  /\ \A i \in 2..Len(tr) : Follows(h, bs, tr[i - 1], tr[i])

\* What the instruction i is going to execute may come behind the trace.
Expect(p, m, h, bs, i, tr) ==
  \/ tr = << >> /\ m.at[i] = 1
  \/ tr # << >> /\ m.at[i] = tr[Len(tr)] + 1
  \/ /\ tr # << >> /\ Follows(h, bs, tr[Len(tr)], m.at[i])
     /\ \/ Op(p, i) \in W \cup {"raw"}
        \/ Op(p, i) = "label" /\ Nx(p, i) # 0 /\ Op(p, Nx(p, i)) \in W \cup {"raw"}

\* n has been executed as often as it is to be.
Full(h, bs, tr, n) ==
  /\ h[n] = 0 => Ran(tr, n) = 1
  /\ h[n] # 0 => IF bs[h[n]].op = "loopcc" THEN Ran(tr, n) \in 1..bs[h[n]].times
                                           ELSE Ran(tr, n) = bs[h[n]].times

\* In a loop block, ECX says how often its body was executed.
Counted(m, h, bs, i, cx, tr) ==
  /\ m.loop[i] # 0 => cx \in 1..bs[m.loop[i]].times
  /\ \A n \in 1..Len(h) : m.loop[i] = 0 \/ h[n] # m.loop[i] =>
       /\ n < m.at[i] => Full(h, bs, tr, n)
       /\ m.at[i] =< n => Ran(tr, n) = 0
  /\ \A n \in 1..Len(h) : m.loop[i] # 0 /\ h[n] = m.loop[i] =>
       /\ n < m.at[i] => Ran(tr, n) = bs[m.loop[i]].times - cx + 1
       /\ m.at[i] =< n => Ran(tr, n) = bs[m.loop[i]].times - cx

\* The stack that the mark of an instruction says.
StackAt(p, m, i) == IF m.call[i] = 0 THEN << >> ELSE << Nx(p, m.call[i]) >>

\* The program is at instruction i.
Running(p, m, h, bs, i, cx, st, tr) ==
  /\ i \in Ids(p) /\ st = StackAt(p, m, i)
  /\ Expect(p, m, h, bs, i, tr) /\ Traced(h, bs, tr)
  /\ ~NamesCX => Counted(m, h, bs, i, cx, tr)

\* The program is behind its last instruction.
Ended(h, bs, st, tr) ==
  /\ st = << >> /\ Traced(h, bs, tr)
  /\ ~NamesCX => \A n \in 1..Len(h) : Full(h, bs, tr, n)

\* What a program says of its instructions.
LEMMA ProgramAt ==
  ASSUME NEW p, NEW m, NEW h, NEW bs, Program(p, m, h, bs), NEW i \in Ids(p)
  PROVE  /\ LocalAt(p, m, h, bs, i)
         /\ Nx(p, i) = 0 => i = Len(p.code) /\ Is(m, i, Len(h) + 1, 0, 0) /\ Op(p, i) = "label"
         /\ Nx(p, i) # 0 => Nx(p, i) \in Ids(p) /\ FlowAt(p, m, h, bs, i)
         /\ Known(m, h, bs) /\ i \in Nat /\ m.at[i] \in 1..(Len(h) + 1) /\ m.loop[i] \in 0..Len(bs)
         /\ m.call[i] \in Nat
<1> DEFINE e == Len(p.code)
<1>1. /\ e \in Ids(p) /\ Chain(p, m, h, bs, e) /\ Nx(p, e) = 0 /\ Op(p, e) = "label" /\ Ring(p)
  BY DEF Program
<1>2. /\ \A y \in Ids(p) \cup {0} : Nx(p, y) \in Ids(p) \cup {0}
      /\ \A y, z \in Ids(p) \cup {0} : Nx(p, y) = Nx(p, z) => y = z
      /\ 0 \notin Ids(p)
  BY <1>1, RingClosed
<1>3. LocalAt(p, m, h, bs, i) /\ (i # e => FlowAt(p, m, h, bs, i)) /\ Known(m, h, bs)
  BY <1>1 DEF Chain
<1>4. Is(m, e, Len(h) + 1, 0, 0)
  BY <1>1, <1>2 DEF Chain, OpenOK
<1>5. i \in Nat
  BY DEF Ids
<1>6. m.call[i] \in Nat
  BY <1>3, <1>5 DEF Known, Marks
<1>7. m.at[i] \in 1..(Len(h) + 1) /\ m.loop[i] \in 0..Len(bs)
  BY <1>3 DEF LocalAt, RangeAt
<1> HIDE DEF e
<1>8. Nx(p, i) = 0 => i = e
  BY <1>1, <1>2
<1>9. Nx(p, i) # 0 => i # e /\ Nx(p, i) \in Ids(p)
  BY <1>1, <1>2
<1> QED BY <1>1, <1>3, <1>4, <1>5, <1>6, <1>7, <1>8, <1>9 DEF e

\* What comes behind an instruction in the trace.
LEMMA ExpectTraced ==
  ASSUME NEW p, NEW m, NEW h, NEW bs, NEW i, NEW tr, Expect(p, m, h, bs, i, tr), Traced(h, bs, tr),
         Len(h) \in Nat, m.at[i] \in 1..Len(h)
  PROVE  /\ Traced(h, bs, Append(tr, m.at[i]))
         /\ Append(tr, m.at[i]) # << >>
         /\ Append(tr, m.at[i])[Len(Append(tr, m.at[i]))] = m.at[i]
<1> DEFINE a == m.at[i]
           k == Len(tr)
           t2 == Append(tr, a)
<1>1. tr \in Seq(1..Len(h)) /\ a \in 1..Len(h)
  BY DEF Traced
<1>2. /\ k \in Nat /\ Len(t2) = k + 1 /\ t2[k + 1] = a /\ t2 \in Seq(1..Len(h))
      /\ \A j \in 1..k : t2[j] = tr[j]
  BY <1>1, LenProperties, AppendProperties
<1>3. k = 0 => tr = << >>
  BY <1>1, EmptySeq
<1>4. tr = << >> => k = 0
  OBVIOUS
<1>5. t2 # << >>
  BY <1>2
<1>6. tr = << >> => a = 1
  BY DEF Expect
<1>7. tr # << >> => Follows(h, bs, tr[k], a)
  BY DEF Expect, Follows
<1>8. (tr # << >> => tr[1] = 1) /\ \A j \in 2..k : Follows(h, bs, tr[j - 1], tr[j])
  BY DEF Traced
<1> HIDE DEF t2, k, a
<1>9. t2[1] = 1
  BY <1>2, <1>3, <1>4, <1>6, <1>8
<1>10. ASSUME NEW j \in 2..(k + 1) PROVE Follows(h, bs, t2[j - 1], t2[j])
  <2>1. CASE j = k + 1
    <3>1. k # 0 /\ j - 1 = k /\ k \in 1..k
      BY <1>2, <2>1
    <3> QED BY <3>1, <2>1, <1>2, <1>4, <1>7
  <2>2. CASE j # k + 1
    <3>1. j \in 2..k /\ j \in 1..k /\ j - 1 \in 1..k
      BY <1>2, <2>2
    <3> QED BY <3>1, <1>2, <1>8
  <2> QED BY <2>1, <2>2
<1>11. Traced(h, bs, t2)
  BY <1>2, <1>9, <1>10 DEF Traced
<1> QED BY <1>2, <1>5, <1>11 DEF t2, a

\* At an instruction that is marked the same way.
LEMMA RunSame ==
  ASSUME NEW p, NEW m, NEW h, NEW bs, Program(p, m, h, bs), NEW i, NEW cx, NEW st, NEW tr,
         Running(p, m, h, bs, i, cx, st, tr), NEW z \in Ids(p), Same(m, z, i),
         Op(p, i) \notin W \cup {"raw"}, Op(p, i) = "label" => z = Nx(p, i)
  PROVE  Running(p, m, h, bs, z, cx, st, tr)
<1>1. m.at[z] = m.at[i] /\ m.call[z] = m.call[i] /\ m.loop[z] = m.loop[i]
  BY DEF Same, Is
<1>2. Expect(p, m, h, bs, z, tr)
  BY <1>1 DEF Running, Expect
<1>3. StackAt(p, m, z) = StackAt(p, m, i)
  BY <1>1 DEF StackAt
<1>4. ~NamesCX => Counted(m, h, bs, z, cx, tr)
  <2> SUFFICES ASSUME ~NamesCX PROVE Counted(m, h, bs, z, cx, tr)
    OBVIOUS
  <2>1. Counted(m, h, bs, i, cx, tr)
    BY DEF Running
  <2> QED BY <1>1, <2>1 DEF Counted
<1> QED BY <1>2, <1>3, <1>4 DEF Running

\* A label or a jump.
LEMMA RunOver ==
  ASSUME NEW p, NEW m, NEW h, NEW bs, Program(p, m, h, bs), NEW i, NEW cx, NEW st, NEW tr,
         Running(p, m, h, bs, i, cx, st, tr)
  PROVE  /\ Op(p, i) \in {"label", "jcc"} /\ Nx(p, i) # 0 =>
              Running(p, m, h, bs, Nx(p, i), cx, st, tr)
         /\ Op(p, i) \in Jumps => Running(p, m, h, bs, To(p, i), cx, st, tr)
<1>1. i \in Ids(p)
  BY DEF Running
<1>2. LocalAt(p, m, h, bs, i) /\ (Nx(p, i) # 0 => Nx(p, i) \in Ids(p) /\ FlowAt(p, m, h, bs, i))
  BY <1>1, ProgramAt
<1>3. ASSUME Op(p, i) \in {"label", "jcc"}, Nx(p, i) # 0
      PROVE  Running(p, m, h, bs, Nx(p, i), cx, st, tr)
  <2>1. Same(m, Nx(p, i), i) /\ Nx(p, i) \in Ids(p)
    BY <1>2, <1>3 DEF FlowAt, Fed, Falling
  <2>2. Op(p, i) \notin W \cup {"raw"}
    BY <1>3 DEF W
  <2> QED BY <2>1, <2>2, RunSame
<1>4. ASSUME Op(p, i) \in Jumps
      PROVE  Running(p, m, h, bs, To(p, i), cx, st, tr)
  <2>1. Op(p, i) \in {"jmp", "jcc"} /\ Op(p, i) \notin W \cup {"raw", "label"} /\ Op(p, i) \in Transfers
    BY <1>4 DEF Jumps, W, Transfers
  <2>2. Same(m, To(p, i), i) /\ To(p, i) \in Ids(p)
    BY <1>2, <2>1 DEF LocalAt, JumpAt, RangeAt
  <2> QED BY <2>1, <2>2, RunSame
<1> QED BY <1>3, <1>4

\* The counts after one more execution of the number the program is at.
LEMMA CountWork ==
  ASSUME NEW m, NEW h, NEW bs, NEW i, NEW z, NEW cx, NEW cx2, NEW tr,
         Known(m, h, bs), m.at[i] \in 1..Len(h), m.loop[i] \in 0..Len(bs),
         Is(m, z, m.at[i] + 1, m.call[i], m.loop[i]),
         tr \in Seq(1..Len(h)), Counted(m, h, bs, i, cx, tr),
         m.loop[i] # 0 => h[m.at[i]] = m.loop[i] /\ cx2 = cx,
         m.loop[i] = 0 => h[m.at[i]] = 0 \/ bs[h[m.at[i]]].op \notin Loops
  PROVE  Counted(m, h, bs, z, cx2, Append(tr, m.at[i]))
<1> DEFINE a == m.at[i]
           L == m.loop[i]
           t2 == Append(tr, a)
<1>1. a \in Nat /\ a \in 1..Len(h) /\ L \in 0..Len(bs) /\ Len(h) \in Nat /\ Len(bs) \in Nat
      /\ (\A k \in 1..Len(h) : h[k] \in 0..Len(bs)) /\ (\A b \in 1..Len(bs) : bs[b] \in BlockRec)
  BY DEF Known
<1>2. m.at[z] = a + 1 /\ m.loop[z] = L
  BY DEF Is
<1>3. \A n : Ran(tr, n) \in Nat /\ Ran(t2, n) = IF n = a THEN Ran(tr, n) + 1 ELSE Ran(tr, n)
  BY <1>1, RanAppend
<1>4. /\ L # 0 => cx \in 1..bs[L].times
      /\ \A n \in 1..Len(h) : L = 0 \/ h[n] # L =>
            /\ n < a => Full(h, bs, tr, n)
            /\ a =< n => Ran(tr, n) = 0
      /\ \A n \in 1..Len(h) : L # 0 /\ h[n] = L =>
            /\ n < a => Ran(tr, n) = bs[L].times - cx + 1
            /\ a =< n => Ran(tr, n) = bs[L].times - cx
  BY DEF Counted
<1>5. (L # 0 => h[a] = L /\ cx2 = cx) /\ (L = 0 => h[a] = 0 \/ bs[h[a]].op \notin Loops)
  OBVIOUS
<1>6. L # 0 => bs[L].times \in Nat
  BY <1>1 DEF BlockRec
<1> HIDE DEF a, L, t2
<1>7. ASSUME NEW n \in 1..Len(h), n # a, Full(h, bs, tr, n)
      PROVE  Full(h, bs, t2, n)
  BY <1>3, <1>7 DEF Full
<1>8. ASSUME L = 0
      PROVE  Full(h, bs, t2, a)
  <2>1. Ran(tr, a) = 0
    BY <1>1, <1>4, <1>8
  <2>2. Ran(t2, a) = 1
    BY <1>3, <2>1
  <2>3. h[a] # 0 => bs[h[a]].times = 1 /\ bs[h[a]].op # "loopcc"
    <3> SUFFICES ASSUME h[a] # 0 PROVE bs[h[a]].times = 1 /\ bs[h[a]].op # "loopcc"
      OBVIOUS
    <3>1. bs[h[a]].op \notin Loops /\ bs[h[a]] \in BlockRec
      BY <1>1, <1>5, <1>8
    <3> QED BY <3>1 DEF BlockRec, Loops
  <2> QED BY <2>2, <2>3 DEF Full
<1>9. ASSUME NEW n \in 1..Len(h), L = 0 \/ h[n] # L
      PROVE  /\ n < a + 1 => Full(h, bs, t2, n)
             /\ a + 1 =< n => Ran(t2, n) = 0
  <2>1. CASE n = a
    <3>1. L = 0
      BY <1>5, <1>9, <2>1
    <3>2. ~(a + 1 =< n)
      BY <1>1, <2>1
    <3> QED BY <3>1, <3>2, <1>8, <2>1
  <2>2. CASE n # a
    <3>1. (n < a + 1 => n < a) /\ (a + 1 =< n => a =< n)
      BY <1>1, <2>2
    <3>2. Ran(t2, n) = Ran(tr, n)
      BY <1>3, <2>2
    <3> QED BY <3>1, <3>2, <1>4, <1>7, <1>9, <2>2
  <2> QED BY <2>1, <2>2
<1>10. ASSUME NEW n \in 1..Len(h), L # 0, h[n] = L
       PROVE  /\ n < a + 1 => Ran(t2, n) = bs[L].times - cx + 1
              /\ a + 1 =< n => Ran(t2, n) = bs[L].times - cx
  <2> DEFINE d == bs[L].times - cx
  <2>1. d \in Int
    BY <1>4, <1>6, <1>10
  <2>2. (n < a => Ran(tr, n) = d + 1) /\ (a =< n => Ran(tr, n) = d)
    BY <1>4, <1>10
  <2> HIDE DEF d
  <2>3. CASE n = a
    <3>1. Ran(t2, n) = d + 1 /\ ~(a + 1 =< n)
      BY <1>1, <1>3, <2>1, <2>2, <2>3
    <3> QED BY <3>1 DEF d
  <2>4. CASE n # a
    <3>1. (n < a + 1 => n < a) /\ (a + 1 =< n => a =< n) /\ Ran(t2, n) = Ran(tr, n)
      BY <1>1, <1>3, <2>4
    <3> QED BY <3>1, <2>2 DEF d
  <2> QED BY <2>3, <2>4
<1>11. L # 0 => cx2 \in 1..bs[L].times
  BY <1>4, <1>5
<1>12. \A n \in 1..Len(h) : L # 0 /\ h[n] = L =>
         /\ n < a + 1 => Ran(t2, n) = bs[L].times - cx2 + 1
         /\ a + 1 =< n => Ran(t2, n) = bs[L].times - cx2
  BY <1>5, <1>10
<1>13. Counted(m, h, bs, z, cx2, t2)
  BY <1>2, <1>9, <1>11, <1>12 DEF Counted
<1> QED BY <1>13 DEF a, t2

\* A generated instruction.
LEMMA RunWork ==
  ASSUME NEW p, NEW m, NEW h, NEW bs, Program(p, m, h, bs), NEW i, NEW cx, NEW st, NEW tr,
         Running(p, m, h, bs, i, cx, st, tr), Op(p, i) \in W,
         NEW cx2, Op(p, i) # "workcx" => cx2 = cx
  PROVE  /\ Nx(p, i) # 0
         /\ Running(p, m, h, bs, Nx(p, i), cx2, st, Append(tr, Arg(p, i)))
<1> DEFINE z == Nx(p, i)
           t2 == Append(tr, Arg(p, i))
<1>1. i \in Ids(p) /\ Traced(h, bs, tr) /\ Expect(p, m, h, bs, i, tr)
  BY DEF Running
<1>2. /\ LocalAt(p, m, h, bs, i) /\ Known(m, h, bs) /\ m.loop[i] \in 0..Len(bs)
      /\ z # 0 => z \in Ids(p) /\ FlowAt(p, m, h, bs, i)
  BY <1>1, ProgramAt
<1>3. z # 0
  <2>1. Op(p, i) # "label"
    BY DEF W
  <2> QED BY <1>1, <2>1, ProgramAt
<1>4. z \in Ids(p) /\ Is(m, z, m.at[i] + 1, m.call[i], m.loop[i])
  BY <1>2, <1>3 DEF FlowAt, Fed, Falling
<1>5. /\ m.at[i] = Arg(p, i) /\ m.at[i] \in 1..Len(h)
      /\ m.loop[i] # 0 => h[m.at[i]] = m.loop[i]
      /\ m.loop[i] = 0 => h[m.at[i]] = 0 \/ bs[h[m.at[i]]].op \notin Loops
      /\ Op(p, i) = "workcx" /\ ~NamesCX => m.loop[i] = 0
  BY <1>2 DEF LocalAt, WorkAt
<1>6. Len(h) \in Nat
  BY <1>2 DEF Known
<1> HIDE DEF z
<1>7. Traced(h, bs, t2) /\ t2 # << >> /\ t2[Len(t2)] = m.at[i]
  BY <1>1, <1>5, <1>6, ExpectTraced
<1> HIDE DEF t2
<1>8. Expect(p, m, h, bs, z, t2)
  BY <1>4, <1>7 DEF Expect, Is
<1>9. st = StackAt(p, m, z)
  BY <1>4 DEF Running, StackAt, Is
<1>10. ASSUME ~NamesCX PROVE Counted(m, h, bs, z, cx2, t2)
  <2>1. Counted(m, h, bs, i, cx, tr)
    BY <1>10 DEF Running
  <2>2. m.loop[i] # 0 => cx2 = cx
    BY <1>5, <1>10
  <2>3. tr \in Seq(1..Len(h))
    BY <1>1 DEF Traced
  <2>4. Counted(m, h, bs, z, cx2, Append(tr, m.at[i]))
    BY <1>2, <1>4, <1>5, <2>1, <2>2, <2>3, CountWork
  <2> QED BY <2>4, <1>5 DEF t2
<1>11. Running(p, m, h, bs, z, cx2, st, t2)
  BY <1>4, <1>7, <1>8, <1>9, <1>10 DEF Running
<1> QED BY <1>3, <1>11 DEF z, t2

\* The mov ecx before a loop.
LEMMA RunLoad ==
  ASSUME NEW p, NEW m, NEW h, NEW bs, Program(p, m, h, bs), NEW i, NEW cx, NEW st, NEW tr,
         Running(p, m, h, bs, i, cx, st, tr), Op(p, i) = "movecx"
  PROVE  /\ Nx(p, i) # 0
         /\ Running(p, m, h, bs, Nx(p, i), Arg(p, i), st, tr)
<1> DEFINE z == Nx(p, i)
<1>1. i \in Ids(p) /\ Traced(h, bs, tr) /\ Expect(p, m, h, bs, i, tr)
  BY DEF Running
<1>2. /\ LocalAt(p, m, h, bs, i) /\ Known(m, h, bs)
      /\ z # 0 => z \in Ids(p) /\ FlowAt(p, m, h, bs, i)
      /\ z # 0 /\ m.at[i] \in Nat
  BY <1>1, ProgramAt
<1>3. /\ z \in Ids(p) /\ m.at[z] = m.at[i] /\ m.call[z] = 0
      /\ m.loop[z] \in 1..Len(bs) /\ bs[m.loop[z]].op \in Loops
      /\ bs[m.loop[z]].times = Arg(p, i)
      /\ \A k \in 1..Len(h) : h[k] = m.loop[z] => m.at[i] =< k
  BY <1>2 DEF FlowAt, Fed, Falling
<1>4. m.call[i] = 0 /\ m.loop[i] = 0
  BY <1>2 DEF LocalAt, JumpAt
<1> HIDE DEF z
<1>5. Expect(p, m, h, bs, z, tr)
  BY <1>1, <1>3 DEF Expect, W
<1>6. st = StackAt(p, m, z)
  BY <1>3, <1>4 DEF Running, StackAt
<1>7. ASSUME ~NamesCX PROVE Counted(m, h, bs, z, Arg(p, i), tr)
  <2> DEFINE a == m.at[i]
             L == m.loop[z]
  <2>1. \A n \in 1..Len(h) : /\ n < a => Full(h, bs, tr, n)
                             /\ a =< n => Ran(tr, n) = 0
    BY <1>4, <1>7 DEF Running, Counted
  <2>2. L \in 1..Len(bs) /\ bs[L].times = Arg(p, i) /\ \A k \in 1..Len(h) : h[k] = L => a =< k
    BY <1>3
  <2>3. bs[L].times \in Nat /\ bs[L].times # 0 /\ L # 0
    BY <1>2, <2>2 DEF Known, BlockRec
  <2>4. m.at[z] = a /\ m.loop[z] = L /\ a \in Nat
    BY <1>2, <1>3
  <2>5. Len(h) \in Nat
    BY <1>2 DEF Known
  <2> HIDE DEF a, L
  <2>6. Arg(p, i) \in 1..bs[L].times
    BY <2>2, <2>3
  <2>7. ASSUME NEW n \in 1..Len(h), h[n] = L
        PROVE  /\ ~(n < a)
               /\ a =< n => Ran(tr, n) = bs[L].times - Arg(p, i)
    <3>1. a =< n /\ n \in Nat
      BY <2>2, <2>5, <2>7
    <3>2. Ran(tr, n) = 0
      BY <2>1, <3>1
    <3>3. bs[L].times - Arg(p, i) = 0
      BY <2>2, <2>3
    <3> QED BY <3>1, <3>2, <3>3, <2>4
  <2> QED BY <2>1, <2>4, <2>6, <2>7 DEF Counted
<1>8. Running(p, m, h, bs, z, Arg(p, i), st, tr)
  BY <1>1, <1>3, <1>5, <1>6, <1>7 DEF Running
<1> QED BY <1>2, <1>8 DEF z

\* The end of the body of loop block b, whose body is what was generated from s on and before e.
AtLoopEnd(h, bs, b, op, s, e, cx, tr) ==
  /\ b # 0 /\ bs[b].times \in 1..(CXSize - 1) /\ bs[b].op = op
  /\ cx \in 1..bs[b].times /\ s =< e
  /\ \A n \in 1..Len(h) : h[n] = b => /\ Ran(tr, n) = bs[b].times - cx + 1
                                      /\ s =< n /\ n < e
  /\ \A n \in 1..Len(h) : h[n] # b => /\ n < e => Full(h, bs, tr, n) /\ n < s
                                      /\ e =< n => Ran(tr, n) = 0 /\ s =< n

\* What holds at the end of a loop's body, of the body and of the counts.
LEMMA LoopCounts ==
  ASSUME NEW p, NEW m, NEW h, NEW bs, Known(m, h, bs), NEW i, NEW cx, NEW tr,
         Op(p, i) \in Loops, LoopAt(p, m, h, bs, i), Counted(m, h, bs, i, cx, tr),
         m.at[i] \in Nat, m.at[To(p, i)] \in Nat
  PROVE  AtLoopEnd(h, bs, m.loop[i], Op(p, i), m.at[To(p, i)], m.at[i], cx, tr)
<1> DEFINE L == m.loop[i]
           s == m.at[To(p, i)]
           e == m.at[i]
<1>1. /\ L \in 1..Len(bs) /\ bs[L].op = Op(p, i) /\ s =< e
      /\ \A k \in 1..Len(h) : h[k] = L <=> s =< k /\ k < e
  BY DEF LoopAt
<1>2. /\ L # 0 => cx \in 1..bs[L].times
      /\ \A n \in 1..Len(h) : L = 0 \/ h[n] # L =>
            /\ n < e => Full(h, bs, tr, n)
            /\ e =< n => Ran(tr, n) = 0
      /\ \A n \in 1..Len(h) : L # 0 /\ h[n] = L =>
            /\ n < e => Ran(tr, n) = bs[L].times - cx + 1
            /\ e =< n => Ran(tr, n) = bs[L].times - cx
  BY DEF Counted
<1>3. e \in Nat /\ s \in Nat /\ Len(h) \in Nat /\ Len(bs) \in Nat /\ bs[L] \in BlockRec
  BY <1>1 DEF Known
<1> HIDE DEF L, s, e
<1>4. L # 0 /\ bs[L].times \in 1..(CXSize - 1)
  BY <1>1, <1>3 DEF BlockRec
<1>5. ASSUME NEW n \in 1..Len(h), h[n] = L
      PROVE  Ran(tr, n) = bs[L].times - cx + 1 /\ s =< n /\ n < e
  BY <1>1, <1>2, <1>4, <1>5
<1>6. ASSUME NEW n \in 1..Len(h), h[n] # L
      PROVE  /\ n < e => Full(h, bs, tr, n) /\ n < s
             /\ e =< n => Ran(tr, n) = 0 /\ s =< n
  <2>1. ~(s =< n /\ n < e)
    BY <1>1, <1>6
  <2>2. (n < e => n < s) /\ (e =< n => s =< n)
    BY <2>1, <1>1, <1>3
  <2> QED BY <2>2, <1>2, <1>6
<1>7. cx \in 1..bs[L].times
  BY <1>2, <1>4
<1>8. AtLoopEnd(h, bs, L, Op(p, i), s, e, cx, tr)
  BY <1>1, <1>4, <1>5, <1>6, <1>7 DEF AtLoopEnd
<1> QED BY <1>8 DEF L, s, e

\* A loop that goes back to the beginning of its body.
LEMMA RunBack ==
  ASSUME NEW p, NEW m, NEW h, NEW bs, Program(p, m, h, bs), NEW i, NEW cx \in Nat, NEW st, NEW tr,
         Running(p, m, h, bs, i, cx, st, tr), Op(p, i) \in Loops,
         NEW cx2 \in Nat, cx2 # 0, cx > 0 => cx2 = cx - 1
  PROVE  Running(p, m, h, bs, To(p, i), cx2, st, tr)
<1> DEFINE t == To(p, i)
           L == m.loop[i]
           s == m.at[t]
           e == m.at[i]
<1>1. i \in Ids(p) /\ Traced(h, bs, tr) /\ Expect(p, m, h, bs, i, tr)
  BY DEF Running
<1>2. LocalAt(p, m, h, bs, i) /\ Known(m, h, bs) /\ e \in Nat
  BY <1>1, ProgramAt
<1>3. t \in Ids(p) /\ Op(p, t) = "label"
  BY <1>2 DEF LocalAt, RangeAt, Transfers
<1>4. s \in 1..(Len(h) + 1) /\ Len(h) \in Nat
  BY <1>2, <1>3, ProgramAt DEF Known
<1>5. /\ L \in 1..Len(bs) /\ bs[L].op = Op(p, i) /\ m.call[i] = 0 /\ m.loop[t] = L /\ m.call[t] = 0
      /\ s =< e /\ \A k \in 1..Len(h) : h[k] = L <=> s =< k /\ k < e
      /\ s < e => Nx(p, t) # 0 /\ Op(p, Nx(p, t)) \in W \cup {"raw"}
  BY <1>2 DEF LocalAt, LoopAt
<1>6. Len(bs) \in Nat /\ L # 0
  BY <1>2, <1>5 DEF Known
<1>7. st = StackAt(p, m, t)
  BY <1>5 DEF Running, StackAt
<1>8. Op(p, i) \notin W \cup {"raw", "label"}
  BY DEF Loops, W
<1>9. Expect(p, m, h, bs, t, tr)
  <2>1. CASE tr = << >>
    <3>1. e = 1
      BY <1>1, <1>8, <2>1 DEF Expect
    <3>2. s = 1
      BY <3>1, <1>4, <1>5
    <3> QED BY <3>2, <2>1 DEF Expect
  <2>2. CASE tr # << >> /\ s = e
    BY <1>1, <1>8, <2>2 DEF Expect
  <2>3. CASE tr # << >> /\ s # e
    <3> DEFINE last == tr[Len(tr)]
    <3>1. e = last + 1
      BY <1>1, <1>8, <2>3 DEF Expect
    <3>2. last \in 1..Len(h)
      <4>1. tr \in Seq(1..Len(h)) /\ tr # << >>
        BY <1>1, <2>3 DEF Traced
      <4>2. Len(tr) \in 1..Len(tr)
        BY <4>1, EmptySeq, LenProperties
      <4> QED BY <4>1, <4>2, ElementOfSeq
    <3> HIDE DEF last
    <3>3. s < e /\ s =< last /\ last < e /\ s =< s /\ s \in 1..Len(h)
      BY <3>1, <3>2, <2>3, <1>2, <1>4, <1>5
    <3>4. h[last] = L /\ h[s] = L
      BY <3>2, <3>3, <1>5
    <3>5. ASSUME NEW k \in 1..Len(h), h[k] = L PROVE s =< k /\ k =< last
      <4>1. s =< k /\ k < e
        BY <1>5, <3>5
      <4> QED BY <4>1, <3>1, <3>2, <1>4
    <3>6. Follows(h, bs, last, s)
      BY <3>4, <3>5, <1>5, <1>6 DEF Follows
    <3> QED BY <3>3, <3>6, <2>3, <1>3, <1>5 DEF Expect, last
  <2> QED BY <2>1, <2>2, <2>3
<1>10. ASSUME ~NamesCX PROVE Counted(m, h, bs, t, cx2, tr)
  <2>1. Counted(m, h, bs, i, cx, tr) /\ LoopAt(p, m, h, bs, i) /\ s \in Nat
    BY <1>2, <1>4, <1>10 DEF Running, LocalAt
  <2>2. /\ L # 0 /\ bs[L].times \in 1..(CXSize - 1)
        /\ cx \in 1..bs[L].times
        /\ \A n \in 1..Len(h) : h[n] = L => /\ Ran(tr, n) = bs[L].times - cx + 1
                                            /\ s =< n /\ n < e
        /\ \A n \in 1..Len(h) : h[n] # L => /\ n < e => Full(h, bs, tr, n) /\ n < s
                                            /\ e =< n => Ran(tr, n) = 0 /\ s =< n
    <3>1. AtLoopEnd(h, bs, L, Op(p, i), s, e, cx, tr)
      BY <2>1, <1>2, LoopCounts
    <3> HIDE DEF L, s, e
    <3> QED BY <3>1 DEF AtLoopEnd
  <2>3. m.loop[t] = L /\ m.at[t] = s
    BY <1>5
  <2> HIDE DEF L, s, e, t
  <2>4. bs[L].times \in Nat
    BY <2>2, ConstantsAssumption
  <2>5. cx2 = cx - 1 /\ cx2 \in 1..bs[L].times /\ bs[L].times - cx2 = bs[L].times - cx + 1
    BY <2>2, <2>4
  <2>6. ASSUME NEW n \in 1..Len(h), h[n] # L
        PROVE  /\ n < s => Full(h, bs, tr, n)
               /\ s =< n => Ran(tr, n) = 0
    <3>1. n \in Nat /\ s \in Nat /\ e \in Nat
      BY <1>2, <2>1, <1>4 DEF s
    <3>2. n < e \/ e =< n
      BY <3>1, <1>2
    <3>3. n < s \/ s =< n
      BY <3>1
    <3>4. ~(n < s /\ s =< n)
      BY <3>1
    <3> QED BY <3>2, <3>3, <3>4, <2>2, <2>6
  <2>7. ASSUME NEW n \in 1..Len(h), h[n] = L
        PROVE  /\ ~(n < s)
               /\ s =< n => Ran(tr, n) = bs[L].times - cx2
    <3>1. n \in Nat /\ s \in Nat /\ s =< n
      BY <2>1, <2>2, <2>7, <1>4
    <3>2. ~(n < s)
      BY <3>1
    <3> QED BY <3>2, <2>2, <2>5, <2>7
  <2> QED BY <2>2, <2>3, <2>5, <2>6, <2>7 DEF Counted
<1>11. Running(p, m, h, bs, t, cx2, st, tr)
  BY <1>1, <1>3, <1>7, <1>9, <1>10 DEF Running
<1> QED BY <1>11 DEF t

\* A loop that is left.
LEMMA RunLeave ==
  ASSUME NEW p, NEW m, NEW h, NEW bs, Program(p, m, h, bs), NEW i, NEW cx \in Nat, NEW st, NEW tr,
         Running(p, m, h, bs, i, cx, st, tr), Op(p, i) \in Loops,
         NEW cx2, Op(p, i) = "loop" /\ cx > 0 => cx = 1
  PROVE  Nx(p, i) # 0 /\ Running(p, m, h, bs, Nx(p, i), cx2, st, tr)
<1> DEFINE z == Nx(p, i)
           L == m.loop[i]
           e == m.at[i]
<1>1. i \in Ids(p) /\ Traced(h, bs, tr) /\ Expect(p, m, h, bs, i, tr)
  BY DEF Running
<1>2. /\ LocalAt(p, m, h, bs, i) /\ Known(m, h, bs) /\ e \in Nat
      /\ z # 0 => z \in Ids(p) /\ FlowAt(p, m, h, bs, i)
  BY <1>1, ProgramAt
<1>3. z # 0
  <2>1. Op(p, i) # "label"
    BY DEF Loops
  <2> QED BY <1>1, <2>1, ProgramAt
<1>4. z \in Ids(p) /\ Is(m, z, e, 0, 0)
  BY <1>2, <1>3 DEF FlowAt, Fed, Falling
<1>5. m.call[i] = 0
  BY <1>2 DEF LocalAt, LoopAt
<1>6. Op(p, i) \notin W \cup {"raw", "label"}
  BY DEF Loops, W
<1> HIDE DEF z
<1>7. Expect(p, m, h, bs, z, tr)
  BY <1>1, <1>4, <1>6 DEF Expect, Is
<1>8. st = StackAt(p, m, z)
  BY <1>4, <1>5 DEF Running, StackAt, Is
<1>9. ASSUME ~NamesCX PROVE Counted(m, h, bs, z, cx2, tr)
  <2>0. To(p, i) \in Ids(p)
    BY <1>2 DEF LocalAt, RangeAt, Transfers
  <2>1. Counted(m, h, bs, i, cx, tr) /\ LoopAt(p, m, h, bs, i)
    BY <1>2, <1>9 DEF Running, LocalAt
  <2>2. m.at[To(p, i)] \in Nat
    <3>1. m.at[To(p, i)] \in 1..(Len(h) + 1) /\ Len(h) \in Nat
      BY <2>0, <1>2, ProgramAt DEF Known
    <3> QED BY <3>1
  <2>3. /\ L # 0 /\ bs[L].times \in 1..(CXSize - 1) /\ bs[L].op = Op(p, i)
        /\ cx \in 1..bs[L].times
        /\ \A n \in 1..Len(h) : h[n] = L => /\ Ran(tr, n) = bs[L].times - cx + 1
                                            /\ n < e
        /\ \A n \in 1..Len(h) : h[n] # L => /\ n < e => Full(h, bs, tr, n)
                                            /\ e =< n => Ran(tr, n) = 0
    <3>1. AtLoopEnd(h, bs, L, Op(p, i), m.at[To(p, i)], e, cx, tr)
      BY <2>1, <2>2, <1>2, LoopCounts
    <3> HIDE DEF L, e
    <3> QED BY <3>1 DEF AtLoopEnd
  <2>4. m.loop[z] = 0 /\ m.at[z] = e /\ Len(h) \in Nat
    BY <1>2, <1>4 DEF Is, Known
  <2> HIDE DEF L, e
  <2>5. bs[L].times \in Nat /\ cx > 0
    BY <2>3, ConstantsAssumption
  <2>6. ASSUME NEW n \in 1..Len(h), h[n] = L
        PROVE  Full(h, bs, tr, n) /\ ~(e =< n)
    <3>1. Ran(tr, n) = bs[L].times - cx + 1 /\ n < e
      BY <2>3, <2>6
    <3>2. n \in Nat /\ e \in Nat
      BY <1>2, <2>4 DEF e
    <3>3. Ran(tr, n) \in 1..bs[L].times
      BY <3>1, <2>3, <2>5
    <3>4. Op(p, i) # "loopcc" => Ran(tr, n) = bs[L].times
      <4>1. Op(p, i) # "loopcc" => cx = 1
        BY <2>5 DEF Loops
      <4> QED BY <4>1, <3>1, <2>5
    <3>5. Full(h, bs, tr, n)
      BY <3>3, <3>4, <2>3, <2>6 DEF Full
    <3> QED BY <3>1, <3>2, <3>5
  <2>7. \A n \in 1..Len(h) : /\ n < e => Full(h, bs, tr, n)
                             /\ e =< n => Ran(tr, n) = 0
    BY <2>3, <2>6
  <2> QED BY <2>4, <2>7 DEF Counted
<1>10. Running(p, m, h, bs, z, cx2, st, tr)
  BY <1>1, <1>4, <1>7, <1>8, <1>9 DEF Running
<1> QED BY <1>3, <1>10 DEF z

\* A call of a block's body.
LEMMA RunCall ==
  ASSUME NEW p, NEW m, NEW h, NEW bs, Program(p, m, h, bs), NEW i, NEW cx, NEW st, NEW tr,
         Running(p, m, h, bs, i, cx, st, tr), Op(p, i) = "call"
  PROVE  Running(p, m, h, bs, To(p, i), cx, Append(st, Nx(p, i)), tr)
<1> DEFINE t == To(p, i)
<1>1. i \in Ids(p) /\ Traced(h, bs, tr) /\ Expect(p, m, h, bs, i, tr)
  BY DEF Running
<1>2. LocalAt(p, m, h, bs, i) /\ i \in Nat /\ i # 0
  BY <1>1, ProgramAt DEF Ids
<1>3. t \in Ids(p)
  BY <1>2 DEF LocalAt, RangeAt, Transfers
<1>4. m.call[i] = 0 /\ m.loop[i] = 0 /\ Is(m, t, m.at[i], i, 0)
  BY <1>2 DEF LocalAt, CallAt
<1> HIDE DEF t
<1>5. Expect(p, m, h, bs, t, tr)
  BY <1>1, <1>4 DEF Expect, Is, W
<1>6. Append(st, Nx(p, i)) = StackAt(p, m, t)
  <2>1. st = << >>
    BY <1>4 DEF Running, StackAt
  <2>2. Append(<< >>, Nx(p, i)) = << Nx(p, i) >>
    OBVIOUS
  <2>3. StackAt(p, m, t) = << Nx(p, i) >>
    BY <1>2, <1>4 DEF StackAt, Is
  <2> QED BY <2>1, <2>2, <2>3
<1>7. ASSUME ~NamesCX PROVE Counted(m, h, bs, t, cx, tr)
  <2>1. Counted(m, h, bs, i, cx, tr)
    BY <1>7 DEF Running
  <2>2. m.at[t] = m.at[i] /\ m.loop[t] = m.loop[i]
    BY <1>4 DEF Is
  <2> QED BY <2>1, <2>2 DEF Counted
<1>8. Running(p, m, h, bs, t, cx, Append(st, Nx(p, i)), tr)
  BY <1>1, <1>3, <1>5, <1>6, <1>7 DEF Running
<1> QED BY <1>8 DEF t

\* The end of a called body: there is one call to return to.
LEMMA RunReturn ==
  ASSUME NEW p, NEW m, NEW h, NEW bs, Program(p, m, h, bs), NEW i, NEW cx, NEW st, NEW tr,
         Running(p, m, h, bs, i, cx, st, tr), Op(p, i) = "ret"
  PROVE  /\ st # << >> /\ Len(st) = 1 /\ st[1] # 0
         /\ Running(p, m, h, bs, st[1], cx, << >>, tr)
<1> DEFINE c == m.call[i]
           z == Nx(p, c)
<1>1. i \in Ids(p) /\ Traced(h, bs, tr) /\ Expect(p, m, h, bs, i, tr)
  BY DEF Running
<1>2. LocalAt(p, m, h, bs, i)
  BY <1>1, ProgramAt
<1>3. m.loop[i] = 0 /\ c \in Ids(p) /\ Op(p, c) = "call" /\ z # 0 /\ m.at[z] = m.at[i]
  BY <1>2 DEF LocalAt, CallAt
<1>4. z \in Ids(p) /\ m.call[z] = 0 /\ m.loop[z] = 0
  <2>1. z \in Ids(p) /\ FlowAt(p, m, h, bs, c)
    BY <1>3, ProgramAt
  <2> QED BY <2>1, <1>3 DEF FlowAt, Fed, Falling
<1>5. c # 0
  BY <1>3 DEF Ids
<1>6. st = << z >>
  BY <1>5 DEF Running, StackAt
<1> HIDE DEF z, c
<1>7. Expect(p, m, h, bs, z, tr)
  BY <1>1, <1>3 DEF Expect, W
<1>8. << >> = StackAt(p, m, z)
  BY <1>4 DEF StackAt
<1>9. ASSUME ~NamesCX PROVE Counted(m, h, bs, z, cx, tr)
  <2>1. Counted(m, h, bs, i, cx, tr)
    BY <1>9 DEF Running
  <2>2. m.at[z] = m.at[i] /\ m.loop[z] = m.loop[i]
    BY <1>3, <1>4
  <2> QED BY <2>1, <2>2 DEF Counted
<1>10. Running(p, m, h, bs, z, cx, << >>, tr)
  BY <1>1, <1>4, <1>7, <1>8, <1>9 DEF Running
<1> QED BY <1>3, <1>6, <1>10

\* The end of the program.
LEMMA RunEnd ==
  ASSUME NEW p, NEW m, NEW h, NEW bs, Program(p, m, h, bs), NEW i, NEW cx, NEW st, NEW tr,
         Running(p, m, h, bs, i, cx, st, tr), Nx(p, i) = 0
  PROVE  Ended(h, bs, st, tr)
<1>1. i \in Ids(p) /\ Traced(h, bs, tr)
  BY DEF Running
<1>2. Is(m, i, Len(h) + 1, 0, 0) /\ Len(h) \in Nat
  BY <1>1, ProgramAt DEF Known
<1>3. st = << >>
  BY <1>2 DEF Running, StackAt, Is
<1>4. ASSUME ~NamesCX, NEW n \in 1..Len(h) PROVE Full(h, bs, tr, n)
  <2>1. Counted(m, h, bs, i, cx, tr)
    BY <1>4 DEF Running
  <2>2. n < Len(h) + 1
    BY <1>2
  <2> QED BY <2>1, <2>2, <1>2 DEF Counted, Is
<1> QED BY <1>1, <1>3, <1>4 DEF Ended

\* The beginning of the program.
LEMMA RunStart ==
  ASSUME NEW p, NEW m, NEW h, NEW bs, Program(p, m, h, bs), NEW cx
  PROVE  /\ p.list # << >> /\ p.list[1] # 0
         /\ Running(p, m, h, bs, p.list[1], cx, << >>, << >>)
<1> DEFINE z == Nx(p, 0)
<1>1. Ring(p) /\ Len(p.code) \in Ids(p) /\ Chain(p, m, h, bs, Len(p.code))
  BY DEF Program
<1>2. Len(p.code) # 0 /\ Known(m, h, bs)
  BY <1>1 DEF Ids, Chain
<1>3. z # 0 /\ Is(m, z, 1, 0, 0)
  BY <1>1, <1>2 DEF Chain, StartOK
<1>4. z \in Ids(p)
  BY <1>1, <1>3, RingClosed
<1>5. p.list # << >> /\ z = p.list[1]
  BY <1>3 DEF Nx, Nxt
<1> HIDE DEF z
<1>6. Traced(h, bs, << >>)
  <2>1. << >> \in Seq(1..Len(h)) /\ 2..Len(<< >>) = {}
    OBVIOUS
  <2> QED BY <2>1 DEF Traced
<1>7. Expect(p, m, h, bs, z, << >>)
  BY <1>3 DEF Expect, Is
<1>8. << >> = StackAt(p, m, z)
  BY <1>3 DEF StackAt, Is
<1>9. Counted(m, h, bs, z, cx, << >>)
  <2>1. m.loop[z] = 0 /\ m.at[z] = 1 /\ Len(h) \in Nat
    BY <1>2, <1>3 DEF Is, Known
  <2>2. \A n \in 1..Len(h) : ~(n < 1) /\ Ran(<< >>, n) = 0
    BY <2>1, RanEmpty
  <2> QED BY <2>1, <2>2 DEF Counted
<1>10. Running(p, m, h, bs, z, cx, << >>, << >>)
  BY <1>4, <1>6, <1>7, <1>8, <1>9 DEF Running
<1> QED BY <1>3, <1>5, <1>10

-----------------------------------------------------------------------------
(* The order of generation and execution, in every state.                   *)

\* The order of the program, being generated, executed or ended.
OrderOK ==
  /\ home \in Seq(Nat)
  /\ phase = "gen" => GenOrder /\ trace = << >>
  /\ phase = "run" => \E m : /\ Program(pg, m, home, blocks)
                             /\ cpu.ip # 0 => Running(pg, m, home, blocks,
                                                      cpu.ip, cpu.ecx, cpu.stack, trace)
                             /\ cpu.ip = 0 => Ended(home, blocks, cpu.stack, trace)
  /\ phase = "halt" => Ended(home, blocks, cpu.stack, trace)
  /\ phase = "crash" => Op(pg, cpu.ip) = "raw" /\ Traced(home, blocks, trace)

\* A label stands where labelspos says.
LEMMA GotoLabel ==
  ASSUME Shape(pg), NEW l \in 0..(pg.labeli - 1)
  PROVE  Goto(l) = LabelPos(pg, l)
<1> DEFINE t == LabelPos(pg, l)
<1>1. LabelsMatch(pg)
  BY DEF Shape
<1>2. t \in Definitions(pg, l)
  BY <1>1 DEF LabelsMatch, Definitions
<1>3. ASSUME NEW id \in Definitions(pg, l) PROVE id = t
  <2>1. id \in DOMAIN pg.code /\ pg.code[id].op = "label" /\ pg.code[id].arg = l
    BY DEF Definitions, Insn
  <2> QED BY <2>1, <1>1 DEF LabelsMatch
<1> HIDE DEF t
<1> QED BY <1>2, <1>3 DEF Goto, t

\* The end of the walk.
LEMMA FinishOrder ==
  ASSUME IInv, BlockOK, GenOrder, trace = << >>, Finish
  PROVE  OrderOK'
<1> DEFINE q == gen_control_transfer_finish(pg)
<1>1. Ring(pg) /\ phase = "gen" /\ next_label = NoBlock
  BY GenRing DEF Finish, Walking, InBlock
<1>2. pg.lock_ctrl = FALSE /\ OpenOf(pg, next_label) = pg.insertpos
  BY <1>1 DEF GenOrder, BlockLabel, OpenOf
<1>3. PICK m : Chain(pg, m, home, blocks, pg.insertpos)
  BY <1>2 DEF GenOrder, Ordered
<1>4. PICK m2 : Chain(q, m2, home, blocks, Len(q.code)) /\ Nx(q, Len(q.code)) = 0
                /\ Op(q, Len(q.code)) = "label"
  BY <1>1, <1>2, <1>3, ChainFinish
<1>5. Finished(pg, q)
  BY <1>1, <1>2, FinishRing
<1> HIDE DEF q
<1>6. Ring(q) /\ Len(q.code) \in Ids(q)
  BY <1>5 DEF Finished, Ids
<1>7. Program(q, m2, home, blocks)
  BY <1>4, <1>6 DEF Program
<1>8. /\ pg' = q /\ home' = home /\ blocks' = blocks /\ trace' = << >>
      /\ cpu' = [cpu EXCEPT !.ip = q.list[1]] /\ phase' \in {"run", "rejected"}
  BY DEF Finish, q
<1>9. cpu'.ip = q.list[1] /\ cpu'.ecx = cpu.ecx /\ cpu'.stack = << >>
  BY <1>1, <1>8 DEF IInv, MachineOK
<1>10. q.list[1] # 0 /\ Running(q, m2, home, blocks, q.list[1], cpu.ecx, << >>, << >>)
  BY <1>7, RunStart
<1>11. /\ Program(pg', m2, home', blocks')
       /\ cpu'.ip # 0 /\ Running(pg', m2, home', blocks', cpu'.ip, cpu'.ecx, cpu'.stack, trace')
  BY <1>7, <1>8, <1>9, <1>10
<1>12. home' \in Seq(Nat)
  BY <1>3, <1>8 DEF Chain, Known
<1> QED BY <1>8, <1>11, <1>12 DEF OrderOK

\* Where the program goes on.
LEMMA RunTo ==
  ASSUME home \in Seq(Nat), phase' = "run", UNCHANGED Generated, NEW m, Program(pg, m, home, blocks),
         cpu'.ip # 0 => Running(pg, m, home, blocks, cpu'.ip, cpu'.ecx, cpu'.stack, trace'),
         cpu'.ip = 0 => Ended(home, blocks, cpu'.stack, trace')
  PROVE  OrderOK'
<1>1. pg' = pg /\ home' = home /\ blocks' = blocks
  BY DEF Generated
<1>2. /\ home' \in Seq(Nat) /\ Program(pg', m, home', blocks')
      /\ cpu'.ip # 0 => Running(pg', m, home', blocks', cpu'.ip, cpu'.ecx, cpu'.stack, trace')
      /\ cpu'.ip = 0 => Ended(home', blocks', cpu'.stack, trace')
  BY <1>1
<1> QED BY <1>2 DEF OrderOK

\* The generated program executes in order.
LEMMA RunOrder ==
  ASSUME IInv, OrderOK, Run
  PROVE  OrderOK'
<1>1. phase = "run" /\ Shape(pg) /\ UNCHANGED Generated /\ home \in Seq(Nat)
  BY DEF IInv, OrderOK, Run, Skip, Execute, LoadCount, Jump, JumpIf, LoopBack, CallBody,
         Return, Crash, Halt, At
<1>2. /\ cpu = [ip |-> cpu.ip, ecx |-> cpu.ecx, stack |-> cpu.stack]
      /\ cpu.ip \in Ids(pg) \cup {0} /\ cpu.ecx \in 0..(CXSize - 1) /\ CXSize \in Nat \ {0}
      /\ cpu.stack \in Seq(Ids(pg) \cup {0})
  BY ConstantsAssumption DEF IInv, MachineOK
<1>3. PICK m : /\ Program(pg, m, home, blocks)
               /\ cpu.ip # 0 => Running(pg, m, home, blocks, cpu.ip, cpu.ecx, cpu.stack, trace)
               /\ cpu.ip = 0 => Ended(home, blocks, cpu.stack, trace)
  BY <1>1 DEF OrderOK
<1> DEFINE i == cpu.ip
           z == Nx(pg, i)
           t == To(pg, i)
<1>4. Following(i) = z \/ i = 0
  BY DEF Following, Nx, Nxt
<1>5. ASSUME i # 0
      PROVE  /\ Running(pg, m, home, blocks, i, cpu.ecx, cpu.stack, trace) /\ Following(i) = z
             /\ i \in Ids(pg) /\ LocalAt(pg, m, home, blocks, i)
             /\ Op(pg, i) \in Transfers => Goto(Here) = t /\ t \in Ids(pg) /\ t # 0
  <2>1. i \in Ids(pg) /\ LocalAt(pg, m, home, blocks, i)
    BY <1>2, <1>3, <1>5, ProgramAt
  <2>2. ASSUME Op(pg, i) \in Transfers PROVE Goto(Here) = t /\ t \in Ids(pg) /\ t # 0
    <3>1. Arg(pg, i) \in 0..(pg.labeli - 1) /\ t \in Ids(pg)
      BY <2>1, <2>2 DEF LocalAt, RangeAt
    <3>2. Here = Arg(pg, i) /\ t = LabelPos(pg, Arg(pg, i))
      BY DEF Here, Arg, To
    <3>3. t # 0
      BY <3>1 DEF Ids
    <3> QED BY <3>1, <3>2, <3>3, <1>1, GotoLabel
  <2> QED BY <2>1, <2>2, <1>3, <1>4, <1>5
<1>6. Here = Arg(pg, i)
  BY DEF Here, Arg
<1>a. CASE Skip
  <2>1. i # 0 /\ Op(pg, i) = "label" /\ phase' = "run" /\ trace' = trace
    BY <1>a, <1>1 DEF Skip, At, Op
  <2>2. cpu' = [ip |-> z, ecx |-> cpu.ecx, stack |-> cpu.stack]
    BY <1>a, <1>2, <1>5, <2>1 DEF Skip
  <2>3. cpu'.ip = z /\ cpu'.ecx = cpu.ecx /\ cpu'.stack = cpu.stack
    BY <2>2
  <2>4. z # 0 => Running(pg, m, home, blocks, z, cpu.ecx, cpu.stack, trace)
    BY <1>3, <1>5, <2>1, RunOver
  <2>5. z = 0 => Ended(home, blocks, cpu.stack, trace)
    BY <1>3, <1>5, <2>1, RunEnd
  <2> QED BY <1>1, <1>3, <2>1, <2>3, <2>4, <2>5, RunTo
<1>b. CASE Execute
  <2>1. /\ i # 0 /\ Op(pg, i) \in W /\ phase' = "run" /\ trace' = Append(trace, Arg(pg, i))
    BY <1>b, <1>1 DEF Execute, At, Op, W, Here, Arg
  <2>2. PICK cx \in 0..(CXSize - 1) : /\ cpu' = [cpu EXCEPT !.ip = Following(@), !.ecx = cx]
                                      /\ Op(pg, i) # "workcx" => cx = cpu.ecx
    BY <1>b, <1>2 DEF Execute, At, Op
  <2>3. cpu' = [ip |-> z, ecx |-> cx, stack |-> cpu.stack]
    BY <1>2, <1>5, <2>1, <2>2
  <2>4. cpu'.ip = z /\ cpu'.ecx = cx /\ cpu'.stack = cpu.stack
    BY <2>3
  <2>5. z # 0 /\ Running(pg, m, home, blocks, z, cx, cpu.stack, trace')
    BY <1>3, <1>5, <2>1, <2>2, RunWork
  <2> QED BY <1>1, <1>3, <2>1, <2>4, <2>5, RunTo
<1>c. CASE LoadCount
  <2>1. i # 0 /\ Op(pg, i) = "movecx" /\ phase' = "run" /\ trace' = trace
    BY <1>c, <1>1 DEF LoadCount, At, Op
  <2>2. cpu' = [ip |-> z, ecx |-> Arg(pg, i), stack |-> cpu.stack]
    BY <1>c, <1>2, <1>5, <1>6, <2>1 DEF LoadCount
  <2>3. cpu'.ip = z /\ cpu'.ecx = Arg(pg, i) /\ cpu'.stack = cpu.stack
    BY <2>2
  <2>4. z # 0 /\ Running(pg, m, home, blocks, z, Arg(pg, i), cpu.stack, trace)
    BY <1>3, <1>5, <2>1, RunLoad
  <2> QED BY <1>1, <1>3, <2>1, <2>3, <2>4, RunTo
<1>d. CASE Jump
  <2>1. i # 0 /\ Op(pg, i) = "jmp" /\ phase' = "run" /\ trace' = trace
    BY <1>d, <1>1 DEF Jump, At, Op
  <2>2. cpu' = [ip |-> t, ecx |-> cpu.ecx, stack |-> cpu.stack] /\ t # 0
    BY <1>d, <1>2, <1>5, <2>1 DEF Jump, Transfers, Jumps
  <2>3. cpu'.ip = t /\ cpu'.ecx = cpu.ecx /\ cpu'.stack = cpu.stack
    BY <2>2
  <2>4. Running(pg, m, home, blocks, t, cpu.ecx, cpu.stack, trace)
    BY <1>3, <1>5, <2>1, RunOver DEF Jumps
  <2> QED BY <1>1, <1>3, <2>1, <2>2, <2>3, <2>4, RunTo
<1>e. CASE JumpIf
  <2>1. i # 0 /\ Op(pg, i) = "jcc" /\ phase' = "run" /\ trace' = trace
    BY <1>e, <1>1 DEF JumpIf, At, Op
  <2>2. PICK x \in {t, z} : cpu' = [cpu EXCEPT !.ip = x]
    BY <1>e, <1>2, <1>5, <2>1 DEF JumpIf, Transfers, Jumps
  <2>3. cpu'.ip = x /\ cpu'.ecx = cpu.ecx /\ cpu'.stack = cpu.stack
    BY <1>2, <2>2
  <2>4. z # 0
    BY <1>3, <1>5, <2>1, ProgramAt
  <2>5. /\ Running(pg, m, home, blocks, t, cpu.ecx, cpu.stack, trace)
        /\ Running(pg, m, home, blocks, z, cpu.ecx, cpu.stack, trace)
    BY <1>3, <1>5, <2>1, <2>4, RunOver DEF Jumps
  <2>6. t # 0
    BY <1>5, <2>1 DEF Transfers, Jumps
  <2>7. x # 0 /\ Running(pg, m, home, blocks, x, cpu.ecx, cpu.stack, trace)
    BY <2>2, <2>4, <2>5, <2>6
  <2> QED BY <1>1, <1>3, <2>1, <2>3, <2>7, RunTo
<1>f. CASE LoopBack
  <2> DEFINE cx == (cpu.ecx - 1) % CXSize
  <2>1. i # 0 /\ Op(pg, i) \in Loops /\ phase' = "run" /\ trace' = trace
    BY <1>f, <1>1 DEF LoopBack, At, Op
  <2>2. Op(pg, i) \in Transfers
    BY <2>1 DEF Transfers
  <2>3. PICK taken \in BOOLEAN :
          /\ cpu' = [cpu EXCEPT !.ecx = cx, !.ip = IF taken THEN Goto(Here) ELSE Following(@)]
          /\ taken => cx # 0
          /\ ~taken => cx = 0 \/ Op(pg, i) # "loop"
    BY <1>f, <1>1, <2>1 DEF LoopBack, At, Op
  <2>4. cx \in Nat /\ (cpu.ecx > 0 => cx = cpu.ecx - 1)
    <3>1. cpu.ecx \in Nat /\ cpu.ecx < CXSize
      BY <1>2
    <3> DEFINE y == cpu.ecx
    <3> HIDE DEF y
    <3>2. y \in Nat /\ y < CXSize
      BY <3>1 DEF y
    <3>3. (y - 1) % CXSize \in 0..(CXSize - 1)
      BY <1>2, <3>2
    <3>4. y > 0 => (y - 1) % CXSize = y - 1
      BY <1>2, <3>2, SMTT(30)
    <3> QED BY <1>2, <3>3, <3>4 DEF y
  <2> HIDE DEF cx
  <2>5. cpu'.ip = (IF taken THEN t ELSE z) /\ cpu'.ecx = cx /\ cpu'.stack = cpu.stack
    BY <1>2, <1>5, <2>1, <2>2, <2>3
  <2>6. cpu.ecx \in Nat
    BY <1>2
  <2>7. CASE taken
    <3>1. Running(pg, m, home, blocks, t, cx, cpu.stack, trace)
      BY <1>3, <1>5, <2>1, <2>3, <2>4, <2>6, <2>7, RunBack
    <3> QED BY <3>1, <1>1, <1>3, <1>5, <2>1, <2>2, <2>5, <2>7, RunTo
  <2>8. CASE ~taken
    <3>1. Op(pg, i) = "loop" /\ cpu.ecx > 0 => cpu.ecx = 1
      BY <2>3, <2>4, <2>6, <2>8
    <3>2. z # 0 /\ Running(pg, m, home, blocks, z, cx, cpu.stack, trace)
      BY <3>1, <1>3, <1>5, <2>1, <2>6, RunLeave
    <3> QED BY <3>2, <1>1, <1>3, <2>1, <2>5, <2>8, RunTo
  <2> QED BY <2>7, <2>8
<1>g. CASE CallBody
  <2>1. i # 0 /\ Op(pg, i) = "call" /\ phase' = "run" /\ trace' = trace
    BY <1>g, <1>1 DEF CallBody, At, Op
  <2>2. cpu' = [ip |-> t, ecx |-> cpu.ecx, stack |-> Append(cpu.stack, z)] /\ t # 0
    BY <1>g, <1>2, <1>5, <2>1 DEF CallBody, Transfers
  <2>3. cpu'.ip = t /\ cpu'.ecx = cpu.ecx /\ cpu'.stack = Append(cpu.stack, z)
    BY <2>2
  <2>4. Running(pg, m, home, blocks, t, cpu.ecx, Append(cpu.stack, z), trace)
    BY <1>3, <1>5, <2>1, RunCall
  <2> QED BY <1>1, <1>3, <2>1, <2>2, <2>3, <2>4, RunTo
<1>h. CASE Return
  <2>1. i # 0 /\ Op(pg, i) = "ret" /\ phase' = "run" /\ trace' = trace
    BY <1>h, <1>1 DEF Return, At, Op
  <2>2. /\ cpu.stack # << >> /\ Len(cpu.stack) = 1 /\ cpu.stack[1] # 0
        /\ Running(pg, m, home, blocks, cpu.stack[1], cpu.ecx, << >>, trace)
    BY <1>3, <1>5, <2>1, RunReturn
  <2>3. SubSeq(cpu.stack, 1, Len(cpu.stack) - 1) = << >>
    <3>1. Len(cpu.stack) - 1 = 0 /\ 1 \in Int /\ 0 \in Int /\ 0 < 1
      BY <2>2
    <3> QED BY <3>1, SubSeqEmpty
  <2>4. cpu' = [cpu EXCEPT !.ip = cpu.stack[Len(cpu.stack)],
                           !.stack = SubSeq(cpu.stack, 1, Len(cpu.stack) - 1)]
    BY <1>h, Zenon DEF Return
  <2>5. cpu'.ip = cpu.stack[1] /\ cpu'.ecx = cpu.ecx /\ cpu'.stack = << >>
    BY <1>2, <2>2, <2>3, <2>4
  <2> QED BY <1>1, <1>3, <2>1, <2>2, <2>5, RunTo
<1>i. CASE Crash
  <2>1. i # 0 /\ phase' = "crash" /\ trace' = trace /\ cpu' = cpu /\ pg' = pg /\ home' = home
        /\ blocks' = blocks
    BY <1>i DEF Crash, At, Generated
  <2>2. Op(pg, i) = "raw"
    <3>1. Op(pg, i) = "ret" => cpu.stack # << >>
      BY <1>3, <1>5, <2>1, RunReturn
    <3> QED BY <1>i, <3>1 DEF Crash, At, Op
  <2>3. Traced(home, blocks, trace)
    BY <1>5, <2>1 DEF Running
  <2> QED BY <1>1, <2>1, <2>2, <2>3 DEF OrderOK
<1>j. CASE Halt
  <2>1. i = 0 /\ phase' = "halt" /\ trace' = trace /\ cpu' = cpu /\ pg' = pg /\ home' = home
        /\ blocks' = blocks
    BY <1>j DEF Halt, Generated
  <2> QED BY <1>1, <1>3, <2>1 DEF OrderOK
<1> QED BY <1>a, <1>b, <1>c, <1>d, <1>e, <1>f, <1>g, <1>h, <1>i, <1>j DEF Run

\* The order is there before the walk begins.
LEMMA OrderOKInit == Init => OrderOK
<1>1. Init => GenOrder
  BY OrderInit
<1>2. << >> \in Seq(Nat)
  OBVIOUS
<1> QED BY <1>1, <1>2 DEF Init, OrderOK

\* Every step keeps the order.
LEMMA OrderOKStep ==
  ASSUME ClosedTemplates
  PROVE  IInv /\ BlockOK /\ OrderOK /\ [Next]_vars => OrderOK'
<1> SUFFICES ASSUME IInv, BlockOK, OrderOK, [Next]_vars PROVE OrderOK'
  OBVIOUS
<1>1. CASE UNCHANGED vars
  <2>1. /\ pg' = pg /\ next_label' = next_label /\ phase' = phase /\ cpu' = cpu
        /\ used' = used /\ blocks' = blocks /\ home' = home /\ trace' = trace
    BY <1>1 DEF vars
  <2>2. GenOrder' <=> GenOrder
    BY <2>1 DEF GenOrder
  <2> QED BY <2>1, <2>2 DEF OrderOK
<1>2. ASSUME phase = "gen", phase' = phase, trace' = trace, GenOrder'
      PROVE  OrderOK'
  <2>1. home' \in Seq(Nat)
    BY <1>2 DEF GenOrder, Ordered, Chain, Known
  <2> QED BY <1>2, <2>1 DEF OrderOK
<1>3. phase = "gen" => GenOrder /\ trace = << >>
  BY DEF OrderOK
<1>a. ASSUME NEW op \in {"work", "workcx"}, NEW happens \in BOOLEAN, WalkInsn(op, happens)
      PROVE  OrderOK'
  <2>1. phase = "gen" /\ phase' = phase /\ trace' = trace
    BY <1>a DEF WalkInsn, Walking
  <2>2. GenOrder'
    BY <1>3, <1>a, <2>1, WalkInsnOrder
  <2> QED BY <1>2, <2>1, <2>2
<1>b. CASE WalkCheck
  <2>1. phase = "gen" /\ phase' = phase /\ trace' = trace
    BY <1>b DEF WalkCheck, Walking
  <2>2. GenOrder'
    BY <1>3, <1>b, <2>1, WalkCheckOrder
  <2> QED BY <1>2, <2>1, <2>2
<1>c. ASSUME NEW op \in JumpElems, NEW happens \in BOOLEAN, NEW label \in NoLabel..pg.labeli,
             WalkTransferElem(op, happens, label)
      PROVE  OrderOK'
  <2>1. phase = "gen" /\ phase' = phase /\ trace' = trace
    BY <1>c DEF WalkTransferElem, Walking
  <2>2. op \in Jumps /\ label \in Int
    BY DEF ClosedTemplates, NoLabel, IInv, Shape, PGState
  <2>3. GenOrder'
    BY <1>3, <1>c, <2>1, <2>2, WalkTransferElemOrder
  <2> QED BY <1>2, <2>1, <2>3
<1>d. ASSUME NEW op \in TransferTypes, NEW times \in Times, NEW label \in Selectable(pg),
             BeginTransfer(op, times, label)
      PROVE  OrderOK'
  <2>1. phase = "gen" /\ phase' = phase /\ trace' = trace
    BY <1>d DEF BeginTransfer, Walking
  <2>2. op \in Loops \cup {"call"} /\ times \in 1..(CXSize - 1)
    BY ConstantsAssumption DEF ClosedTemplates, Transfers
  <2>3. GenOrder'
    BY <1>3, <1>d, <2>1, <2>2, BeginTransferOrder
  <2> QED BY <1>2, <2>1, <2>3
<1>e. CASE EndTransfer
  <2>1. phase = "gen" /\ phase' = phase /\ trace' = trace
    BY <1>e DEF EndTransfer, Walking
  <2>2. GenOrder'
    BY <1>3, <1>e, <2>1, EndTransferOrder
  <2> QED BY <1>2, <2>1, <2>2
<1>f. CASE Finish
  <2>1. phase = "gen"
    BY <1>f DEF Finish, Walking
  <2> QED BY <1>3, <1>f, <2>1, FinishOrder
<1>g. CASE Run
  BY <1>g, RunOrder
<1> QED
  BY <1>1, <1>a, <1>b, <1>c, <1>d, <1>e, <1>f, <1>g DEF Next, WalkTemplate

\* The order is there in every state.
LEMMA OrderAlways ==
  ASSUME ClosedTemplates
  PROVE  Spec => [](IInv /\ BlockOK /\ OrderOK)
<1>1. IInv /\ BlockOK /\ [Next]_vars => BlockOK'
  BY BlockOKStep
<1>2. IInv /\ BlockOK /\ OrderOK /\ [Next]_vars => OrderOK'
  BY OrderOKStep
<1> QED BY <1>1, <1>2, IInvAlways, BlockOKInit, OrderOKInit, PTL DEF Spec

\* A ret is reached through the call of its block only: the program leaves the
\* generated code at a jump that gen_control_transfer_insn refused to rewrite.
THEOREM OnlyRawJumpsLeave ==
  ASSUME ClosedTemplates
  PROVE  Spec => []NoStrayJump
<1>1. OrderOK => NoStrayJump
  BY DEF OrderOK, NoStrayJump, Op
<1>2. Spec => []OrderOK
  BY OrderAlways, PTL
<1> QED BY <1>1, <1>2, PTL

\* What the trace of a state is.
LEMMA TraceInOrder ==
  ASSUME IInv, BlockOK, OrderOK
  PROVE  trace = << >> \/ Traced(home, blocks, trace)
<1>1. CASE phase = "gen"
  BY <1>1 DEF OrderOK
<1>2. CASE phase = "run"
  <2>1. PICK m : /\ cpu.ip # 0 => Running(pg, m, home, blocks, cpu.ip, cpu.ecx, cpu.stack, trace)
                 /\ cpu.ip = 0 => Ended(home, blocks, cpu.stack, trace)
    BY <1>2 DEF OrderOK
  <2> QED BY <2>1 DEF Running, Ended
<1>3. CASE phase = "halt"
  BY <1>3 DEF OrderOK, Ended
<1>4. CASE phase = "crash"
  BY <1>4 DEF OrderOK
<1>5. phase \in {"gen", "run", "halt", "crash"}
  BY DEF IInv, Phases, BlockOK
<1> QED BY <1>1, <1>2, <1>3, <1>4, <1>5

\* The program executes the instructions in the order they were generated in,
\* whatever labels select_one_label draws and whatever its jumps test.
THEOREM ExecutionFollowsTheWalk ==
  ASSUME ClosedTemplates
  PROVE  Spec => []ExecutesInOrder
<1>1. IInv /\ BlockOK /\ OrderOK => ExecutesInOrder
  <2> SUFFICES ASSUME IInv, BlockOK, OrderOK PROVE ExecutesInOrder
    OBVIOUS
  <2>1. CASE trace = << >>
    <3>1. 2..Len(<< >>) = {}
      OBVIOUS
    <3> QED BY <2>1, <3>1 DEF ExecutesInOrder
  <2>2. CASE Traced(home, blocks, trace)
    <3>1. \A k \in DOMAIN home : k \in 1..Len(home)
      <4>1. DOMAIN home = 1..Len(home)
        BY LenProperties DEF OrderOK
      <4> QED BY <4>1
    <3>2. ASSUME NEW a, NEW b, Follows(home, blocks, a, b) PROVE MayFollow(a, b)
      BY <3>1, <3>2 DEF Follows, MayFollow
    <3> QED BY <2>2, <3>2 DEF Traced, ExecutesInOrder
  <2> QED BY <2>1, <2>2, TraceInOrder
<1> QED BY <1>1, OrderAlways, PTL

\* When no instruction of a loop body names ECX, a program that ends has
\* executed every loop body times times and all else once.
THEOREM EverythingIsExecuted ==
  ASSUME ClosedTemplates, NamesCX = FALSE
  PROVE  Spec => []ExecutesEverything
<1>1. OrderOK => ExecutesEverything
  <2> SUFFICES ASSUME OrderOK, phase = "halt"
               PROVE  ExecutesEverything
    BY DEF ExecutesEverything
  <2>1. Ended(home, blocks, cpu.stack, trace)
    BY DEF OrderOK
  <2>2. \A n : Runs(n) = Ran(trace, n)
    <3>1. DOMAIN trace = 1..Len(trace)
      BY <2>1, LenProperties DEF Ended, Traced
    <3> QED BY <3>1 DEF Runs, Ran
  <2>3. \A n \in DOMAIN home : n \in 1..Len(home)
    <3>1. DOMAIN home = 1..Len(home)
      BY LenProperties DEF OrderOK
    <3> QED BY <3>1
  <2>4. \A n \in DOMAIN home : Full(home, blocks, trace, n)
    BY <2>1, <2>3 DEF Ended
  <2>5. ASSUME NEW n \in DOMAIN home
        PROVE  LET b == IF home[n] = 0 THEN [op |-> "none", times |-> 1] ELSE blocks[home[n]]
               IN IF b.op = "loopcc" THEN Runs(n) \in 1..b.times ELSE Runs(n) = b.times
    <3>1. CASE home[n] = 0
      BY <2>2, <2>4, <3>1 DEF Full
    <3>2. CASE home[n] # 0
      BY <2>2, <2>4, <3>2 DEF Full
    <3> QED BY <3>1, <3>2
  <2> QED BY <2>1, <2>5 DEF Ended, ExecutesEverything
<1>2. Spec => []OrderOK
  BY OrderAlways, PTL
<1> QED BY <1>1, <1>2, PTL
=============================================================================

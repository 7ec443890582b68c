------------------------------- MODULE Lemmas -------------------------------
(***************************************************************************)
(* What the proofs of several components use: induction and least elements *)
(* of sets of numbers, stated for sets so that they can be used with any   *)
(* property (the set of the numbers that have it), and what inserting next *)
(* to an entry, or at the tail, does to a list of entries.                 *)
(***************************************************************************)
EXTENDS SeqPlace, SequenceTheorems, WellFoundedInduction, TLAPS

-----------------------------------------------------------------------------
(* Numbers.                                                                *)

\* Every set of naturals that is not empty has a least element.
LEMMA LeastNat ==
  ASSUME NEW T, T \subseteq Nat, T # {}
  PROVE  \E x \in T : \A y \in T : x <= y
<1> DEFINE R == OpToRel(<, Nat)
<1>1. IsWellFoundedOn(R, Nat)
  BY NatLessThanWellFounded
<1>2. \A x, y \in Nat : x < y => <<x, y>> \in R
  BY DEF OpToRel
<1> HIDE DEF R
<1>3. PICK x \in T : \A y \in T : <<y, x>> \notin R
  BY <1>1, WFMin
<1>4. \A y \in T : ~(y < x)
  BY <1>2, <1>3
<1>5. \A y \in T : y \in Nat /\ x \in Nat
  OBVIOUS
<1>6. \A y \in T : x <= y
  BY <1>4, <1>5
<1> QED BY <1>6

\* Induction over the naturals.
LEMMA NatSetInduction ==
  ASSUME NEW S, 0 \in S, \A n \in Nat : n \in S => n + 1 \in S
  PROVE  \A n \in Nat : n \in S
<1> DEFINE T == Nat \ S
<1> SUFFICES ASSUME T # {} PROVE FALSE
  OBVIOUS
<1>1. PICK x \in T : \A y \in T : x <= y
  <2>1. T \subseteq Nat
    OBVIOUS
  <2> HIDE DEF T
  <2> QED BY <2>1, LeastNat
<1>2. x # 0 /\ x - 1 \in Nat /\ (x - 1) + 1 = x
  OBVIOUS
<1>3. x - 1 \in S
  BY <1>1, <1>2
<1>4. (x - 1) + 1 \in S
  BY <1>2, <1>3
<1> QED BY <1>2, <1>4

\* Induction up to a bound.
LEMMA IntervalInduction ==
  ASSUME NEW K \in Nat, NEW S, 0 \in S, \A n \in 0..(K - 1) : n \in S => n + 1 \in S
  PROVE  \A n \in 0..K : n \in S
<1> DEFINE T == {n \in Nat : n <= K => n \in S}
<1>1. 0 \in T
  OBVIOUS
<1>2. \A n \in Nat : n \in T => n + 1 \in T
  OBVIOUS
<1>3. \A n \in Nat : n \in T
  <2> HIDE DEF T
  <2> QED BY <1>1, <1>2, NatSetInduction
<1> QED BY <1>3

\* Induction up to a bound, from all smaller numbers.
LEMMA StrongInduction ==
  ASSUME NEW K \in Nat, NEW S, \A n \in 0..K : (\A k \in 0..(n - 1) : k \in S) => n \in S
  PROVE  \A n \in 0..K : n \in S
<1> DEFINE T == (0..K) \ S
<1> SUFFICES ASSUME T # {} PROVE FALSE
  OBVIOUS
<1>1. PICK x \in T : \A y \in T : x <= y
  <2>1. T \subseteq Nat
    OBVIOUS
  <2> HIDE DEF T
  <2> QED BY <2>1, LeastNat
<1>2. \A k \in 0..(x - 1) : k \in S
  <2> TAKE k \in 0..(x - 1)
  <2>1. k \in 0..K /\ ~(x <= k)
    BY <1>1
  <2> QED BY <2>1, <1>1
<1> QED BY <1>1, <1>2

-----------------------------------------------------------------------------
(* Lists.                                                                  *)

\* InsertAt puts e at place i and shifts the rest (TLIST_INSERT_BEFORE and
\* TLIST_INSERT_AFTER change no other link).
LEMMA InsertAtProperties ==
  ASSUME NEW S, NEW s \in Seq(S), NEW e \in S, NEW i \in 1..(Len(s) + 1)
  PROVE  /\ InsertAt(s, i, e) \in Seq(S)
         /\ Len(InsertAt(s, i, e)) = Len(s) + 1
         /\ \A j \in 1..(Len(s) + 1) :
              InsertAt(s, i, e)[j] = IF j < i THEN s[j]
                                     ELSE IF j = i THEN e ELSE s[j - 1]
<1> DEFINE a == SubSeq(s, 1, i - 1)
           b == SubSeq(s, i, Len(s))
<1>0. Len(s) \in Nat /\ (\A j \in 1..Len(s) : s[j] \in S)
  BY LenProperties, ElementOfSeq
<1>1. /\ a \in Seq(S) /\ Len(a) = i - 1
      /\ \A j \in 1..(i - 1) : a[j] = s[j]
  <2>1. \A j \in 1..(i - 1) : s[j] \in S
    BY <1>0
  <2>2. 1 \in Int /\ i - 1 \in Int
    BY <1>0
  <2> QED BY <2>1, <2>2, SubSeqProperties, <1>0
<1>2. /\ b \in Seq(S) /\ Len(b) = Len(s) - i + 1
      /\ \A j \in 1..(Len(s) - i + 1) : b[j] = s[i + j - 1]
  <2>1. \A j \in i..Len(s) : s[j] \in S
    BY <1>0
  <2>2. i \in Int /\ Len(s) \in Int
    BY <1>0
  <2> QED BY <2>1, <2>2, SubSeqProperties, <1>0
<1>3. <<e>> \in Seq(S) /\ Len(<<e>>) = 1 /\ <<e>>[1] = e
  OBVIOUS
<1> DEFINE c == a \o <<e>>
<1>4. /\ c \in Seq(S) /\ Len(c) = i
      /\ \A j \in 1..i : c[j] = IF j <= i - 1 THEN a[j] ELSE <<e>>[j - (i - 1)]
  <2> HIDE DEF a
  <2>1. /\ c \in Seq(S) /\ Len(c) = Len(a) + 1
        /\ \A j \in 1..(Len(a) + 1) : c[j] = IF j <= Len(a) THEN a[j] ELSE <<e>>[j - Len(a)]
    BY <1>1, <1>3, ConcatProperties
  <2> QED BY <2>1, <1>1, <1>0
<1>5. /\ c \o b \in Seq(S) /\ Len(c \o b) = Len(s) + 1
      /\ \A j \in 1..(Len(s) + 1) : (c \o b)[j] = IF j <= i THEN c[j] ELSE b[j - i]
  <2> HIDE DEF b, c
  <2>1. /\ c \o b \in Seq(S) /\ Len(c \o b) = Len(c) + Len(b)
        /\ \A j \in 1..(Len(c) + Len(b)) : (c \o b)[j] = IF j <= Len(c) THEN c[j] ELSE b[j - Len(c)]
    BY <1>2, <1>4, ConcatProperties
  <2> QED BY <2>1, <1>2, <1>4, <1>0
<1>6. ASSUME NEW j \in 1..(Len(s) + 1)
      PROVE  (c \o b)[j] = IF j < i THEN s[j] ELSE IF j = i THEN e ELSE s[j - 1]
  <2> HIDE DEF a, b, c
  <2>1. CASE j < i
    BY <2>1, <1>5, <1>4, <1>1, <1>0
  <2>2. CASE j = i
    <3>1. c[i] = <<e>>[i - (i - 1)]
      BY <1>4, <1>0
    <3>2. i - (i - 1) = 1
      BY <1>0
    <3>3. (c \o b)[i] = c[i]
      BY <1>5, <1>0
    <3> QED BY <2>2, <3>1, <3>2, <3>3, <1>3
  <2>3. CASE j > i
    <3>1. (c \o b)[j] = b[j - i]
      BY <2>3, <1>5, <1>0
    <3>2. j - i \in 1..(Len(s) - i + 1) /\ i + (j - i) - 1 = j - 1
      BY <2>3, <1>0
    <3>3. b[j - i] = s[j - 1]
      BY <3>2, <1>2
    <3> QED BY <3>1, <3>3, <2>3, <1>0
  <2>4. j < i \/ j = i \/ j > i
    BY <1>0
  <2> QED BY <2>1, <2>2, <2>3, <2>4
<1>7. InsertAt(s, i, e) = c \o b
  BY DEF InsertAt
<1> QED
  <2> HIDE DEF a, b, c
  <2> QED BY <1>5, <1>6, <1>7

\* After an insertion the list is one longer and holds the old entries and e.
LongerBy(s, t, e) ==
  /\ Len(t) = Len(s) + 1
  /\ \A j \in DOMAIN t : t[j] = e \/ \E i \in DOMAIN s : t[j] = s[i]
  /\ \A i \in DOMAIN s : \E j \in DOMAIN t : t[j] = s[i]
  /\ \E j \in DOMAIN t : t[j] = e

\* Inserting at a place up to one past the end keeps all the old entries and adds one.
LEMMA InsertAtGrows ==
  ASSUME NEW S, NEW s \in Seq(S), NEW e \in S, NEW i \in 1..(Len(s) + 1)
  PROVE  InsertAt(s, i, e) \in Seq(S) /\ LongerBy(s, InsertAt(s, i, e), e)
<1> DEFINE t == InsertAt(s, i, e)
<1>1. /\ t \in Seq(S) /\ Len(t) = Len(s) + 1
      /\ \A j \in 1..(Len(s) + 1) :
           t[j] = IF j < i THEN s[j] ELSE IF j = i THEN e ELSE s[j - 1]
  BY InsertAtProperties
<1> HIDE DEF t
<1>2. DOMAIN s = 1..Len(s) /\ DOMAIN t = 1..(Len(s) + 1) /\ Len(s) \in Nat
  BY <1>1, LenProperties
<1>3. \A j \in DOMAIN t : t[j] = e \/ \E k \in DOMAIN s : t[j] = s[k]
  <2> TAKE j \in DOMAIN t
  <2>1. CASE j < i
    BY <2>1, <1>1, <1>2
  <2>2. CASE j = i
    BY <2>2, <1>1, <1>2
  <2>3. CASE j > i
    <3>1. t[j] = s[j - 1] /\ j - 1 \in DOMAIN s
      BY <2>3, <1>1, <1>2
    <3> QED BY <3>1
  <2> QED BY <2>1, <2>2, <2>3, <1>2
<1>4. \A k \in DOMAIN s : \E j \in DOMAIN t : t[j] = s[k]
  <2> TAKE k \in DOMAIN s
  <2>1. CASE k < i
    BY <2>1, <1>1, <1>2
  <2>2. CASE k >= i
    <3>1. t[k + 1] = s[k] /\ k + 1 \in DOMAIN t
      BY <2>2, <1>1, <1>2
    <3> QED BY <3>1
  <2> QED BY <2>1, <2>2, <1>2
<1>5. \E j \in DOMAIN t : t[j] = e
  <2>1. i \in DOMAIN t /\ t[i] = e
    BY <1>1, <1>2
  <2> QED BY <2>1
<1> QED BY <1>1, <1>3, <1>4, <1>5 DEF LongerBy, t

\* Inserting before an entry of the list keeps all the old entries and adds one.
LEMMA PutBeforeGrows ==
  ASSUME NEW S, NEW s \in Seq(S), NEW e \in S, NEW pos,
         s = << >> \/ \E i \in DOMAIN s : s[i] = pos
  PROVE  PutBefore(s, pos, e) \in Seq(S) /\ LongerBy(s, PutBefore(s, pos, e), e)
<1>1. CASE s = << >>
  BY <1>1 DEF PutBefore, LongerBy
<1>2. CASE s # << >>
  <2>1. PlaceOf(s, pos) \in 1..Len(s)
    BY <1>2, LenProperties DEF PlaceOf
  <2>2. PlaceOf(s, pos) \in 1..(Len(s) + 1)
    BY <2>1, LenProperties
  <2> QED BY <1>2, <2>2, InsertAtGrows DEF PutBefore
<1> QED BY <1>1, <1>2

\* Inserting after an entry of the list keeps all the old entries and adds one.
LEMMA PutAfterGrows ==
  ASSUME NEW S, NEW s \in Seq(S), NEW e \in S, NEW pos,
         s = << >> \/ \E i \in DOMAIN s : s[i] = pos
  PROVE  PutAfter(s, pos, e) \in Seq(S) /\ LongerBy(s, PutAfter(s, pos, e), e)
<1>1. CASE s = << >>
  BY <1>1 DEF PutAfter, LongerBy
<1>2. CASE s # << >>
  <2>1. PlaceOf(s, pos) \in 1..Len(s)
    BY <1>2, LenProperties DEF PlaceOf
  <2>2. PlaceOf(s, pos) + 1 \in 1..(Len(s) + 1)
    BY <2>1, LenProperties
  <2> QED BY <1>2, <2>2, InsertAtGrows DEF PutAfter
<1> QED BY <1>1, <1>2

\* Appending keeps all the old entries and adds one.
LEMMA AppendGrows ==
  ASSUME NEW S, NEW s \in Seq(S), NEW e \in S
  PROVE  Append(s, e) \in Seq(S) /\ LongerBy(s, Append(s, e), e)
<1> DEFINE t == Append(s, e)
<1>1. /\ t \in Seq(S) /\ Len(t) = Len(s) + 1
      /\ \A i \in 1..Len(s) : t[i] = s[i]
      /\ t[Len(s) + 1] = e
  BY AppendProperties
<1> HIDE DEF t
<1>2. DOMAIN s = 1..Len(s) /\ DOMAIN t = 1..(Len(s) + 1) /\ Len(s) \in Nat
  BY <1>1, LenProperties
<1> QED BY <1>1, <1>2 DEF LongerBy, t
=============================================================================

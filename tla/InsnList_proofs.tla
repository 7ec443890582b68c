--------------------------- MODULE InsnList_proofs ---------------------------
(***************************************************************************)
(* What is proved of the instruction list: for any heap, any order of      *)
(* insertions and any positions, the links of queue.h hold the entries     *)
(* allocated, and the list implements the sequence that InsnSeq promises.  *)
(***************************************************************************)
EXTENDS InsnList, Lemmas, FiniteSetTheorems

-----------------------------------------------------------------------------
(* Links and sequences.                                                    *)

\* Following next from first meets the entries of s.
Linked(s, first, next) ==
  /\ first = IF s = << >> THEN NULL ELSE s[1]
  /\ \A i \in DOMAIN s : next[s[i]] = IF i = Len(s) THEN NULL ELSE s[i + 1]

\* The links hold s, forward and back.
Whole(s, first, next, prev) ==
  /\ s \in Seq(Entry) /\ IsInjective(s)
  /\ next \in [Entry -> Entry \cup {NULL}]
  /\ prev \in [Entry -> Entry \cup {NULL, HEAD}]
  /\ Linked(s, first, next)
  /\ \A i \in DOMAIN s : prev[s[i]] = IF i = 1 THEN HEAD ELSE s[i - 1]

\* A list of distinct entries is no longer than the heap.
LEMMA InjectiveLength ==
  ASSUME NEW s \in Seq(Entry), IsInjective(s)
  PROVE  /\ Cardinality(Entry) \in Nat /\ Len(s) \in 0..Cardinality(Entry)
         /\ Cardinality(ToSet(s)) = Len(s)
<1>1. IsFiniteSet(Entry) /\ Cardinality(Entry) \in Nat
  BY HeapFinite, FS_CardinalityType
<1>2. Len(s) \in Nat /\ DOMAIN s = 1..Len(s) /\ s \in [1..Len(s) -> Entry]
  BY LenProperties
<1>3. IsFiniteSet(1..Len(s)) /\ Cardinality(1..Len(s)) = Len(s)
  BY <1>2, FS_Interval
<1>4. ToSet(s) \subseteq Entry
  BY <1>2 DEF ToSet
<1>5. s \in Bijection(1..Len(s), ToSet(s))
  <2>1. s \in [1..Len(s) -> ToSet(s)]
    BY <1>2 DEF ToSet
  <2>2. \A x, y \in 1..Len(s) : s[x] = s[y] => x = y
    BY <1>2 DEF IsInjective
  <2>3. \A y \in ToSet(s) : \E x \in 1..Len(s) : s[x] = y
    BY <1>2 DEF ToSet
  <2> QED BY <2>1, <2>2, <2>3 DEF Bijection, Injection, Surjection
<1>6. Cardinality(ToSet(s)) = Len(s)
  BY <1>3, <1>5, FS_Bijection DEF ExistsBijection
<1>7. Cardinality(ToSet(s)) <= Cardinality(Entry)
  BY <1>1, <1>4, FS_Subset
<1> QED BY <1>1, <1>2, <1>6, <1>7

\* A prefix of the list, and what one more entry makes of it.
LEMMA SubSeqGrows ==
  ASSUME NEW s \in Seq(Entry), NEW k \in 0..Len(s)
  PROVE  /\ SubSeq(s, 1, k) \in Seq(Entry) /\ Len(SubSeq(s, 1, k)) = k
         /\ \A i \in 1..k : SubSeq(s, 1, k)[i] = s[i]
         /\ k < Len(s) => Append(SubSeq(s, 1, k), s[k + 1]) = SubSeq(s, 1, k + 1)
<1>1. Len(s) \in Nat /\ \A i \in 1..Len(s) : s[i] \in Entry
  BY LenProperties, ElementOfSeq
<1>2. ASSUME NEW n \in 0..Len(s)
      PROVE  /\ SubSeq(s, 1, n) \in Seq(Entry) /\ Len(SubSeq(s, 1, n)) = n
             /\ \A i \in 1..n : SubSeq(s, 1, n)[i] = s[i]
  <2>1. \A i \in 1..n : s[i] \in Entry
    BY <1>1
  <2>2. 1 \in Int /\ n \in Int
    BY <1>1
  <2>3. /\ SubSeq(s, 1, n) \in Seq(Entry)
        /\ Len(SubSeq(s, 1, n)) = IF 1 <= n THEN n - 1 + 1 ELSE 0
        /\ \A i \in 1..(n - 1 + 1) : SubSeq(s, 1, n)[i] = s[1 + i - 1]
    BY <2>1, <2>2, SubSeqProperties
  <2> QED BY <2>3, <1>1
<1>3. ASSUME k < Len(s)
      PROVE  Append(SubSeq(s, 1, k), s[k + 1]) = SubSeq(s, 1, k + 1)
  <2> DEFINE n == k + 1
             c == SubSeq(s, 1, k)
             t == SubSeq(s, 1, n)
             a == Append(c, s[n])
  <2>1. n \in 0..Len(s) /\ n \in 1..Len(s) /\ k \in 0..Len(s) /\ n - 1 = k
    BY <1>1, <1>3
  <2> HIDE DEF n
  <2>2. t \in Seq(Entry) /\ Len(t) = n /\ \A i \in 1..n : t[i] = s[i]
    BY <2>1, <1>2
  <2>3. c \in Seq(Entry) /\ Len(c) = k /\ \A i \in 1..k : c[i] = s[i]
    BY <2>1, <1>2
  <2> HIDE DEF c, t
  <2>4. /\ a \in Seq(Entry) /\ Len(a) = Len(c) + 1
        /\ (\A i \in 1..Len(c) : a[i] = c[i]) /\ a[Len(c) + 1] = s[n]
    BY <2>1, <2>3, <1>1, AppendProperties
  <2> HIDE DEF a
  <2>5. ASSUME NEW i \in 1..n PROVE t[i] = a[i]
    <3>1. CASE i = n
      BY <3>1, <2>1, <2>2, <2>3, <2>4 DEF n
    <3>2. CASE i # n
      <4>1. i \in 1..k
        BY <3>2, <2>1
      <4> QED BY <4>1, <2>2, <2>3, <2>4
    <3> QED BY <3>1, <3>2
  <2>6. a = t
    BY <2>1, <2>2, <2>3, <2>4, <2>5, SeqEqual DEF n
  <2> QED BY <2>6 DEF a, c, t, n
<1> QED BY <1>2, <1>3

\* The loop of TLIST_FOREACH meets exactly the entries that are linked, in their order.
LEMMA FollowedIsLinked ==
  ASSUME NEW s \in Seq(Entry), IsInjective(s), NEW first, NEW next, Linked(s, first, next)
  PROVE  Followed(first, next) = s
<1> DEFINE K == Cardinality(Entry)
           Step(c, n) == LET e == IF c = << >> THEN first ELSE next[c[Len(c)]]
                         IN IF Len(c) < n - 1 \/ e = NULL THEN c ELSE Append(c, e)
           Is(f) == f = [n \in 0..K |-> IF n = 0 THEN << >> ELSE Step(f[n - 1], n)]
           g == [n \in 0..K |-> SubSeq(s, 1, IF n <= Len(s) THEN n ELSE Len(s))]
           f == CHOOSE f : Is(f)
<1>1. K \in Nat /\ Len(s) \in 0..K
  BY InjectiveLength
<1>2. DOMAIN s = 1..Len(s) /\ (\A i \in 1..Len(s) : s[i] \in Entry /\ s[i] # NULL)
  BY LenProperties, ElementOfSeq, PointersDistinct
<1>3. ASSUME NEW n \in 0..Len(s)
      PROVE  /\ SubSeq(s, 1, n) \in Seq(Entry) /\ Len(SubSeq(s, 1, n)) = n
             /\ \A i \in 1..n : SubSeq(s, 1, n)[i] = s[i]
  BY SubSeqGrows
<1>4. \A n \in 1..K : g[n] = Step(g[n - 1], n)
  <2> SUFFICES ASSUME NEW n \in 1..K PROVE g[n] = Step(g[n - 1], n)
    OBVIOUS
  <2> DEFINE c == g[n - 1]
             e == IF c = << >> THEN first ELSE next[c[Len(c)]]
  <2>0. n \in Nat /\ n - 1 \in 0..K /\ n \in 0..K
    BY <1>1
  <2>1. CASE n <= Len(s)
    <3>1. c = SubSeq(s, 1, n - 1) /\ n - 1 \in 0..Len(s) /\ n \in 0..Len(s)
      BY <2>0, <2>1, <1>1
    <3>2. Len(c) = n - 1 /\ c \in Seq(Entry) /\ (\A i \in 1..(n - 1) : c[i] = s[i])
      BY <3>1, <1>3
    <3>3. e = s[n]
      <4>1. CASE n = 1
        BY <4>1, <3>2, <2>1, <1>1, <1>2, EmptySeq DEF Linked
      <4>2. CASE n # 1
        <5>1. c # << >> /\ Len(c) \in 1..(n - 1) /\ c[Len(c)] = s[n - 1] /\ n - 1 \in DOMAIN s
          BY <4>2, <3>2, <2>0, <2>1, <1>1, <1>2, EmptySeq
        <5>2. next[s[n - 1]] = s[n]
          BY <5>1, <2>0, <2>1, <1>1, <1>2 DEF Linked
        <5> QED BY <5>1, <5>2
      <4> QED BY <4>1, <4>2
    <3>4. e # NULL
      BY <3>3, <2>0, <2>1, <1>2
    <3>5. Append(c, e) = SubSeq(s, 1, n)
      <4>1. n - 1 < Len(s) /\ (n - 1) + 1 = n
        BY <2>0, <2>1, <1>1
      <4>2. Append(SubSeq(s, 1, n - 1), s[(n - 1) + 1]) = SubSeq(s, 1, (n - 1) + 1)
        BY <4>1, <3>1, SubSeqGrows
      <4> HIDE DEF c, e
      <4> QED BY <4>1, <4>2, <3>1, <3>3
    <3> HIDE DEF c, e
    <3>6. g[n] = SubSeq(s, 1, n)
      BY <2>0, <2>1
    <3>7. Step(c, n) = Append(c, e)
      BY <3>2, <3>4, <2>0 DEF e
    <3> QED BY <3>5, <3>6, <3>7 DEF c
  <2>2. CASE n > Len(s)
    <3>1. c = SubSeq(s, 1, Len(s)) /\ g[n] = SubSeq(s, 1, Len(s))
      BY <2>0, <2>2, <1>1
    <3>2. SubSeq(s, 1, Len(s)) = s
      BY SubSeqFull
    <3>3. Len(s) < n - 1 \/ e = NULL
      <4>1. CASE n = Len(s) + 1
        <5>1. CASE s = << >>
          BY <5>1, <3>1, <3>2 DEF Linked
        <5>2. CASE s # << >>
          <6>1. Len(s) \in DOMAIN s
            BY <5>2, <1>1, <1>2, EmptySeq
          <6> QED BY <6>1, <5>2, <3>1, <3>2 DEF Linked
        <5> QED BY <5>1, <5>2
      <4> QED BY <4>1, <2>2, <2>0, <1>1
    <3> HIDE DEF g
    <3>4. Step(c, n) = c
      <4> HIDE DEF c
      <4>1. Len(c) = Len(s)
        BY <3>1, <3>2
      <4> QED BY <4>1, <3>3
    <3> QED BY <3>1, <3>4
  <2>3. n <= Len(s) \/ n > Len(s)
    BY <2>0, <1>1
  <2> HIDE DEF g, Step
  <2> QED BY <2>1, <2>2, <2>3
<1>5. Is(g)
  <2>1. g[0] = << >>
    BY <1>1, SubSeqEmpty
  <2> DEFINE h == [n \in 0..K |-> IF n = 0 THEN << >> ELSE Step(g[n - 1], n)]
  <2>2. \A n \in 0..K : g[n] = IF n = 0 THEN << >> ELSE Step(g[n - 1], n)
    <3> HIDE DEF g, Step
    <3>1. \A n \in 0..K : n = 0 \/ n \in 1..K
      BY <1>1
    <3> QED BY <3>1, <2>1, <1>4
  <2>3. g = [n \in 0..K |-> g[n]]
    OBVIOUS
  <2> HIDE DEF g, Step
  <2>4. g = h
    BY <2>2, <2>3, Zenon
  <2> QED BY <2>4
<1> HIDE DEF g
<1>6. Is(f)
  <2> HIDE DEF Is
  <2>1. \E x : Is(x)
    BY <1>5
  <2>2. Is(CHOOSE x : Is(x))
    BY <2>1, Zenon
  <2> QED BY <2>2
<1>7. \A n \in 0..K : f[n] = g[n]
  <2> DEFINE S == {n \in 0..K : f[n] = g[n]}
  <2>1. 0 \in S
    <3> HIDE DEF f, Step
    <3>1. 0 \in 0..K
      BY <1>1
    <3>2. f[0] = << >> /\ g[0] = << >>
      BY <3>1, <1>5, <1>6
    <3> QED BY <3>1, <3>2
  <2>2. ASSUME NEW n \in 0..(K - 1), n \in S PROVE n + 1 \in S
    <3>1. n + 1 \in 0..K /\ n + 1 # 0 /\ (n + 1) - 1 = n
      BY <1>1
    <3>2. f[n] = g[n]
      BY <2>2
    <3> HIDE DEF f, Step
    <3>3. f[n + 1] = Step(f[n], n + 1) /\ g[n + 1] = Step(g[n], n + 1)
      BY <3>1, <1>5, <1>6
    <3> QED BY <3>1, <3>2, <3>3
  <2> HIDE DEF S
  <2>3. \A n \in 0..K : n \in S
    BY <1>1, <2>1, <2>2, IntervalInduction
  <2> QED BY <2>3 DEF S
<1>8. Followed(first, next) = f[K]
  BY DEF Followed
<1>9. g[K] = s
  <2>1. g[K] = SubSeq(s, 1, Len(s))
    BY <1>1 DEF g
  <2> QED BY <2>1, SubSeqFull
<1> HIDE DEF f
<1> QED BY <1>1, <1>7, <1>8, <1>9

-----------------------------------------------------------------------------
(* What the macros of queue.h do to a whole list, seen at its entries.     *)

\* Inserting a new entry keeps the entries distinct.
LEMMA InsertAtInjective ==
  ASSUME NEW s \in Seq(Entry), IsInjective(s), NEW e \in Entry, e \notin ToSet(s),
         NEW k \in 1..(Len(s) + 1)
  PROVE  /\ IsInjective(InsertAt(s, k, e))
         /\ ToSet(InsertAt(s, k, e)) = ToSet(s) \cup {e}
<1> DEFINE t == InsertAt(s, k, e)
<1>1. /\ t \in Seq(Entry) /\ Len(t) = Len(s) + 1
      /\ \A j \in 1..(Len(s) + 1) :
           t[j] = IF j < k THEN s[j] ELSE IF j = k THEN e ELSE s[j - 1]
  BY InsertAtProperties, SMTT(40)
<1> HIDE DEF t
<1>2. /\ Len(s) \in Nat /\ DOMAIN s = 1..Len(s) /\ DOMAIN t = 1..(Len(s) + 1)
      /\ ToSet(s) = {s[j] : j \in 1..Len(s)}
      /\ ToSet(t) = {t[j] : j \in 1..(Len(s) + 1)}
  BY <1>1, LenProperties DEF ToSet
<1>3. IsInjective(t)
  <2> SUFFICES ASSUME NEW a \in 1..(Len(s) + 1), NEW b \in 1..(Len(s) + 1), t[a] = t[b]
               PROVE  a = b
    BY <1>2 DEF IsInjective
  <2>1. \A i \in 1..Len(s) : s[i] # e
    BY <1>2
  <2>2. \A i, j \in 1..Len(s) : s[i] = s[j] => i = j
    BY <1>2 DEF IsInjective
  <2>3. t[a] = (IF a < k THEN s[a] ELSE IF a = k THEN e ELSE s[a - 1])
    BY <1>1
  <2>4. t[b] = (IF b < k THEN s[b] ELSE IF b = k THEN e ELSE s[b - 1])
    BY <1>1
  <2>5. /\ a < k => a \in 1..Len(s)
        /\ b < k => b \in 1..Len(s)
        /\ a > k => a - 1 \in 1..Len(s)
        /\ b > k => b - 1 \in 1..Len(s)
    BY <1>2
  <2>6. k \in Int /\ a \in Int /\ b \in Int
    BY <1>2
  <2>7. CASE a < k
    <3>1. t[a] = s[a] /\ a \in 1..Len(s) /\ t[a] # e
      BY <2>7, <2>1, <2>3, <2>5
    <3>2. CASE b < k
      BY <3>1, <3>2, <2>2, <2>4, <2>5
    <3>3. CASE b = k
      <4>1. ~(b < k)
        BY <3>3, <2>6
      <4>2. t[b] = e
        BY <4>1, <3>3, <2>4
      <4> QED BY <4>2, <3>1
    <3>4. CASE b > k
      <4>1. t[b] = s[b - 1] /\ b - 1 \in 1..Len(s)
        BY <3>4, <2>4, <2>5, <2>6
      <4>2. a = b - 1
        BY <3>1, <4>1, <2>2
      <4> QED BY <4>2, <2>7, <3>4, <2>6
    <3> QED BY <3>2, <3>3, <3>4, <2>6
  <2>8. CASE a = k
    <3>1. t[b] = e
      BY <2>8, <2>3
    <3>2. ~(b < k)
      BY <3>1, <2>1, <2>4, <2>5
    <3>3. ~(b > k)
      <4> SUFFICES ASSUME b > k PROVE FALSE
        OBVIOUS
      <4>1. t[b] = s[b - 1] /\ b - 1 \in 1..Len(s)
        BY <2>4, <2>5, <2>6
      <4> QED BY <4>1, <3>1, <2>1
    <3> QED BY <3>2, <3>3, <2>6, <2>8
  <2>9. CASE a > k
    <3>1. t[a] = s[a - 1] /\ a - 1 \in 1..Len(s)
      BY <2>9, <2>3, <2>5, <2>6
    <3>2. CASE b < k
      <4>1. t[b] = s[b] /\ b \in 1..Len(s)
        BY <3>2, <2>4, <2>5
      <4>2. b = a - 1
        BY <3>1, <4>1, <2>2
      <4> QED BY <4>2, <2>9, <3>2, <2>6
    <3>3. CASE b = k
      <4>1. ~(b < k)
        BY <3>3, <2>6
      <4>2. t[b] = e
        BY <4>1, <3>3, <2>4
      <4> QED BY <4>2, <3>1, <2>1
    <3>4. CASE b > k
      <4>1. t[b] = s[b - 1] /\ b - 1 \in 1..Len(s)
        BY <3>4, <2>4, <2>5, <2>6
      <4>2. a - 1 = b - 1
        BY <3>1, <4>1, <2>2
      <4> QED BY <4>2, <2>6
    <3> QED BY <3>2, <3>3, <3>4, <2>6
  <2> QED BY <2>7, <2>8, <2>9, <2>6
<1>4. ToSet(t) \subseteq ToSet(s) \cup {e}
  <2> SUFFICES ASSUME NEW j \in 1..(Len(s) + 1) PROVE t[j] = e \/ t[j] \in ToSet(s)
    BY <1>2
  <2>1. CASE j < k
    BY <2>1, <1>1, <1>2
  <2>2. CASE j = k
    BY <2>2, <1>1, <1>2
  <2>3. CASE j > k
    <3>1. t[j] = s[j - 1] /\ j - 1 \in 1..Len(s)
      BY <2>3, <1>1, <1>2
    <3> QED BY <3>1, <1>2
  <2> QED BY <2>1, <2>2, <2>3, <1>2
<1>5. e \in ToSet(t)
  <2>1. t[k] = e
    BY <1>1
  <2> QED BY <2>1, <1>2
<1>6. ASSUME NEW j \in 1..Len(s) PROVE s[j] \in ToSet(t)
  <2>1. CASE j < k
    <3>1. t[j] = s[j] /\ j \in 1..(Len(s) + 1)
      BY <2>1, <1>1, <1>2
    <3> QED BY <3>1, <1>2
  <2>2. CASE j >= k
    <3>1. t[j + 1] = s[j] /\ j + 1 \in 1..(Len(s) + 1)
      BY <2>2, <1>1, <1>2
    <3> QED BY <3>1, <1>2
  <2> QED BY <2>1, <2>2, <1>2
<1>7. ToSet(t) = ToSet(s) \cup {e}
  <2>1. ToSet(s) \subseteq ToSet(t)
    BY <1>2, <1>6
  <2> QED BY <2>1, <1>4, <1>5
<1> QED BY <1>3, <1>7 DEF t

\* An insertion in front of the k-th entry redirects the link before it, the
\* back link behind it, and no other.
LEMMA InsertKeepsWhole ==
  ASSUME NEW s, NEW first, NEW next, NEW prev, Whole(s, first, next, prev),
         NEW k \in 1..(Len(s) + 1), NEW e \in Entry, e \notin ToSet(s),
         NEW first2, first2 = IF k = 1 THEN e ELSE first,
         NEW next2 \in [Entry -> Entry \cup {NULL}],
         next2[e] = IF k = Len(s) + 1 THEN NULL ELSE s[k],
         \A j \in DOMAIN s : next2[s[j]] = IF j = k - 1 THEN e ELSE next[s[j]],
         NEW prev2 \in [Entry -> Entry \cup {NULL, HEAD}],
         prev2[e] = IF k = 1 THEN HEAD ELSE s[k - 1],
         \A j \in DOMAIN s : prev2[s[j]] = IF j = k THEN e ELSE prev[s[j]]
  PROVE  Whole(InsertAt(s, k, e), first2, next2, prev2)
<1> DEFINE t == InsertAt(s, k, e)
<1>0. /\ s \in Seq(Entry) /\ IsInjective(s)
      /\ first = IF s = << >> THEN NULL ELSE s[1]
      /\ \A i \in DOMAIN s : next[s[i]] = IF i = Len(s) THEN NULL ELSE s[i + 1]
      /\ \A i \in DOMAIN s : prev[s[i]] = IF i = 1 THEN HEAD ELSE s[i - 1]
  BY DEF Whole, Linked
<1>1. /\ t \in Seq(Entry) /\ Len(t) = Len(s) + 1
      /\ \A j \in 1..(Len(s) + 1) :
           t[j] = IF j < k THEN s[j] ELSE IF j = k THEN e ELSE s[j - 1]
  BY <1>0, InsertAtProperties, SMTT(40)
<1>2. IsInjective(t)
  BY <1>0, InsertAtInjective
<1> HIDE DEF t
<1>3. /\ Len(s) \in Nat /\ DOMAIN s = 1..Len(s) /\ DOMAIN t = 1..(Len(s) + 1)
  BY <1>0, <1>1, LenProperties
<1>4. first2 = IF t = << >> THEN NULL ELSE t[1]
  <2>1. t # << >>
    BY <1>1, <1>3, EmptySeq
  <2>2. CASE k = 1
    <3>1. t[1] = e
      BY <2>2, <1>1, <1>3
    <3> QED BY <3>1, <2>1, <2>2
  <2>3. CASE k # 1
    <3>1. s # << >> /\ t[1] = s[1]
      BY <2>3, <1>1, <1>3, EmptySeq
    <3> QED BY <3>1, <2>1, <2>3, <1>0
  <2> QED BY <2>2, <2>3
<1>5. ASSUME NEW j \in 1..(Len(s) + 1)
      PROVE  /\ next2[t[j]] = IF j = Len(t) THEN NULL ELSE t[j + 1]
             /\ prev2[t[j]] = IF j = 1 THEN HEAD ELSE t[j - 1]
  <2>1. CASE j < k
    <3>1. t[j] = s[j] /\ j \in DOMAIN s /\ j # Len(t)
      BY <2>1, <1>1, <1>3
    <3>2. t[j + 1] = (IF j = k - 1 THEN e ELSE s[j + 1])
      BY <2>1, <1>1, <1>3
    <3>3. j # k - 1 => j # Len(s)
      <4>1. j \in Int /\ k \in Int /\ k <= Len(s) + 1 /\ Len(s) \in Int
        BY <1>3
      <4> QED BY <4>1, <2>1
    <3>4. next2[s[j]] = (IF j = k - 1 THEN e ELSE next[s[j]])
      BY <3>1
    <3>5. next[s[j]] = IF j = Len(s) THEN NULL ELSE s[j + 1]
      BY <3>1, <1>0
    <3>6. prev2[s[j]] = prev[s[j]]
      BY <3>1, <2>1, <1>3
    <3>7. prev[s[j]] = IF j = 1 THEN HEAD ELSE s[j - 1]
      BY <3>1, <1>0
    <3>8. j # 1 => t[j - 1] = s[j - 1]
      BY <2>1, <1>1, <1>3
    <3> QED BY <3>1, <3>2, <3>3, <3>4, <3>5, <3>6, <3>7, <3>8
  <2>2. CASE j = k
    <3>1. t[j] = e
      BY <2>2, <1>1
    <3>2. j # Len(t) => t[j + 1] = s[k]
      BY <2>2, <1>1, <1>3
    <3>3. j # 1 => t[j - 1] = s[k - 1]
      BY <2>2, <1>1, <1>3
    <3> QED BY <3>1, <3>2, <3>3, <2>2, <1>1
  <2>3. CASE j > k
    <3> DEFINE i == j - 1
    <3>1. t[j] = s[i] /\ i \in DOMAIN s /\ i # k - 1 /\ j # 1
      BY <2>3, <1>1, <1>3
    <3>2. j # Len(t) => t[j + 1] = s[i + 1]
      <4> SUFFICES ASSUME j # Len(t) PROVE t[j + 1] = s[i + 1]
        OBVIOUS
      <4>0. j \in Int /\ k \in Int /\ j < Len(s) + 1
        BY <1>1, <1>3
      <4>1. j + 1 \in 1..(Len(s) + 1) /\ ~(j + 1 < k) /\ j + 1 # k /\ (j + 1) - 1 = i + 1
        BY <4>0, <2>3, <1>3
      <4> HIDE DEF i
      <4> QED BY <4>1, <1>1
    <3>3. t[j - 1] = IF i = k THEN e ELSE s[i - 1]
      BY <2>3, <1>1, <1>3
    <3>5. (i = Len(s)) = (j = Len(t)) /\ (i # k => i # 1)
      BY <2>3, <1>1, <1>3
    <3> HIDE DEF i
    <3>6. next2[s[i]] = next[s[i]]
      BY <3>1
    <3>7. next[s[i]] = IF i = Len(s) THEN NULL ELSE s[i + 1]
      BY <3>1, <1>0
    <3>8. prev2[s[i]] = IF i = k THEN e ELSE prev[s[i]]
      BY <3>1
    <3>9. prev[s[i]] = IF i = 1 THEN HEAD ELSE s[i - 1]
      BY <3>1, <1>0
    <3> QED BY <3>1, <3>2, <3>3, <3>5, <3>6, <3>7, <3>8, <3>9
  <2>4. j < k \/ j = k \/ j > k
    BY <1>3
  <2> QED BY <2>1, <2>2, <2>3, <2>4
<1>6. Linked(t, first2, next2)
  BY <1>3, <1>4, <1>5 DEF Linked
<1>7. Whole(t, first2, next2, prev2)
  BY <1>1, <1>2, <1>3, <1>5, <1>6 DEF Whole
<1> QED BY <1>7 DEF t

\* Removing the first entry moves the head link and the second entry's back link.
LEMMA TailKeepsWhole ==
  ASSUME NEW s, NEW first, NEW next, NEW prev, Whole(s, first, next, prev), s # << >>,
         NEW next2 \in [Entry -> Entry \cup {NULL}],
         \A j \in 2..Len(s) : next2[s[j]] = next[s[j]],
         NEW prev2 \in [Entry -> Entry \cup {NULL, HEAD}],
         \A j \in 2..Len(s) : prev2[s[j]] = IF j = 2 THEN HEAD ELSE prev[s[j]]
  PROVE  /\ Whole(Tail(s), next[s[1]], next2, prev2)
         /\ ToSet(Tail(s)) = ToSet(s) \ {s[1]}
<1> DEFINE t == Tail(s)
<1>0. /\ s \in Seq(Entry) /\ IsInjective(s)
      /\ \A i \in DOMAIN s : next[s[i]] = IF i = Len(s) THEN NULL ELSE s[i + 1]
      /\ \A i \in DOMAIN s : prev[s[i]] = IF i = 1 THEN HEAD ELSE s[i - 1]
  BY DEF Whole, Linked
<1>1. /\ t \in Seq(Entry) /\ Len(t) = Len(s) - 1
      /\ \A i \in 1..Len(t) : t[i] = s[i + 1]
  BY <1>0, HeadTailProperties
<1> HIDE DEF t
<1>2. /\ Len(s) \in Nat /\ Len(s) >= 1 /\ DOMAIN s = 1..Len(s) /\ DOMAIN t = 1..(Len(s) - 1)
      /\ ToSet(s) = {s[j] : j \in 1..Len(s)}
      /\ ToSet(t) = {t[j] : j \in 1..(Len(s) - 1)}
  <2>1. Len(s) \in Nat /\ DOMAIN s = 1..Len(s) /\ DOMAIN t = 1..Len(t)
    BY <1>0, <1>1, LenProperties
  <2>2. Len(s) # 0
    BY <1>0, EmptySeq
  <2> QED BY <1>1, <2>1, <2>2 DEF ToSet
<1>3. \A i, j \in 1..Len(s) : s[i] = s[j] => i = j
  BY <1>0, <1>2 DEF IsInjective
<1>4. IsInjective(t)
  <2> SUFFICES ASSUME NEW a \in 1..(Len(s) - 1), NEW b \in 1..(Len(s) - 1), t[a] = t[b]
               PROVE  a = b
    BY <1>2 DEF IsInjective
  <2>1. t[a] = s[a + 1] /\ t[b] = s[b + 1] /\ a + 1 \in 1..Len(s) /\ b + 1 \in 1..Len(s)
    BY <1>1, <1>2
  <2>2. a + 1 = b + 1
    BY <2>1, <1>3
  <2> QED BY <2>2
<1>5. next[s[1]] = IF t = << >> THEN NULL ELSE t[1]
  <2>1. (t = << >>) <=> (Len(s) = 1)
    BY <1>1, <1>2, EmptySeq
  <2>2. Len(s) # 1 => t[1] = s[2]
    BY <1>1, <1>2
  <2>3. next[s[1]] = IF 1 = Len(s) THEN NULL ELSE s[1 + 1]
    BY <1>0, <1>2
  <2> QED BY <2>1, <2>2, <2>3
<1>6. ASSUME NEW i \in 1..(Len(s) - 1)
      PROVE  /\ next2[t[i]] = IF i = Len(t) THEN NULL ELSE t[i + 1]
             /\ prev2[t[i]] = IF i = 1 THEN HEAD ELSE t[i - 1]
  <2> DEFINE j == i + 1
  <2>1. t[i] = s[j] /\ j \in 2..Len(s) /\ j \in DOMAIN s /\ j # 1
    BY <1>1, <1>2
  <2>2. (i = Len(t)) <=> (j = Len(s))
    BY <1>1, <1>2
  <2>3. i # Len(t) => t[i + 1] = s[j + 1]
    <3> SUFFICES ASSUME i # Len(t) PROVE t[i + 1] = s[j + 1]
      OBVIOUS
    <3>1. i + 1 \in 1..Len(t)
      BY <1>1, <1>2
    <3> QED BY <3>1, <1>1
  <2>4. i # 1 => t[i - 1] = s[j - 1]
    <3> SUFFICES ASSUME i # 1 PROVE t[i - 1] = s[j - 1]
      OBVIOUS
    <3>1. i - 1 \in 1..Len(t) /\ (i - 1) + 1 = j - 1
      BY <1>1, <1>2
    <3> HIDE DEF j
    <3> QED BY <3>1, <1>1
  <2>5. (i = 1) <=> (j = 2)
    OBVIOUS
  <2> HIDE DEF j
  <2>6. next2[s[j]] = IF j = Len(s) THEN NULL ELSE s[j + 1]
    BY <2>1, <1>0
  <2>7. prev2[s[j]] = IF j = 2 THEN HEAD ELSE s[j - 1]
    BY <2>1, <1>0
  <2> QED BY <2>1, <2>2, <2>3, <2>4, <2>5, <2>6, <2>7
<1>7. Whole(t, next[s[1]], next2, prev2)
  <2>1. Linked(t, next[s[1]], next2)
    BY <1>2, <1>5, <1>6 DEF Linked
  <2> QED BY <1>1, <1>2, <1>4, <1>6, <2>1 DEF Whole
<1>8. ToSet(t) = ToSet(s) \ {s[1]}
  <2>1. ASSUME NEW i \in 1..(Len(s) - 1) PROVE t[i] \in ToSet(s) /\ t[i] # s[1]
    <3>1. t[i] = s[i + 1] /\ i + 1 \in 1..Len(s) /\ i + 1 # 1 /\ 1 \in 1..Len(s)
      BY <1>1, <1>2
    <3> QED BY <3>1, <1>2, <1>3
  <2>2. ASSUME NEW i \in 1..Len(s), s[i] # s[1] PROVE s[i] \in ToSet(t)
    <3>1. i - 1 \in 1..(Len(s) - 1) /\ (i - 1) + 1 = i
      BY <2>2, <1>2
    <3>2. t[i - 1] = s[i]
      BY <3>1, <1>1
    <3> QED BY <3>1, <3>2, <1>2
  <2> QED BY <2>1, <2>2, <1>2
<1> QED BY <1>7, <1>8 DEF t

\* The links determine the list.
LEMMA WholeIsFollowed ==
  ASSUME NEW s, NEW first, NEW next, NEW prev, Whole(s, first, next, prev)
  PROVE  Followed(first, next) = s
BY FollowedIsLinked DEF Whole

\* g is f with two places rewritten.
Rewired(g, f, T, a, u, b, v) ==
  /\ g \in [Entry -> T]
  /\ g[a] = u /\ g[b] = v
  /\ \A x \in Entry : x # a /\ x # b => g[x] = f[x]

\* Two assignments to different cells, in one EXCEPT or in two.
LEMMA TwoUpdates ==
  ASSUME NEW T, NEW f \in [Entry -> T], NEW a \in Entry, NEW b \in Entry, a # b,
         NEW u \in T, NEW v \in T
  PROVE  /\ Rewired([f EXCEPT ![a] = u, ![b] = v], f, T, a, u, b, v)
         /\ Rewired([[f EXCEPT ![a] = u] EXCEPT ![b] = v], f, T, a, u, b, v)
<1>1. Rewired([f EXCEPT ![a] = u, ![b] = v], f, T, a, u, b, v)
  BY Zenon DEF Rewired
<1>2. Rewired([[f EXCEPT ![a] = u] EXCEPT ![b] = v], f, T, a, u, b, v)
  BY Zenon DEF Rewired
<1> QED BY <1>1, <1>2, Zenon

\* What a whole list says of its entries.
LEMMA WholeFacts ==
  ASSUME NEW s, NEW first, NEW next, NEW prev, Whole(s, first, next, prev)
  PROVE  /\ s \in Seq(Entry) /\ IsInjective(s) /\ Len(s) \in Nat
         /\ DOMAIN s = 1..Len(s) /\ ToSet(s) = {s[i] : i \in 1..Len(s)}
         /\ first = IF s = << >> THEN NULL ELSE s[1]
         /\ next \in [Entry -> Entry \cup {NULL}]
         /\ prev \in [Entry -> Entry \cup {NULL, HEAD}]
         /\ \A i \in 1..Len(s) :
              /\ s[i] \in Entry /\ s[i] # NULL /\ s[i] # HEAD
              /\ next[s[i]] = IF i = Len(s) THEN NULL ELSE s[i + 1]
              /\ prev[s[i]] = IF i = 1 THEN HEAD ELSE s[i - 1]
         /\ \A i, j \in 1..Len(s) : s[i] = s[j] => i = j
         /\ (s = << >>) <=> (Len(s) = 0)
<1>1. s \in Seq(Entry) /\ IsInjective(s)
  BY DEF Whole
<1>2. Len(s) \in Nat /\ DOMAIN s = 1..Len(s)
  BY <1>1, LenProperties
<1>3. (s = << >>) <=> (Len(s) = 0)
  BY <1>1, EmptySeq
<1>4. \A i \in 1..Len(s) : s[i] \in Entry /\ s[i] # NULL /\ s[i] # HEAD
  BY <1>1, ElementOfSeq, PointersDistinct
<1>5. \A i, j \in 1..Len(s) : s[i] = s[j] => i = j
  BY <1>1, <1>2 DEF IsInjective
<1>6. /\ first = IF s = << >> THEN NULL ELSE s[1]
      /\ next \in [Entry -> Entry \cup {NULL}]
      /\ prev \in [Entry -> Entry \cup {NULL, HEAD}]
      /\ \A i \in 1..Len(s) :
           /\ next[s[i]] = IF i = Len(s) THEN NULL ELSE s[i + 1]
           /\ prev[s[i]] = IF i = 1 THEN HEAD ELSE s[i - 1]
  BY <1>2 DEF Whole, Linked
<1>7. ToSet(s) = {s[i] : i \in 1..Len(s)}
  BY <1>2 DEF ToSet
<1>8. \A i \in 1..Len(s) :
        /\ s[i] \in Entry /\ s[i] # NULL /\ s[i] # HEAD
        /\ next[s[i]] = IF i = Len(s) THEN NULL ELSE s[i + 1]
        /\ prev[s[i]] = IF i = 1 THEN HEAD ELSE s[i - 1]
  BY <1>4, <1>6
<1> QED BY <1>1, <1>2, <1>3, <1>5, <1>6, <1>7, <1>8, Zenon

\* TLIST_INSERT_HEAD on the empty list.
LEMMA HeadWhole ==
  ASSUME NEW s, NEW first, NEW next, NEW prev, Whole(s, first, next, prev), s = << >>,
         NEW e \in Entry,
         NEW next2 \in [Entry -> Entry \cup {NULL}], next2[e] = NULL,
         NEW prev2 \in [Entry -> Entry \cup {NULL, HEAD}], prev2[e] = HEAD
  PROVE  Whole(InsertAt(s, 1, e), e, next2, prev2)
<1>1. Len(s) = 0 /\ DOMAIN s = {} /\ e \notin ToSet(s)
  BY DEF ToSet
<1>2. 1 \in 1..(Len(s) + 1) /\ 1 = Len(s) + 1
  BY <1>1
<1> QED BY <1>1, <1>2, InsertKeepsWhole

\* TLIST_INSERT_AFTER behind the i-th entry.
LEMMA AfterWhole ==
  ASSUME NEW s, NEW first, NEW next, NEW prev, Whole(s, first, next, prev),
         NEW i \in 1..Len(s), NEW e \in Entry, e \notin ToSet(s),
         NEW next2, Rewired(next2, next, Entry \cup {NULL}, e, next[s[i]], s[i], e),
         NEW prev2 \in [Entry -> Entry \cup {NULL, HEAD}], prev2[e] = s[i],
         \A x \in Entry : x # e => prev2[x] = IF x = next[s[i]] THEN e ELSE prev[x]
  PROVE  Whole(InsertAt(s, i + 1, e), first, next2, prev2)
<1> DEFINE k == i + 1
<1>1. /\ Len(s) \in Nat /\ DOMAIN s = 1..Len(s)
      /\ s[i] \in Entry /\ s[i] # e /\ e # NULL
      /\ \A j \in 1..Len(s) : s[j] \in Entry /\ s[j] # e /\ s[j] # NULL
      /\ \A j, l \in 1..Len(s) : s[j] = s[l] => j = l
      /\ next \in [Entry -> Entry \cup {NULL}]
      /\ prev \in [Entry -> Entry \cup {NULL, HEAD}]
      /\ next[s[i]] = IF i = Len(s) THEN NULL ELSE s[i + 1]
  <2>1. /\ Len(s) \in Nat /\ DOMAIN s = 1..Len(s) /\ ToSet(s) = {s[j] : j \in 1..Len(s)}
        /\ \A j, l \in 1..Len(s) : s[j] = s[l] => j = l
        /\ next \in [Entry -> Entry \cup {NULL}]
        /\ prev \in [Entry -> Entry \cup {NULL, HEAD}]
    BY WholeFacts
  <2>2. next[s[i]] = IF i = Len(s) THEN NULL ELSE s[i + 1]
    BY WholeFacts
  <2>3. \A j \in 1..Len(s) : s[j] \in Entry /\ s[j] # NULL
    BY WholeFacts
  <2>4. \A j \in 1..Len(s) : s[j] # e
    BY <2>1
  <2> QED BY <2>1, <2>2, <2>3, <2>4, PointersDistinct
<1>2. /\ next2 \in [Entry -> Entry \cup {NULL}]
      /\ next2[e] = next[s[i]] /\ next2[s[i]] = e
      /\ \A x \in Entry : x # e /\ x # s[i] => next2[x] = next[x]
  BY DEF Rewired
<1>3. /\ prev2 \in [Entry -> Entry \cup {NULL, HEAD}]
      /\ prev2[e] = s[i]
      /\ \A x \in Entry : x # e => prev2[x] = IF x = next[s[i]] THEN e ELSE prev[x]
  OBVIOUS
<1>4. /\ k \in 1..(Len(s) + 1) /\ k - 1 = i /\ k # 1 /\ i \in Nat
      /\ (k = Len(s) + 1) <=> (i = Len(s))
      /\ i # Len(s) => k \in 1..Len(s)
  <2>0. Len(s) \in Nat
    BY <1>1
  <2>1. Len(s) \in Nat /\ i \in Nat /\ 1 <= i /\ i <= Len(s)
    BY <2>0
  <2> QED BY <2>1
<1>5. \A j \in DOMAIN s : next2[s[j]] = IF j = i THEN e ELSE next[s[j]]
  BY <1>1, <1>2
<1>6. ASSUME NEW j \in DOMAIN s
      PROVE  prev2[s[j]] = IF j = k THEN e ELSE prev[s[j]]
  <2>1. (s[j] = next[s[i]]) <=> (j = k)
    <3>1. CASE i = Len(s)
      BY <3>1, <1>1, <1>4
    <3>2. CASE i # Len(s)
      <4>1. k \in 1..Len(s)
        BY <3>2, <1>4
      <4> QED BY <4>1, <3>2, <1>1
    <3> QED BY <3>1, <3>2
  <2> QED BY <2>1, <1>1, <1>3
<1>7. next2[e] = IF k = Len(s) + 1 THEN NULL ELSE s[k]
  BY <1>1, <1>2, <1>4
<1>8. /\ \A j \in DOMAIN s : next2[s[j]] = IF j = k - 1 THEN e ELSE next[s[j]]
      /\ prev2[e] = IF k = 1 THEN HEAD ELSE s[k - 1]
      /\ first = IF k = 1 THEN e ELSE first
  BY <1>3, <1>4, <1>5
<1> HIDE DEF k
<1>9. Whole(InsertAt(s, k, e), first, next2, prev2)
  BY <1>2, <1>3, <1>4, <1>6, <1>7, <1>8, InsertKeepsWhole
<1> QED BY <1>9 DEF k

\* TLIST_INSERT_BEFORE in front of the i-th entry, through its back link.
LEMMA BeforeWhole ==
  ASSUME NEW s, NEW first, NEW next, NEW prev, Whole(s, first, next, prev),
         NEW i \in 1..Len(s), NEW e \in Entry, e \notin ToSet(s),
         NEW first2, NEW next2,
         IF prev[s[i]] = HEAD
           THEN first2 = e /\ next2 = [next EXCEPT ![e] = s[i]]
           ELSE first2 = first /\ Rewired(next2, next, Entry \cup {NULL}, e, s[i], prev[s[i]], e),
         NEW prev2, Rewired(prev2, prev, Entry \cup {NULL, HEAD}, e, prev[s[i]], s[i], e)
  PROVE  Whole(InsertAt(s, i, e), first2, next2, prev2)
<1>1. /\ Len(s) \in Nat /\ DOMAIN s = 1..Len(s) /\ i \in Nat /\ i - 1 \in Int
      /\ \A j \in 1..Len(s) : s[j] \in Entry /\ s[j] # e /\ s[j] # NULL /\ s[j] # HEAD
      /\ \A j, l \in 1..Len(s) : s[j] = s[l] => j = l
      /\ next \in [Entry -> Entry \cup {NULL}]
      /\ prev \in [Entry -> Entry \cup {NULL, HEAD}]
      /\ prev[s[i]] = IF i = 1 THEN HEAD ELSE s[i - 1]
  <2>1. /\ Len(s) \in Nat /\ DOMAIN s = 1..Len(s) /\ ToSet(s) = {s[j] : j \in 1..Len(s)}
        /\ \A j, l \in 1..Len(s) : s[j] = s[l] => j = l
        /\ next \in [Entry -> Entry \cup {NULL}]
        /\ prev \in [Entry -> Entry \cup {NULL, HEAD}]
    BY WholeFacts
  <2>2. prev[s[i]] = IF i = 1 THEN HEAD ELSE s[i - 1]
    BY WholeFacts
  <2>3. \A j \in 1..Len(s) : s[j] \in Entry /\ s[j] # NULL /\ s[j] # HEAD
    BY WholeFacts
  <2>4. \A j \in 1..Len(s) : s[j] # e
    BY <2>1
  <2>5. i \in Nat /\ i - 1 \in Int
    BY <2>1
  <2> QED BY <2>1, <2>2, <2>3, <2>4, <2>5
<1>2. /\ i \in 1..(Len(s) + 1) /\ i # Len(s) + 1 /\ s[i] \in Entry /\ s[i] # e
      /\ i # 1 => i - 1 \in 1..Len(s)
  BY <1>1
<1>3. /\ prev2 \in [Entry -> Entry \cup {NULL, HEAD}]
      /\ prev2[e] = prev[s[i]] /\ prev2[s[i]] = e
      /\ \A x \in Entry : x # e /\ x # s[i] => prev2[x] = prev[x]
  BY DEF Rewired
<1>4. \A j \in DOMAIN s : prev2[s[j]] = IF j = i THEN e ELSE prev[s[j]]
  BY <1>1, <1>3
<1>5. CASE i = 1
  <2>1. first2 = e /\ next2 = [next EXCEPT ![e] = s[i]]
    BY <1>1, <1>5
  <2>2. /\ next2 \in [Entry -> Entry \cup {NULL}] /\ next2[e] = s[i]
        /\ \A x \in Entry : x # e => next2[x] = next[x]
    BY <2>1, <1>1, <1>2
  <2>3. \A j \in DOMAIN s : next2[s[j]] = IF j = i - 1 THEN e ELSE next[s[j]]
    BY <2>2, <1>1, <1>5
  <2>4. /\ prev2[e] = IF i = 1 THEN HEAD ELSE s[i - 1]
        /\ next2[e] = IF i = Len(s) + 1 THEN NULL ELSE s[i]
        /\ first2 = IF i = 1 THEN e ELSE first
    BY <2>1, <2>2, <1>1, <1>2, <1>3, <1>5
  <2> QED BY <2>2, <2>3, <2>4, <1>2, <1>3, <1>4, InsertKeepsWhole
<1>6. CASE i # 1
  <2> DEFINE p == s[i - 1]
  <2>1. p \in Entry /\ p # e /\ prev[s[i]] = p /\ p # HEAD /\ i - 1 \in 1..Len(s)
    BY <1>1, <1>2, <1>6
  <2>2. first2 = first /\ Rewired(next2, next, Entry \cup {NULL}, e, s[i], p, e)
    BY <2>1
  <2> HIDE DEF p
  <2>3. /\ next2 \in [Entry -> Entry \cup {NULL}] /\ next2[e] = s[i] /\ next2[p] = e
        /\ \A x \in Entry : x # e /\ x # p => next2[x] = next[x]
    BY <2>2 DEF Rewired
  <2>4. \A j \in DOMAIN s : next2[s[j]] = IF j = i - 1 THEN e ELSE next[s[j]]
    BY <2>1, <2>3, <1>1 DEF p
  <2>5. prev2[e] = IF i = 1 THEN HEAD ELSE s[i - 1]
    BY <1>1, <1>3
  <2>6. next2[e] = IF i = Len(s) + 1 THEN NULL ELSE s[i]
    BY <2>3, <1>2
  <2>7. first2 = IF i = 1 THEN e ELSE first
    BY <2>2, <1>6
  <2> QED BY <2>3, <2>4, <2>5, <2>6, <2>7, <1>2, <1>3, <1>4, InsertKeepsWhole, SMTT(30)
<1> QED BY <1>5, <1>6

\* TLIST_REMOVE of the first entry.
LEMMA RemoveWhole ==
  ASSUME NEW s, NEW first, NEW next, NEW prev, Whole(s, first, next, prev), s # << >>,
         NEW first2, NEW next2,
         prev[first] = HEAD => first2 = next[first] /\ next2 = [next EXCEPT ![first] = NULL],
         NEW prev2,
         prev2 = [x \in Entry |-> IF x = first THEN NULL
                                  ELSE IF x = next[first] THEN prev[first] ELSE prev[x]]
  PROVE  Whole(Tail(s), first2, next2, prev2) /\ ToSet(Tail(s)) = ToSet(s) \ {first}
<1>1. /\ Len(s) \in Nat /\ DOMAIN s = 1..Len(s) /\ 1 \in 1..Len(s)
      /\ \A j \in 1..Len(s) : s[j] \in Entry /\ s[j] # NULL /\ s[j] # HEAD
      /\ \A j, l \in 1..Len(s) : s[j] = s[l] => j = l
      /\ next \in [Entry -> Entry \cup {NULL}]
      /\ prev \in [Entry -> Entry \cup {NULL, HEAD}]
      /\ first = s[1] /\ prev[s[1]] = HEAD
      /\ next[s[1]] = IF Len(s) = 1 THEN NULL ELSE s[2]
  <2>1. /\ Len(s) \in Nat /\ DOMAIN s = 1..Len(s) /\ (s = << >> <=> Len(s) = 0)
        /\ \A j, l \in 1..Len(s) : s[j] = s[l] => j = l
        /\ next \in [Entry -> Entry \cup {NULL}]
        /\ prev \in [Entry -> Entry \cup {NULL, HEAD}]
        /\ first = IF s = << >> THEN NULL ELSE s[1]
    BY WholeFacts
  <2>2. 1 \in 1..Len(s)
    BY <2>1
  <2>3. prev[s[1]] = HEAD /\ next[s[1]] = IF 1 = Len(s) THEN NULL ELSE s[1 + 1]
    <3>1. \A i \in 1..Len(s) : /\ next[s[i]] = IF i = Len(s) THEN NULL ELSE s[i + 1]
                               /\ prev[s[i]] = IF i = 1 THEN HEAD ELSE s[i - 1]
      BY WholeFacts
    <3> QED BY <3>1, <2>2
  <2>4. \A j \in 1..Len(s) : s[j] \in Entry /\ s[j] # NULL /\ s[j] # HEAD
    BY WholeFacts
  <2> QED BY <2>1, <2>2, <2>3, <2>4
<1>2. first2 = next[s[1]] /\ next2 = [next EXCEPT ![s[1]] = NULL]
  BY <1>1
<1>3. /\ next2 \in [Entry -> Entry \cup {NULL}]
      /\ \A j \in 2..Len(s) : next2[s[j]] = next[s[j]]
  BY <1>1, <1>2
<1>4. /\ prev2 \in [Entry -> Entry \cup {NULL, HEAD}]
      /\ \A j \in 2..Len(s) : prev2[s[j]] = IF j = 2 THEN HEAD ELSE prev[s[j]]
  <2>1. prev2 = [x \in Entry |-> IF x = s[1] THEN NULL
                                 ELSE IF x = next[s[1]] THEN HEAD ELSE prev[x]]
    BY <1>1
  <2>2. ASSUME NEW j \in 2..Len(s) PROVE prev2[s[j]] = IF j = 2 THEN HEAD ELSE prev[s[j]]
    <3>1. j \in 1..Len(s) /\ j # 1 /\ Len(s) # 1 /\ 2 \in 1..Len(s)
      BY <1>1
    <3>2. s[j] # s[1] /\ s[j] \in Entry /\ (s[j] = s[2] <=> j = 2)
      BY <3>1, <1>1
    <3>3. prev2[s[j]] = IF s[j] = s[2] THEN HEAD ELSE prev[s[j]]
      BY <3>1, <3>2, <2>1, <1>1
    <3> QED BY <3>2, <3>3
  <2> QED BY <2>1, <2>2, <1>1
<1>5. /\ Whole(Tail(s), next[s[1]], next2, prev2)
      /\ ToSet(Tail(s)) = ToSet(s) \ {s[1]}
  BY <1>3, <1>4, TailKeepsWhole
<1> QED BY <1>1, <1>2, <1>5

-----------------------------------------------------------------------------
(* The inductive invariant.  TLC confirms it on the instance of MCInsnList *)
(* too.                                                                    *)

\* The links hold the live entries, and each phase of the generator's one
\* list knows where it is: the callers' tail and count while they insert, the
\* place insnlist_output has reached, the empty list that is left at the end.
IInv ==
  /\ TypeOK
  /\ Whole(Listed, lh_first, le_next, le_prev)
  /\ live = ToSet(Listed)
  /\ pc = "build" =>
       /\ insn_count = Len(Listed)
       /\ tail = IF Listed = << >> THEN NULL ELSE Listed[Len(Listed)]
  /\ pc = "output" =>
       \E k \in 0..Len(Listed) :
          /\ file = SubSeq(Listed, 1, k)
          /\ cursor = IF k = Len(Listed) THEN NULL ELSE Listed[k + 1]
  /\ pc = "build" => file = << >>
  /\ pc = "closed" => Listed = << >>

\* The empty list in a heap of null links.
LEMMA EmptyWhole ==
  ASSUME NEW next, next = [e \in Entry |-> NULL], NEW prev, prev = [e \in Entry |-> NULL]
  PROVE  Whole(<< >>, NULL, next, prev)
<1>1. << >> \in Seq(Entry) /\ DOMAIN << >> = {} /\ IsInjective(<< >>)
  BY DEF IsInjective
<1> QED BY <1>1 DEF Whole, Linked

\* The list starts empty.
LEMMA InitIInv == Init => IInv /\ Listed = << >>
<1> SUFFICES ASSUME Init PROVE IInv /\ Listed = << >>
  OBVIOUS
<1>1. Whole(<< >>, lh_first, le_next, le_prev)
  BY EmptyWhole DEF Init
<1>2. Listed = << >>
  BY <1>1, WholeIsFollowed DEF Listed
<1>3. TypeOK
  <2>1. 0 \in 0..Cardinality(Entry)
    BY HeapFinite, FS_CardinalityType
  <2> QED BY <2>1 DEF Init, TypeOK
<1>4. ToSet(<< >>) = {} /\ Len(<< >>) = 0
  BY DEF ToSet
<1> QED BY <1>1, <1>2, <1>3, <1>4 DEF IInv, Init

\* The common part of the three insertions: the new entry is in the list, at
\* the place where the macro linked it.
LEMMA InsertedAt ==
  ASSUME IInv, pc = "build", NEW e, Allocated(e), UNCHANGED <<pc, cursor, file>>,
         NEW k \in 1..(Len(Listed) + 1),
         Whole(InsertAt(Listed, k, e), lh_first', le_next', le_prev'),
         tail' = IF k = Len(Listed) + 1 THEN e ELSE tail
  PROVE  IInv' /\ Listed' = InsertAt(Listed, k, e)
<1> DEFINE t == InsertAt(Listed, k, e)
<1>1. /\ Listed \in Seq(Entry) /\ IsInjective(Listed) /\ e \in Entry /\ e \notin ToSet(Listed)
      /\ Len(Listed) \in Nat
  BY LenProperties DEF IInv, Whole, Allocated
<1>2. Listed' = t
  <2>1. Followed(lh_first', le_next') = t
    BY WholeIsFollowed
  <2> QED BY <2>1 DEF Listed
<1>3. /\ t \in Seq(Entry) /\ Len(t) = Len(Listed) + 1
      /\ \A j \in 1..(Len(Listed) + 1) :
           t[j] = IF j < k THEN Listed[j] ELSE IF j = k THEN e ELSE Listed[j - 1]
  BY <1>1, InsertAtProperties, SMTT(40)
<1>4. IsInjective(t) /\ ToSet(t) = ToSet(Listed) \cup {e}
  BY <1>1, InsertAtInjective
<1>5. Whole(Listed', lh_first', le_next', le_prev')
  BY <1>2
<1>6. live' = ToSet(Listed')
  BY <1>2, <1>4 DEF Allocated, IInv
<1> HIDE DEF t
<1>7. insn_count' = Len(t) /\ Len(t) \in 0..Cardinality(Entry)
  <2>1. insn_count' = Len(t)
    BY <1>3 DEF Allocated, IInv
  <2> QED BY <2>1, <1>3, <1>4, InjectiveLength
<1>8. tail' = t[Len(t)] /\ t # << >> /\ tail' \in Entry
  <2>1. t # << >> /\ Len(t) \in 1..Len(t)
    BY <1>1, <1>3, EmptySeq
  <2>2. tail' = t[Len(t)]
    <3>1. CASE k = Len(Listed) + 1
      BY <3>1, <1>1, <1>3
    <3>2. CASE k # Len(Listed) + 1
      <4>1. Len(Listed) # 0 /\ tail = Listed[Len(Listed)]
        BY <3>2, <1>1, EmptySeq DEF IInv
      <4>2. t[Len(Listed) + 1] = Listed[(Len(Listed) + 1) - 1] /\ (Len(Listed) + 1) - 1 = Len(Listed)
        BY <3>2, <1>1, <1>3
      <4> QED BY <4>1, <4>2, <3>2, <1>3
    <3> QED BY <3>1, <3>2
  <2> QED BY <2>1, <2>2, <1>3, ElementOfSeq
<1>9. TypeOK'
  <2>1. /\ le_next' \in [Entry -> Entry \cup {NULL}]
        /\ le_prev' \in [Entry -> Entry \cup {NULL, HEAD}]
        /\ lh_first' = IF t = << >> THEN NULL ELSE t[1]
    BY DEF Whole, Linked, t
  <2>2. t[1] \in Entry
    <3>1. 1 \in 1..Len(t)
      BY <1>1, <1>3
    <3> QED BY <3>1, <1>3, ElementOfSeq
  <2>3. live' \subseteq Entry /\ pc' = pc /\ cursor' = cursor
    BY <1>1 DEF Allocated, IInv, TypeOK
  <2> QED BY <2>1, <2>2, <2>3, <1>7, <1>8 DEF IInv, TypeOK
<1> QED BY <1>2, <1>5, <1>6, <1>7, <1>8, <1>9 DEF IInv, t

\* An insertion behind the last entry appends; the first entry of an empty list is that.
LEMMA InsertAtEnd ==
  ASSUME NEW s \in Seq(Entry), NEW e \in Entry
  PROVE  /\ InsertAt(s, Len(s) + 1, e) = Append(s, e)
         /\ s = << >> => InsertAt(s, 1, e) = <<e>>
<1>0. Len(s) \in Nat /\ Len(s) + 1 \in 1..(Len(s) + 1)
  BY LenProperties
<1> DEFINE a == Append(s, e)
           k == Len(s) + 1
           b == InsertAt(s, k, e)
<1>1. /\ a \in Seq(Entry) /\ Len(a) = Len(s) + 1
      /\ \A j \in 1..Len(s) : a[j] = s[j]
      /\ a[Len(s) + 1] = e
  BY AppendProperties
<1>2. /\ b \in Seq(Entry) /\ Len(b) = Len(s) + 1
      /\ \A j \in 1..(Len(s) + 1) :
           b[j] = IF j < k THEN s[j] ELSE IF j = k THEN e ELSE s[j - 1]
  <2>1. ASSUME NEW i \in 1..(Len(s) + 1)
        PROVE  /\ InsertAt(s, i, e) \in Seq(Entry) /\ Len(InsertAt(s, i, e)) = Len(s) + 1
               /\ \A j \in 1..(Len(s) + 1) :
                    InsertAt(s, i, e)[j] = IF j < i THEN s[j] ELSE IF j = i THEN e ELSE s[j - 1]
    BY InsertAtProperties, SMTT(40)
  <2>2. k \in 1..(Len(s) + 1)
    BY <1>0
  <2> HIDE DEF k
  <2> QED BY <2>1, <2>2, Zenon
<1> HIDE DEF a, b
<1>3. \A j \in 1..Len(a) : a[j] = b[j]
  <2> SUFFICES ASSUME NEW j \in 1..Len(a) PROVE a[j] = b[j]
    OBVIOUS
  <2>1. CASE j = Len(s) + 1
    BY <2>1, <1>0, <1>1, <1>2
  <2>2. CASE j # Len(s) + 1
    <3>1. j \in 1..Len(s) /\ j < k /\ j \in 1..(Len(s) + 1)
      BY <2>2, <1>0, <1>1
    <3> QED BY <3>1, <1>1, <1>2
  <2> QED BY <2>1, <2>2
<1>4. a = b
  BY <1>1, <1>2, <1>3, SeqEqual
<1>5. s = << >> => k = 1 /\ Append(s, e) = <<e>>
  OBVIOUS
<1> QED BY <1>4, <1>5 DEF a, b

\* An entry of a whole list has one place.
LEMMA PlaceIsUnique ==
  ASSUME NEW s, NEW i \in DOMAIN s, \A j \in DOMAIN s : s[j] = s[i] => j = i
  PROVE  PlaceOf(s, s[i]) = i
<1>1. \E j \in DOMAIN s : s[j] = s[i]
  OBVIOUS
<1>2. PlaceOf(s, s[i]) \in DOMAIN s /\ s[PlaceOf(s, s[i])] = s[i]
  BY <1>1, Zenon DEF PlaceOf
<1> QED BY <1>2

\* TLIST_INSERT_HEAD starts an empty list.
LEMMA HeadMacro ==
  ASSUME IInv, Listed = << >>, NEW e \in Entry, TLIST_INSERT_HEAD(e)
  PROVE  Whole(InsertAt(Listed, 1, e), lh_first', le_next', le_prev')
<1>1. Whole(Listed, lh_first, le_next, le_prev)
  BY DEF IInv
<1>2. /\ lh_first = NULL
      /\ le_next \in [Entry -> Entry \cup {NULL}]
      /\ le_prev \in [Entry -> Entry \cup {NULL, HEAD}]
  BY <1>1, WholeFacts
<1>3. /\ lh_first' = e
      /\ le_next' \in [Entry -> Entry \cup {NULL}] /\ le_next'[e] = NULL
      /\ le_prev' \in [Entry -> Entry \cup {NULL, HEAD}] /\ le_prev'[e] = HEAD
  BY <1>2 DEF TLIST_INSERT_HEAD
<1> QED BY <1>1, <1>3, HeadWhole

\* TLIST_INSERT_AFTER links the new entry behind the i-th.
LEMMA AfterMacro ==
  ASSUME IInv, NEW i \in 1..Len(Listed), NEW e \in Entry, e \notin live,
         TLIST_INSERT_AFTER(Listed[i], e)
  PROVE  Whole(InsertAt(Listed, i + 1, e), lh_first', le_next', le_prev')
<1> DEFINE a == Listed[i]
           succ == le_next[a]
<1>1. Whole(Listed, lh_first, le_next, le_prev) /\ e \notin ToSet(Listed)
  BY DEF IInv
<1>2. /\ a \in Entry /\ e # a
      /\ le_next \in [Entry -> Entry \cup {NULL}]
      /\ le_prev \in [Entry -> Entry \cup {NULL, HEAD}]
  <2>1. /\ \A j \in 1..Len(Listed) : Listed[j] \in Entry
        /\ ToSet(Listed) = {Listed[j] : j \in 1..Len(Listed)}
        /\ le_next \in [Entry -> Entry \cup {NULL}]
        /\ le_prev \in [Entry -> Entry \cup {NULL, HEAD}]
    BY <1>1, WholeFacts
  <2> QED BY <2>1, <1>1
<1>3. /\ lh_first' = lh_first
      /\ le_next' = [le_next EXCEPT ![e] = succ, ![a] = e]
      /\ le_prev' = [x \in Entry |-> IF x = e THEN a ELSE IF x = succ THEN e ELSE le_prev[x]]
  BY Zenon DEF TLIST_INSERT_AFTER
<1> HIDE DEF TLIST_INSERT_AFTER
<1>4. Rewired(le_next', le_next, Entry \cup {NULL}, e, succ, a, e)
  <2>1. succ \in Entry \cup {NULL} /\ e \in Entry \cup {NULL}
    BY <1>2
  <2>2. Rewired([le_next EXCEPT ![e] = succ, ![a] = e], le_next, Entry \cup {NULL}, e, succ, a, e)
    BY <2>1, <1>2, TwoUpdates, Zenon
  <2> QED BY <2>2, <1>3, Zenon
<1>5. /\ le_prev' \in [Entry -> Entry \cup {NULL, HEAD}] /\ le_prev'[e] = a
      /\ \A x \in Entry : x # e => le_prev'[x] = IF x = succ THEN e ELSE le_prev[x]
  <2>1. le_prev' = [x \in Entry |-> IF x = e THEN a ELSE IF x = succ THEN e ELSE le_prev[x]]
    BY <1>3, Zenon
  <2> QED BY <2>1, <1>2
<1>6. Whole(InsertAt(Listed, i + 1, e), lh_first, le_next', le_prev')
  BY <1>1, <1>4, <1>5, AfterWhole, ZenonT(30)
<1>7. lh_first' = lh_first
  BY <1>3, Zenon
<1> QED BY <1>6, <1>7

\* TLIST_INSERT_BEFORE links the new entry in front of the i-th.
LEMMA BeforeMacro ==
  ASSUME IInv, NEW i \in 1..Len(Listed), NEW e \in Entry, e \notin live,
         TLIST_INSERT_BEFORE(Listed[i], e)
  PROVE  Whole(InsertAt(Listed, i, e), lh_first', le_next', le_prev')
<1> DEFINE a == Listed[i]
           p == le_prev[a]
<1>1. Whole(Listed, lh_first, le_next, le_prev) /\ e \notin ToSet(Listed)
  BY DEF IInv
<1>2. /\ a \in Entry /\ e # a
      /\ p # HEAD => p \in Entry /\ p # e
      /\ le_next \in [Entry -> Entry \cup {NULL}]
      /\ le_prev \in [Entry -> Entry \cup {NULL, HEAD}]
  <2>1. /\ \A j \in 1..Len(Listed) : Listed[j] \in Entry
        /\ ToSet(Listed) = {Listed[j] : j \in 1..Len(Listed)} /\ Len(Listed) \in Nat
        /\ le_next \in [Entry -> Entry \cup {NULL}]
        /\ le_prev \in [Entry -> Entry \cup {NULL, HEAD}]
    BY <1>1, WholeFacts
  <2>2. \A j \in 1..Len(Listed) : le_prev[Listed[j]] = IF j = 1 THEN HEAD ELSE Listed[j - 1]
    BY <1>1, WholeFacts
  <2>3. i # 1 => i - 1 \in 1..Len(Listed)
    BY <2>1
  <2>4. p # HEAD => p = Listed[i - 1] /\ i # 1
    BY <2>2
  <2> QED BY <2>1, <2>3, <2>4, <1>1
<1>3. /\ p = HEAD => lh_first' = e /\ le_next' = [le_next EXCEPT ![e] = a]
      /\ p # HEAD => /\ lh_first' = lh_first
                     /\ le_next' = [[le_next EXCEPT ![e] = a] EXCEPT ![p] = e]
      /\ le_prev' = [le_prev EXCEPT ![e] = p, ![a] = e]
  BY Zenon DEF TLIST_INSERT_BEFORE, Store
<1> HIDE DEF TLIST_INSERT_BEFORE
<1>4. Rewired(le_prev', le_prev, Entry \cup {NULL, HEAD}, e, p, a, e)
  <2>1. p \in Entry \cup {NULL, HEAD} /\ e \in Entry \cup {NULL, HEAD}
    BY <1>2
  <2>2. Rewired([le_prev EXCEPT ![e] = p, ![a] = e], le_prev, Entry \cup {NULL, HEAD}, e, p, a, e)
    BY <2>1, <1>2, TwoUpdates, Zenon
  <2> QED BY <2>2, <1>3, Zenon
<1>5. IF p = HEAD
        THEN lh_first' = e /\ le_next' = [le_next EXCEPT ![e] = a]
        ELSE lh_first' = lh_first /\ Rewired(le_next', le_next, Entry \cup {NULL}, e, a, p, e)
  <2>1. CASE p = HEAD
    BY <2>1, <1>3, Zenon
  <2>2. CASE p # HEAD
    <3>1. a \in Entry \cup {NULL} /\ e \in Entry \cup {NULL} /\ p \in Entry /\ e # p
      BY <2>2, <1>2
    <3>2. Rewired([[le_next EXCEPT ![e] = a] EXCEPT ![p] = e], le_next, Entry \cup {NULL}, e, a, p, e)
      BY <3>1, <1>2, TwoUpdates, Zenon
    <3> QED BY <3>2, <2>2, <1>3, Zenon
  <2> QED BY <2>1, <2>2
<1> QED BY <1>1, <1>4, <1>5, BeforeWhole

\* TLIST_REMOVE of the first entry leaves the others.
LEMMA RemoveMacro ==
  ASSUME IInv, Listed # << >>, TLIST_REMOVE(lh_first)
  PROVE  /\ Whole(Tail(Listed), lh_first', le_next', le_prev')
         /\ ToSet(Tail(Listed)) = ToSet(Listed) \ {lh_first}
<1>1. Whole(Listed, lh_first, le_next, le_prev)
  BY DEF IInv
<1>2. /\ le_prev[lh_first] = HEAD =>
           /\ lh_first' = le_next[lh_first]
           /\ le_next' = [le_next EXCEPT ![lh_first] = NULL]
      /\ le_prev' = [x \in Entry |-> IF x = lh_first THEN NULL
                                      ELSE IF x = le_next[lh_first] THEN le_prev[lh_first] ELSE le_prev[x]]
  BY Zenon DEF TLIST_REMOVE, Store
<1> HIDE DEF TLIST_REMOVE
<1> QED BY <1>1, <1>2, RemoveWhole

\* An insertion starts an empty list, whichever function was called.
LEMMA StartsList ==
  ASSUME IInv, Listed = << >>, pc = "build", NEW e, Allocated(e), UNCHANGED <<pc, cursor, file>>,
         TLIST_INSERT_HEAD(e), tail' = e
  PROVE  IInv' /\ Listed' = <<e>> /\ Listed' = Append(Listed, e)
<1>1. e \in Entry /\ Listed \in Seq(Entry) /\ Len(Listed) = 0
  BY DEF Allocated, IInv, Whole
<1>2. Whole(InsertAt(Listed, 1, e), lh_first', le_next', le_prev')
  BY <1>1, HeadMacro
<1>3. 1 \in 1..(Len(Listed) + 1) /\ 1 = Len(Listed) + 1
  BY <1>1
<1>4. IInv' /\ Listed' = InsertAt(Listed, 1, e)
  BY <1>2, <1>3, InsertedAt
<1>5. InsertAt(Listed, 1, e) = <<e>> /\ InsertAt(Listed, 1, e) = Append(Listed, e)
  BY <1>1, <1>3, InsertAtEnd
<1> QED BY <1>4, <1>5

\* What the callers' tail says while they insert.
LEMMA TailIsLast ==
  ASSUME IInv, pc = "build"
  PROVE  /\ Listed \in Seq(Entry) /\ Len(Listed) \in Nat /\ DOMAIN Listed = 1..Len(Listed)
         /\ (tail = NULL) <=> (Listed = << >>)
         /\ (Listed = << >>) <=> (Len(Listed) = 0)
         /\ Listed # << >> => tail = Listed[Len(Listed)] /\ Len(Listed) \in 1..Len(Listed)
         /\ \A i, j \in 1..Len(Listed) : Listed[i] = Listed[j] => i = j
         /\ live = {Listed[i] : i \in 1..Len(Listed)} /\ NULL \notin live
<1>1. Whole(Listed, lh_first, le_next, le_prev) /\ live = ToSet(Listed)
  BY DEF IInv
<1>2. /\ Listed \in Seq(Entry) /\ Len(Listed) \in Nat /\ DOMAIN Listed = 1..Len(Listed)
      /\ (Listed = << >>) <=> (Len(Listed) = 0)
      /\ \A i, j \in 1..Len(Listed) : Listed[i] = Listed[j] => i = j
      /\ ToSet(Listed) = {Listed[i] : i \in 1..Len(Listed)}
  BY <1>1, WholeFacts
<1>3. \A i \in 1..Len(Listed) : Listed[i] # NULL
  BY <1>1, WholeFacts
<1>4. Listed # << >> => Len(Listed) \in 1..Len(Listed)
  BY <1>2
<1>5. tail = IF Listed = << >> THEN NULL ELSE Listed[Len(Listed)]
  BY DEF IInv
<1>6. NULL \notin live
  BY <1>1, <1>2, <1>3
<1>7. (tail = NULL) <=> (Listed = << >>)
  BY <1>3, <1>4, <1>5
<1> QED BY <1>1, <1>2, <1>4, <1>5, <1>6, <1>7

\* insnlist_insert_tail appends.
LEMMA TailStep ==
  ASSUME IInv, NEW e \in Entry, insnlist_insert_tail(e)
  PROVE  IInv' /\ Listed' = Append(Listed, e)
<1>1. /\ pc = "build" /\ Allocated(e) /\ tail' = e /\ UNCHANGED <<pc, cursor, file>>
      /\ IF tail = NULL THEN TLIST_INSERT_HEAD(e) ELSE TLIST_INSERT_AFTER(tail, e)
  BY DEF insnlist_insert_tail
<1>2. CASE Listed = << >>
  <2>1. TLIST_INSERT_HEAD(e)
    BY <1>1, <1>2, TailIsLast
  <2> QED BY <2>1, <1>1, <1>2, StartsList
<1>3. CASE Listed # << >>
  <2> DEFINE i == Len(Listed)
  <2>1. /\ i \in 1..Len(Listed) /\ i \in Nat /\ Listed \in Seq(Entry)
        /\ TLIST_INSERT_AFTER(Listed[i], e) /\ e \notin live
    BY <1>1, <1>3, TailIsLast DEF Allocated
  <2>2. Whole(InsertAt(Listed, i + 1, e), lh_first', le_next', le_prev')
    BY <2>1, AfterMacro
  <2>3. i + 1 \in 1..(Len(Listed) + 1) /\ tail' = IF i + 1 = Len(Listed) + 1 THEN e ELSE tail
    BY <1>1, <2>1
  <2>4. IInv' /\ Listed' = InsertAt(Listed, i + 1, e)
    BY <2>2, <2>3, <1>1, InsertedAt
  <2> QED BY <2>1, <2>4, InsertAtEnd
<1> QED BY <1>2, <1>3

\* insnlist_insert_before puts the entry in front of the caller's position.
LEMMA BeforeStep ==
  ASSUME IInv, NEW e \in Entry, NEW pos \in live \cup {NULL}, insnlist_insert_before(pos, e)
  PROVE  IInv' /\ Listed' = PutBefore(Listed, pos, e) /\ (pos = NULL => Listed = << >>)
<1>1. /\ pc = "build" /\ Allocated(e) /\ UNCHANGED <<pc, cursor, file>> /\ ~Rejects(pos)
      /\ IF pos = NULL THEN TLIST_INSERT_HEAD(e) /\ tail' = e
                       ELSE TLIST_INSERT_BEFORE(pos, e) /\ tail' = tail
  BY DEF insnlist_insert_before
<1>2. CASE pos = NULL
  <2>1. Listed = << >> /\ TLIST_INSERT_HEAD(e) /\ tail' = e
    BY <1>1, <1>2, TailIsLast DEF Rejects
  <2> QED BY <2>1, <1>1, StartsList DEF PutBefore
<1>3. CASE pos # NULL
  <2>1. PICK i \in 1..Len(Listed) : pos = Listed[i]
    BY <1>1, <1>3, TailIsLast
  <2>2. /\ Len(Listed) \in Nat /\ Listed # << >> /\ DOMAIN Listed = 1..Len(Listed)
        /\ \A j \in 1..Len(Listed) : Listed[j] = Listed[i] => j = i
    BY <1>1, TailIsLast
  <2>3. TLIST_INSERT_BEFORE(Listed[i], e) /\ tail' = tail /\ e \notin live
    BY <1>1, <1>3, <2>1 DEF Allocated
  <2>4. Whole(InsertAt(Listed, i, e), lh_first', le_next', le_prev')
    BY <2>3, BeforeMacro
  <2>5. i \in 1..(Len(Listed) + 1) /\ i # Len(Listed) + 1
    BY <2>2
  <2>6. tail' = IF i = Len(Listed) + 1 THEN e ELSE tail
    BY <2>3, <2>5
  <2>7. IInv' /\ Listed' = InsertAt(Listed, i, e)
    BY <2>4, <2>5, <2>6, <1>1, InsertedAt
  <2>8. PlaceOf(Listed, Listed[i]) = i
    BY <2>2, PlaceIsUnique
  <2> QED BY <2>1, <2>2, <2>7, <2>8, <1>3 DEF PutBefore
<1> QED BY <1>2, <1>3

\* insnlist_insert_after puts the entry behind the caller's position.
LEMMA AfterStep ==
  ASSUME IInv, NEW e \in Entry, NEW pos \in live \cup {NULL}, insnlist_insert_after(pos, e)
  PROVE  IInv' /\ Listed' = PutAfter(Listed, pos, e) /\ (pos = NULL => Listed = << >>)
<1>1. /\ pc = "build" /\ Allocated(e) /\ UNCHANGED <<pc, cursor, file>> /\ ~Rejects(pos)
      /\ IF pos = NULL THEN TLIST_INSERT_HEAD(e) /\ tail' = e
                       ELSE /\ TLIST_INSERT_AFTER(pos, e)
                            /\ tail' = IF pos = tail THEN e ELSE tail
  BY DEF insnlist_insert_after
<1>2. CASE pos = NULL
  <2>1. Listed = << >> /\ TLIST_INSERT_HEAD(e) /\ tail' = e
    BY <1>1, <1>2, TailIsLast DEF Rejects
  <2> QED BY <2>1, <1>1, StartsList DEF PutAfter
<1>3. CASE pos # NULL
  <2>1. PICK i \in 1..Len(Listed) : pos = Listed[i]
    BY <1>1, <1>3, TailIsLast
  <2>2. /\ Len(Listed) \in Nat /\ Listed # << >> /\ DOMAIN Listed = 1..Len(Listed)
        /\ \A j \in 1..Len(Listed) : Listed[j] = Listed[i] => j = i
        /\ tail = Listed[Len(Listed)] /\ Len(Listed) \in 1..Len(Listed)
    BY <1>1, TailIsLast
  <2>3. /\ TLIST_INSERT_AFTER(Listed[i], e) /\ e \notin live
        /\ tail' = IF pos = tail THEN e ELSE tail
    BY <1>1, <1>3, <2>1 DEF Allocated
  <2>4. Whole(InsertAt(Listed, i + 1, e), lh_first', le_next', le_prev')
    BY <2>3, AfterMacro
  <2>5. i + 1 \in 1..(Len(Listed) + 1) /\ (i + 1 = Len(Listed) + 1 <=> i = Len(Listed))
    <3>1. Len(Listed) \in Nat
      BY <2>2
    <3> QED BY <3>1
  <2>6. tail' = IF i + 1 = Len(Listed) + 1 THEN e ELSE tail
    BY <2>1, <2>2, <2>3, <2>5
  <2>7. IInv' /\ Listed' = InsertAt(Listed, i + 1, e)
    BY <2>4, <2>5, <2>6, <1>1, InsertedAt
  <2>8. PlaceOf(Listed, Listed[i]) = i
    BY <2>2, PlaceIsUnique
  <2> QED BY <2>1, <2>2, <2>7, <2>8, <1>3 DEF PutAfter
<1> QED BY <1>2, <1>3

\* insnlist_clear removes the first entry.
LEMMA ClearStep ==
  ASSUME IInv, ClearEntry
  PROVE  IInv' /\ Listed # << >> /\ Listed' = Tail(Listed)
<1>1. /\ pc = "clear" /\ lh_first # NULL /\ TLIST_REMOVE(lh_first) /\ live' = live \ {lh_first}
      /\ UNCHANGED <<tail, insn_count, pc, cursor, file>>
  BY DEF ClearEntry
<1>2. Listed # << >> /\ Whole(Listed, lh_first, le_next, le_prev)
  BY <1>1 DEF IInv, Whole, Linked
<1> DEFINE t == Tail(Listed)
<1>3. Whole(t, lh_first', le_next', le_prev') /\ ToSet(t) = ToSet(Listed) \ {lh_first}
  BY <1>1, <1>2, RemoveMacro
<1> HIDE DEF t
<1>4. Listed' = t
  <2>1. Followed(lh_first', le_next') = t
    BY <1>3, WholeIsFollowed
  <2> QED BY <2>1 DEF Listed
<1>5. TypeOK'
  <2>1. /\ le_next' \in [Entry -> Entry \cup {NULL}]
        /\ le_prev' \in [Entry -> Entry \cup {NULL, HEAD}]
        /\ lh_first' \in Entry \cup {NULL}
    <3>1. /\ t \in Seq(Entry) /\ Len(t) \in Nat /\ (t = << >> <=> Len(t) = 0)
          /\ lh_first' = IF t = << >> THEN NULL ELSE t[1]
          /\ le_next' \in [Entry -> Entry \cup {NULL}]
          /\ le_prev' \in [Entry -> Entry \cup {NULL, HEAD}]
      BY <1>3, WholeFacts
    <3>2. t # << >> => t[1] \in Entry
      <4>1. t # << >> => 1 \in 1..Len(t)
        BY <3>1
      <4> QED BY <4>1, <3>1, ElementOfSeq
    <3> QED BY <3>1, <3>2
  <2> QED BY <2>1, <1>1 DEF IInv, TypeOK
<1>6. Whole(Listed', lh_first', le_next', le_prev') /\ live' = ToSet(Listed')
  BY <1>1, <1>3, <1>4 DEF IInv
<1> QED BY <1>1, <1>2, <1>4, <1>5, <1>6 DEF IInv, t

\* A step that leaves the links alone leaves the list alone.
LEMMA SameLinks ==
  ASSUME UNCHANGED links
  PROVE  /\ Listed' = Listed
         /\ Whole(Listed, lh_first, le_next, le_prev) => Whole(Listed', lh_first', le_next', le_prev')
<1>1. lh_first' = lh_first /\ le_next' = le_next /\ le_prev' = le_prev
  BY DEF links
<1>2. Listed' = Listed
  BY <1>1 DEF Listed
<1> QED BY <1>1, <1>2

\* The loop of insnlist_output stays on the list.
LEMMA OutputStep ==
  ASSUME IInv, OutputEntry
  PROVE  IInv' /\ Listed' = Listed /\ pc = "output" /\ pc' = "output"
<1>1. /\ pc = "output" /\ cursor # NULL /\ file' = Append(file, cursor)
      /\ cursor' = le_next[cursor]
      /\ UNCHANGED <<links, tail, insn_count, live, pc>>
  BY DEF OutputEntry
<1>2. Listed' = Listed /\ Whole(Listed', lh_first', le_next', le_prev')
  BY <1>1, SameLinks DEF IInv
<1>3. PICK k \in 0..Len(Listed) : /\ file = SubSeq(Listed, 1, k)
                                  /\ cursor = IF k = Len(Listed) THEN NULL ELSE Listed[k + 1]
  BY <1>1 DEF IInv
<1> DEFINE m == k + 1
<1>4. /\ Listed \in Seq(Entry) /\ Len(Listed) \in Nat
      /\ \A i \in 1..Len(Listed) : /\ Listed[i] \in Entry
                                    /\ le_next[Listed[i]] = IF i = Len(Listed) THEN NULL ELSE Listed[i + 1]
  BY WholeFacts DEF IInv
<1>5. m \in 1..Len(Listed) /\ m \in 0..Len(Listed) /\ cursor = Listed[m]
  <2>1. k # Len(Listed) /\ cursor = Listed[m]
    BY <1>1, <1>3
  <2> QED BY <2>1, <1>4
<1>6. file' = SubSeq(Listed, 1, m)
  <2>0. k < Len(Listed)
    BY <1>4, <1>5
  <2>1. Append(SubSeq(Listed, 1, k), Listed[k + 1]) = SubSeq(Listed, 1, k + 1)
    BY <2>0, <1>4, SubSeqGrows
  <2> QED BY <2>1, <1>1, <1>3, <1>5
<1>7. cursor' = IF m = Len(Listed) THEN NULL ELSE Listed[m + 1]
  BY <1>1, <1>4, <1>5
<1> HIDE DEF m
<1>8. \E l \in 0..Len(Listed') : /\ file' = SubSeq(Listed', 1, l)
                                 /\ cursor' = IF l = Len(Listed') THEN NULL ELSE Listed'[l + 1]
  BY <1>2, <1>5, <1>6, <1>7
<1>9. TypeOK'
  <2>1. cursor \in Entry /\ le_next \in [Entry -> Entry \cup {NULL}]
    BY <1>4, <1>5 DEF IInv, TypeOK
  <2>2. cursor' \in Entry \cup {NULL}
    BY <2>1, <1>1
  <2> QED BY <2>2, <1>1 DEF IInv, TypeOK, links
<1>10. live' = ToSet(Listed') /\ pc' = "output"
  BY <1>1, <1>2 DEF IInv
<1> QED BY <1>1, <1>2, <1>8, <1>9, <1>10 DEF IInv

\* The steps between the loops.
LEMMA PhaseStep ==
  ASSUME IInv, StartOutput \/ EndOutput \/ EndClear
  PROVE  /\ IInv' /\ Listed' = Listed /\ file' = file
         /\ EndOutput => file = Listed
<1>1. /\ UNCHANGED <<links, live, file>>
      /\ StartOutput \/ EndOutput \/ EndClear
  BY DEF StartOutput, EndOutput, EndClear
<1>2. Listed' = Listed /\ Whole(Listed', lh_first', le_next', le_prev') /\ live' = ToSet(Listed')
  BY <1>1, SameLinks DEF IInv
<1>3. /\ Listed \in Seq(Entry) /\ Len(Listed) \in Nat /\ (Listed = << >> <=> Len(Listed) = 0)
      /\ lh_first = IF Listed = << >> THEN NULL ELSE Listed[1]
  BY WholeFacts DEF IInv
<1>4. \A i \in 1..Len(Listed) : Listed[i] # NULL
  BY WholeFacts DEF IInv
<1>5. CASE StartOutput
  <2>1. pc = "build" /\ pc' = "output" /\ cursor' = lh_first /\ UNCHANGED <<tail, insn_count>>
    BY <1>5 DEF StartOutput
  <2>2. file = SubSeq(Listed, 1, 0)
    BY <2>1, SubSeqEmpty, <1>3 DEF IInv
  <2>3. 0 \in 0..Len(Listed) /\ cursor' = IF 0 = Len(Listed) THEN NULL ELSE Listed[0 + 1]
    BY <2>1, <1>3
  <2>4. \E k \in 0..Len(Listed') : /\ file' = SubSeq(Listed', 1, k)
                                   /\ cursor' = IF k = Len(Listed') THEN NULL ELSE Listed'[k + 1]
    BY <2>2, <2>3, <1>1, <1>2
  <2>5. TypeOK'
    BY <2>1, <1>1 DEF IInv, TypeOK, links
  <2>6. ~EndOutput
    BY <2>1 DEF EndOutput
  <2> QED BY <2>1, <2>4, <2>5, <2>6, <1>1, <1>2 DEF IInv
<1>6. CASE EndOutput
  <2>1. pc = "output" /\ cursor = NULL /\ pc' = "clear" /\ UNCHANGED <<tail, insn_count, cursor>>
    BY <1>6 DEF EndOutput
  <2>2. PICK k \in 0..Len(Listed) : /\ file = SubSeq(Listed, 1, k)
                                    /\ cursor = IF k = Len(Listed) THEN NULL ELSE Listed[k + 1]
    BY <2>1 DEF IInv
  <2>3. k = Len(Listed)
    <3> SUFFICES ASSUME k # Len(Listed) PROVE FALSE
      OBVIOUS
    <3>1. k + 1 \in 1..Len(Listed) /\ Listed[k + 1] = NULL
      BY <2>1, <2>2, <1>3
    <3> QED BY <3>1, <1>4
  <2>4. file = Listed
    BY <2>2, <2>3, <1>3, SubSeqFull
  <2>5. TypeOK'
    BY <2>1, <1>1 DEF IInv, TypeOK, links
  <2> QED BY <2>1, <2>4, <2>5, <1>1, <1>2 DEF IInv
<1>7. CASE EndClear
  <2>1. pc = "clear" /\ lh_first = NULL /\ pc' = "closed" /\ tail' = NULL /\ insn_count' = 0 /\ cursor' = cursor
    BY <1>7 DEF EndClear
  <2>2. Listed = << >>
    <3>1. Listed # << >> => 1 \in 1..Len(Listed)
      BY <1>3
    <3> QED BY <3>1, <2>1, <1>3, <1>4
  <2>3. TypeOK'
    <3>1. 0 \in 0..Cardinality(Entry)
      BY HeapFinite, FS_CardinalityType
    <3> QED BY <3>1, <2>1, <1>1 DEF IInv, TypeOK, links
  <2>4. ~EndOutput
    BY <2>1 DEF EndOutput
  <2> QED BY <2>1, <2>2, <2>3, <2>4, <1>1, <1>2 DEF IInv
<1> QED BY <1>1, <1>5, <1>6, <1>7

\* Every step keeps the invariant.
LEMMA NextIInv == IInv /\ [Next]_vars => IInv'
<1> SUFFICES ASSUME IInv, [Next]_vars PROVE IInv'
  OBVIOUS
<1>1. CASE Insert
  BY <1>1, TailStep, BeforeStep, AfterStep DEF Insert
<1>2. CASE StartOutput \/ EndOutput \/ EndClear
  BY <1>2, PhaseStep
<1>3. CASE OutputEntry
  BY <1>3, OutputStep
<1>4. CASE ClearEntry
  BY <1>4, ClearStep
<1>5. CASE UNCHANGED vars
  <2>1. /\ UNCHANGED links
        /\ UNCHANGED <<lh_first, le_next, le_prev, tail, insn_count, live, pc, cursor, file>>
    BY <1>5 DEF vars, links
  <2>2. Listed' = Listed /\ Whole(Listed', lh_first', le_next', le_prev')
    BY <2>1, SameLinks DEF IInv
  <2>3. TypeOK'
    BY <2>1 DEF IInv, TypeOK
  <2> QED BY <2>1, <2>2, <2>3 DEF IInv
<1> QED BY <1>1, <1>2, <1>3, <1>4, <1>5 DEF Next

\* The invariant holds of every behaviour of the list.
LEMMA AlwaysIInv == Spec => []IInv
<1>1. Init => IInv
  BY InitIInv
<1>2. IInv /\ [Next]_vars => IInv'
  BY NextIInv
<1> QED BY <1>1, <1>2, PTL DEF Spec

-----------------------------------------------------------------------------
(* The results.                                                            *)

\* In every heap, whatever the callers insert and where, no entry is lost or
\* met twice, the tail and the count agree with the chain while callers can
\* insert, and every back link is the cell that points to its entry.
THEOREM ListAlwaysWhole == Spec => []ListWhole
<1>1. IInv => ListWhole
  <2> SUFFICES ASSUME IInv PROVE ListWhole
    OBVIOUS
  <2>1. /\ Listed \in Seq(Entry) /\ IsInjective(Listed) /\ Len(Listed) \in Nat
        /\ ToSet(Listed) = {Listed[i] : i \in 1..Len(Listed)} /\ live = ToSet(Listed)
        /\ lh_first = IF Listed = << >> THEN NULL ELSE Listed[1]
        /\ (Listed = << >>) <=> (Len(Listed) = 0)
    BY WholeFacts DEF IInv
  <2>2. \A i \in 1..Len(Listed) :
           /\ Listed[i] # HEAD
           /\ le_next[Listed[i]] = IF i = Len(Listed) THEN NULL ELSE Listed[i + 1]
           /\ le_prev[Listed[i]] = IF i = 1 THEN HEAD ELSE Listed[i - 1]
    BY WholeFacts DEF IInv
  <2>3. NothingLost
    <3>1. Len(Listed) = Cardinality(live)
      BY <2>1, InjectiveLength
    <3> QED BY <3>1, <2>1 DEF NothingLost, IInv
  <2>4. BackLinksExact
    <3> SUFFICES ASSUME NEW i \in 1..Len(Listed)
                 PROVE  IF le_prev[Listed[i]] = HEAD THEN lh_first = Listed[i]
                        ELSE le_prev[Listed[i]] \in live /\ le_next[le_prev[Listed[i]]] = Listed[i]
      BY <2>1 DEF BackLinksExact
    <3>1. CASE i = 1
      <4>1. le_prev[Listed[i]] = HEAD /\ lh_first = Listed[i]
        BY <3>1, <2>1, <2>2
      <4> QED BY <4>1
    <3>2. CASE i # 1
      <4>1. i - 1 \in 1..Len(Listed) /\ (i - 1) + 1 = i /\ i - 1 # Len(Listed)
        <5>1. Len(Listed) \in Nat
          BY <2>1
        <5> QED BY <5>1, <3>2
      <4>2. le_prev[Listed[i]] = Listed[i - 1] /\ Listed[i - 1] # HEAD
        BY <4>1, <3>2, <2>2
      <4>3. le_next[Listed[i - 1]] = Listed[i]
        BY <4>1, <2>2
      <4>4. Listed[i - 1] \in live
        BY <4>1, <2>1
      <4> QED BY <4>2, <4>3, <4>4
    <3> QED BY <3>1, <3>2
  <2> QED BY <2>3, <2>4 DEF ListWhole, IInv
<1> QED BY <1>1, AlwaysIInv, PTL

\* The pointers of queue.h implement the sequence of InsnSeq: every insertion
\* puts its entry where the caller asked, what is written is the list from
\* front to back, and clearing drops the entries from the front.
THEOREM ListImplementsSeq == Spec => Implements
<1>1. Init => Abs!Init
  BY InitIInv DEF Init, Abs!Init
<1>2. IInv /\ [Next]_vars => [Abs!Next]_Abs!vars
  <2> SUFFICES ASSUME IInv, [Next]_vars PROVE [Abs!Next]_Abs!vars
    OBVIOUS
  <2> DEFINE out == IF pc \in {"build", "output"} THEN << >> ELSE file
             written == pc \in {"clear", "closed"}
  <2>1. CASE Insert
    <3>1. PICK e \in Entry : \/ insnlist_insert_tail(e)
                             \/ \E pos \in live \cup {NULL} : \/ insnlist_insert_before(pos, e)
                                                             \/ insnlist_insert_after(pos, e)
      BY <2>1 DEF Insert
    <3>2. pc = "build" /\ pc' = "build" /\ e \in Entry \ live
      BY <3>1 DEF insnlist_insert_tail, insnlist_insert_before, insnlist_insert_after, Allocated
    <3>3. e \in Entry \ ToSet(Listed) /\ live = ToSet(Listed)
      BY <3>2 DEF IInv
    <3>4. ~written /\ written' = written /\ out' = out
      BY <3>2
    <3>a. Abs!ToSet(Listed) = ToSet(Listed)
      BY Zenon DEF Abs!ToSet, ToSet
    <3>b. \A pos : Abs!PutBefore(Listed, pos, e) = PutBefore(Listed, pos, e)
      BY Zenon DEF Abs!PutBefore, PutBefore, Abs!PlaceOf, PlaceOf, Abs!InsertAt, InsertAt
    <3>c. \A pos : Abs!PutAfter(Listed, pos, e) = PutAfter(Listed, pos, e)
      BY Zenon DEF Abs!PutAfter, PutAfter, Abs!PlaceOf, PlaceOf, Abs!InsertAt, InsertAt
    <3>5. CASE insnlist_insert_tail(e)
      <4>1. Abs!InsertTail(e)
        BY <3>4, <3>5, TailStep DEF Abs!InsertTail
      <4> QED BY <4>1, <3>3, <3>a DEF Abs!Next
    <3>6. ASSUME NEW pos \in live \cup {NULL}, insnlist_insert_before(pos, e)
          PROVE  Abs!Next
      <4>1. Abs!InsertBefore(pos, e)
        BY <3>4, <3>6, <3>b, BeforeStep DEF Abs!InsertBefore, Abs!Refused
      <4> QED BY <4>1, <3>3, <3>a DEF Abs!Next
    <3>7. ASSUME NEW pos \in live \cup {NULL}, insnlist_insert_after(pos, e)
          PROVE  Abs!Next
      <4>1. Abs!InsertAfter(pos, e)
        BY <3>4, <3>7, <3>c, AfterStep DEF Abs!InsertAfter, Abs!Refused
      <4> QED BY <4>1, <3>3, <3>a DEF Abs!Next
    <3> QED BY <3>1, <3>5, <3>6, <3>7
  <2>2. CASE StartOutput
    <3>1. pc = "build" /\ pc' = "output" /\ Listed' = Listed
      BY <2>2, PhaseStep DEF StartOutput
    <3>2. written' = written /\ out' = out
      BY <3>1
    <3> QED BY <3>1, <3>2 DEF Abs!vars
  <2>3. CASE OutputEntry
    <3>1. pc = "output" /\ pc' = "output" /\ Listed' = Listed
      BY <2>3, OutputStep
    <3>2. written' = written /\ out' = out
      BY <3>1
    <3> QED BY <3>1, <3>2 DEF Abs!vars
  <2>4. CASE EndOutput
    <3>1. pc = "output" /\ pc' = "clear" /\ Listed' = Listed /\ file = Listed /\ file' = file
      BY <2>4, PhaseStep DEF EndOutput
    <3>2. ~written /\ written' = TRUE /\ out' = Listed
      BY <3>1
    <3> QED BY <3>1, <3>2 DEF Abs!Next, Abs!Output
  <2>5. CASE ClearEntry
    <3>1. pc = "clear" /\ pc' = pc /\ file' = file
      BY <2>5 DEF ClearEntry
    <3>2. written /\ written' = written /\ out' = out
      BY <3>1
    <3> QED BY <3>2, <2>5, ClearStep DEF Abs!Next, Abs!DropFirst
  <2>6. CASE EndClear
    <3>1. pc = "clear" /\ pc' = "closed" /\ Listed' = Listed /\ file' = file
      BY <2>6, PhaseStep DEF EndClear
    <3>2. written' = written /\ out' = out
      BY <3>1
    <3> QED BY <3>1, <3>2 DEF Abs!vars
  <2>7. CASE UNCHANGED vars
    <3>1. pc' = pc /\ file' = file /\ Listed' = Listed
      BY <2>7, SameLinks DEF vars, links
    <3> QED BY <3>1 DEF Abs!vars
  <2> QED BY <2>1, <2>2, <2>3, <2>4, <2>5, <2>6, <2>7 DEF Next
<1> QED BY <1>1, <1>2, AlwaysIInv, PTL DEF Spec, Implements, Abs!Spec
=============================================================================

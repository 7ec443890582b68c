--------------------------- MODULE HashTbl_proofs ---------------------------
(***************************************************************************)
(* What is proved of the hash table, for all hashes, keys and sizes: the   *)
(* searches of callers that look before they add, as the contract of       *)
(* hashtbl.c has it, end and find exactly what was added, through all      *)
(* collisions and growths, and nothing is stored into a table that has     *)
(* moved.                                                                  *)
(***************************************************************************)
EXTENDS HashTbl, Lemmas, FiniteSetTheorems, SequenceTheorems

-----------------------------------------------------------------------------
(* Odd steps through a power of 2 of slots.                                *)

Divides(a, b) == \E q \in Int : b = a * q

\* Odd steps return to a slot only after they have gone through all n.
OddSteps(n) == \A d \in Int, s \in Nat : s % 2 = 1 /\ Divides(n, d * s) => Divides(n, d)

\* A remainder of 0 is a factor.
LEMMA ModDiv ==
  ASSUME NEW n \in Nat, NEW d \in Nat, d > 0
  PROVE  n % d = 0 <=> Divides(d, n)
<1>1. n = d * (n \div d) + (n % d) /\ n \div d \in Int /\ n % d \in 0..(d-1)
  OBVIOUS
<1>2. ASSUME n % d = 0 PROVE Divides(d, n)
  BY <1>1, <1>2 DEF Divides
<1>3. ASSUME NEW q \in Int, n = d * q PROVE n % d = 0
  BY <1>3
<1> QED BY <1>2, <1>3 DEF Divides

\* A product of odd numbers is odd.
LEMMA OddProduct ==
  ASSUME NEW a \in Int, NEW b \in Int, a % 2 = 1, b % 2 = 1
  PROVE  (a * b) % 2 = 1
<1>1. PICK x \in Int : a = 2 * x + 1
  OBVIOUS
<1>2. PICK y \in Int : b = 2 * y + 1
  OBVIOUS
<1>3. a * b = 2 * (2 * (x * y) + x + y) + 1
  BY <1>1, <1>2
<1>4. 2 * (x * y) + x + y \in Int
  OBVIOUS
<1> QED BY <1>3, <1>4

\* A positive factor can be cancelled.
LEMMA CancelFactor ==
  ASSUME NEW n \in Nat, n > 0, NEW a \in Int, NEW b \in Int, n * a = n * b
  PROVE  a = b
OBVIOUS

\* Twice as many slots are visited as well.
LEMMA OddStepsDouble ==
  ASSUME NEW n \in Nat, n > 0, OddSteps(n)
  PROVE  OddSteps(2 * n)
<1> SUFFICES ASSUME NEW d \in Int, NEW s \in Nat, s % 2 = 1, NEW m \in Int, d * s = (2 * n) * m
             PROVE Divides(2 * n, d)
  BY ZenonT(30) DEF OddSteps, Divides
<1>1. d * s = n * (2 * m) /\ 2 * m \in Int
  OBVIOUS
<1>2. PICK q \in Int : d = n * q
  BY <1>1 DEF OddSteps, Divides
<1>3. n * (q * s) = n * (2 * m)
  BY <1>1, <1>2
<1>4. q * s = 2 * m
  BY <1>3, CancelFactor
<1>5. q % 2 = 0
  BY <1>4, OddProduct
<1>6. PICK r \in Int : q = 2 * r
  BY <1>5
<1>7. d = (2 * n) * r
  BY <1>2, <1>6
<1> QED BY <1>7 DEF Divides

\* A table that has doubled still has a power of 2 of slots.
LEMMA PowerOf2Double ==
  ASSUME NEW n \in Nat, n > 0, PowerOf2(n)
  PROVE  PowerOf2(2 * n)
<1> SUFFICES ASSUME NEW d \in 2..(2 * n), (2 * n) % d = 0, d % 2 = 1 PROVE FALSE
  BY DEF PowerOf2
<1>1. d \in Nat /\ d > 0 /\ 2 * n \in Nat
  OBVIOUS
<1>2. PICK m \in Int : 2 * n = d * m
  BY <1>1, ModDiv DEF Divides
<1>3. m % 2 = 0
  BY <1>1, <1>2, OddProduct
<1>4. PICK r \in Int : m = 2 * r
  BY <1>3
<1>5. d * m = 2 * (d * r)
  BY <1>4
<1>6. n = d * r
  BY <1>1, <1>2, <1>5
<1>7. n % d = 0
  BY <1>1, <1>6, ModDiv DEF Divides
<1>8. r > 0
  BY <1>1, <1>6
<1>9. d <= n
  BY <1>1, <1>6, <1>8
<1> QED BY <1>1, <1>7, <1>9 DEF PowerOf2

\* Half of a power of 2 is a power of 2.
LEMMA PowerOf2Half ==
  ASSUME NEW n \in Nat, n > 1, PowerOf2(n)
  PROVE n \div 2 \in Nat /\ n \div 2 > 0 /\ n = 2 * (n \div 2) /\ PowerOf2(n \div 2)
<1>1. n % n = 0 /\ n \in 2..n
  OBVIOUS
<1>2. n % 2 = 0
  BY <1>1 DEF PowerOf2
<1> DEFINE k == n \div 2
<1>3. k \in Nat /\ k > 0 /\ n = 2 * k
  BY <1>2
<1> HIDE DEF k
<1>4. ASSUME NEW d \in 2..k, k % d = 0 PROVE d % 2 = 0
  <2>1. d \in Nat /\ d > 0 /\ d \in 2..n
    BY <1>3
  <2>2. PICK q \in Int : k = d * q
    BY <1>3, <1>4, <2>1, ModDiv DEF Divides
  <2>3. n = d * (2 * q) /\ 2 * q \in Int
    BY <1>3, <2>1, <2>2
  <2>4. n % d = 0
    BY <2>1, <2>3, ModDiv DEF Divides
  <2> QED BY <2>1, <2>4 DEF PowerOf2
<1> QED BY <1>3, <1>4 DEF PowerOf2, k

\* Odd steps visit all of a power of 2 of slots: the least number where they did not
\* would be twice a smaller one.
LEMMA PowerOf2OddSteps ==
  ASSUME NEW n \in Nat, n > 0, PowerOf2(n)
  PROVE  OddSteps(n)
<1> DEFINE T == {m \in Nat : m > 0 /\ PowerOf2(m) /\ ~OddSteps(m)}
<1> SUFFICES ASSUME T # {} PROVE FALSE
  OBVIOUS
<1>1. PICK x \in T : \A y \in T : x <= y
  <2>1. T \subseteq Nat
    OBVIOUS
  <2> HIDE DEF T
  <2> QED BY <2>1, LeastNat
<1>2. x \in Nat /\ x > 0 /\ PowerOf2(x) /\ ~OddSteps(x)
  OBVIOUS
<1>3. CASE x = 1
  <2>1. OddSteps(1)
    <3>1. \A d \in Int : Divides(1, d)
      BY DEF Divides
    <3> QED BY <3>1 DEF OddSteps
  <2> QED BY <2>1, <1>2, <1>3
<1>4. CASE x # 1
  <2> DEFINE k == x \div 2
  <2>1. k \in Nat /\ k > 0 /\ x = 2 * k /\ PowerOf2(k)
    BY <1>2, <1>4, PowerOf2Half
  <2> HIDE DEF k
  <2>2. ~OddSteps(k)
    BY <1>2, <2>1, OddStepsDouble
  <2>3. k \in T
    BY <2>1, <2>2
  <2>4. x <= k
    BY <1>1, <2>3
  <2> QED BY <2>1, <2>4
<1> QED BY <1>3, <1>4

\* hash_inc: the distance between two slots of a search.
StepOf(n, h) == LET step == h.hi % n IN IF step % 2 = 0 THEN step + 1 ELSE step

\* A search of n looks visits n slots.
LEMMA ProbeInjective ==
  ASSUME NEW n \in Nat, n > 0, PowerOf2(n), NEW h \in [lo : Nat, hi : Nat]
  PROVE  /\ \A i \in 1..n : Probe(n, h, i) \in 1..n
         /\ \A i, j \in 1..n : Probe(n, h, i) = Probe(n, h, j) => i = j
<1> DEFINE s == StepOf(n, h)
<1>1. s \in Nat /\ s % 2 = 1
  <2>1. h.hi \in Nat
    OBVIOUS
  <2>2. h.hi % n \in Nat
    BY <2>1
  <2> QED BY <2>2 DEF StepOf
<1>2. \A i \in 1..n : Probe(n, h, i) = 1 + ((h.lo + (i - 1) * s) % n)
  BY DEF Probe, StepOf
<1> HIDE DEF s
<1>3. \A i \in 1..n : h.lo + (i - 1) * s \in Nat
  <2> TAKE i \in 1..n
  <2>1. h.lo \in Nat /\ i - 1 \in Nat
    OBVIOUS
  <2>2. (i - 1) * s \in Nat
    BY <2>1, <1>1
  <2> QED BY <2>1, <2>2
<1>4. \A x \in Nat : x % n \in 0..(n - 1)
  OBVIOUS
<1>5. \A i \in 1..n : Probe(n, h, i) \in 1..n
  <2> TAKE i \in 1..n
  <2> DEFINE x == h.lo + (i - 1) * s
  <2>1. x \in Nat
    BY <1>3
  <2>2. Probe(n, h, i) = 1 + (x % n)
    BY <1>2
  <2> HIDE DEF x
  <2> QED BY <2>1, <2>2, <1>4
<1>6. ASSUME NEW i \in 1..n, NEW j \in 1..n, Probe(n, h, i) = Probe(n, h, j)
      PROVE  i = j
  <2> DEFINE x == h.lo + (i - 1) * s
             y == h.lo + (j - 1) * s
  <2>1. x \in Nat /\ y \in Nat /\ x - y = (i - j) * s
    BY <1>1, <1>3
  <2>2. x % n = y % n
    <3>1. Probe(n, h, i) = 1 + (x % n) /\ Probe(n, h, j) = 1 + (y % n)
      BY <1>2
    <3>2. x % n \in Nat /\ y % n \in Nat
      BY <2>1, <1>4
    <3> HIDE DEF x, y
    <3> QED BY <3>1, <3>2, <1>6
  <2> HIDE DEF x, y
  <2>3. x - y = n * ((x \div n) - (y \div n)) /\ (x \div n) - (y \div n) \in Int
    <3>1. x = n * (x \div n) + (x % n) /\ y = n * (y \div n) + (y % n)
      BY <2>1
    <3>2. x \div n \in Int /\ y \div n \in Int
      BY <2>1
    <3> QED BY <3>1, <3>2, <2>1, <2>2
  <2>4. Divides(n, (i - j) * s)
    BY <2>1, <2>3 DEF Divides
  <2>5. Divides(n, i - j)
    <3>1. i - j \in Int
      OBVIOUS
    <3>2. OddSteps(n)
      BY PowerOf2OddSteps
    <3> QED BY <3>1, <3>2, <2>4, <1>1 DEF OddSteps
  <2>6. PICK q \in Int : i - j = n * q
    BY <2>5 DEF Divides
  <2>7. i - j < n /\ i - j > -n
    OBVIOUS
  <2>8. q < 1 /\ q > -1
    BY <2>6, <2>7
  <2> QED BY <2>6, <2>8
<1> QED BY <1>5, <1>6

\* A search of n looks visits every slot.
LEMMA ProbeCovers ==
  ASSUME NEW n \in Nat, n > 0, PowerOf2(n), NEW h \in [lo : Nat, hi : Nat], NEW j \in 1..n
  PROVE  \E i \in 1..n : Probe(n, h, i) = j
<1> DEFINE f == [i \in 1..n |-> Probe(n, h, i)]
<1>1. /\ \A i \in 1..n : f[i] \in 1..n
      /\ \A i, k \in 1..n : f[i] = f[k] => i = k
  BY ProbeInjective
<1>2. f \in [1..n -> 1..n]
  BY <1>1
<1>3. f \in Injection(1..n, 1..n)
  BY <1>1, <1>2 DEF Injection, IsInjective
<1>4. IsFiniteSet(1..n)
  BY FS_Interval
<1>5. f \in Surjection(1..n, 1..n)
  <2> HIDE DEF f
  <2> QED BY <1>3, <1>4, FS_Injection
<1>6. \E i \in 1..n : f[i] = j
  BY <1>5 DEF Surjection
<1> QED BY <1>6

-----------------------------------------------------------------------------
(* Tables.                                                                 *)

Node == [key : Keys, hash : Hash, data : Data]
Slot == Node \cup {Empty}

\* The slots that hold an entry, and the entries.
Used(t) == {j \in 1..Len(t) : ~Free(t[j])}
Entries(t) == {t[j] : j \in Used(t)}

\* The p-th look of a search for hash h is the first at a slot that p could end at.
Reaches(t, h, p) == \A q \in 1..(p - 1) : ~Free(t[Probe(Len(t), h, q)])

\* A search for h that meets no equal key ends at the slot at.
FirstFree(t, h, at) ==
  \E p \in 1..Len(t) : at = Probe(Len(t), h, p) /\ Free(t[at]) /\ Reaches(t, h, p)

\* A table as hash_add leaves it: no key twice, and each entry on the way of
\* the searches for its hash, with no empty slot before it.
Placed(t) ==
  /\ t \in Seq(Slot) /\ Len(t) > 0 /\ PowerOf2(Len(t))
  /\ \A i, j \in Used(t) : t[i].key = t[j].key => i = j
  /\ \A j \in Used(t) : \E p \in 1..Len(t) :
        j = Probe(Len(t), t[j].hash, p) /\ Reaches(t, t[j].hash, p)

\* A node is not an empty slot.
LEMMA NodeFacts ==
  ASSUME NEW e \in Node
  PROVE  /\ ~Free(e) /\ e \in Slot /\ e.key \in Keys /\ e.data \in Data
         /\ e.hash \in [lo : Nat, hi : Nat]
<1>1. e.key \in Keys /\ e.hash \in Hash /\ e.data \in Data /\ e \in Slot
  BY DEF Node, Slot
<1>2. Empty.key = 0 /\ 0 \notin Keys
  BY DEF Empty, Keys
<1>3. e # Empty
  BY <1>1, <1>2
<1> QED BY <1>1, <1>3, HashTblAssumption DEF Free

\* What a table's slots hold.
LEMMA PlacedFacts ==
  ASSUME NEW t, Placed(t)
  PROVE  /\ t \in Seq(Slot) /\ Len(t) \in Nat /\ Len(t) > 0 /\ DOMAIN t = 1..Len(t)
         /\ \A j \in 1..Len(t) : t[j] \in Slot
         /\ \A j \in Used(t) : j \in 1..Len(t) /\ t[j] \in Node
         /\ Used(t) \subseteq 1..Len(t) /\ IsFiniteSet(Used(t))
         /\ Cardinality(Used(t)) \in Nat /\ Cardinality(Used(t)) <= Len(t)
<1>1. t \in Seq(Slot) /\ Len(t) > 0
  BY DEF Placed
<1>2. Len(t) \in Nat /\ DOMAIN t = 1..Len(t)
  BY <1>1, LenProperties
<1>3. \A j \in 1..Len(t) : t[j] \in Slot
  BY <1>1, ElementOfSeq
<1>4. \A j \in Used(t) : j \in 1..Len(t) /\ t[j] \in Node
  BY <1>3 DEF Used, Slot, Free
<1>5. Used(t) \subseteq 1..Len(t)
  BY DEF Used
<1>6. IsFiniteSet(1..Len(t)) /\ Cardinality(1..Len(t)) = Len(t)
  BY <1>1, <1>2, FS_Interval
<1>7. IsFiniteSet(Used(t)) /\ Cardinality(Used(t)) <= Len(t)
  BY <1>5, <1>6, FS_Subset
<1>8. Cardinality(Used(t)) \in Nat
  BY <1>7, FS_CardinalityType
<1> QED BY <1>1, <1>2, <1>3, <1>4, <1>5, <1>7, <1>8

\* A search ends at a slot of the table.
LEMMA FirstFreeInside ==
  ASSUME NEW t, Placed(t), NEW h \in [lo : Nat, hi : Nat], NEW at, FirstFree(t, h, at)
  PROVE  at \in 1..Len(t)
<1>1. Len(t) \in Nat /\ Len(t) > 0 /\ PowerOf2(Len(t))
  BY PlacedFacts DEF Placed
<1>2. \A i \in 1..Len(t) : Probe(Len(t), h, i) \in 1..Len(t)
  BY <1>1, ProbeInjective
<1> QED BY <1>2 DEF FirstFree

\* u is t with e stored at a slot.
Stored(u, t, at, e) ==
  /\ u \in Seq(Slot) /\ Len(u) = Len(t) /\ u[at] = e
  /\ \A j \in 1..Len(t) : j # at => u[j] = t[j]

\* An assignment to a slot.
LEMMA ExceptStores ==
  ASSUME NEW t \in Seq(Slot), NEW at \in 1..Len(t), NEW e \in Slot
  PROVE  Stored([t EXCEPT ![at] = e], t, at, e)
BY ExceptSeq DEF Stored

\* u is a table with the entries of t, and e.
Gains(u, t, e) ==
  /\ Placed(u) /\ Len(u) = Len(t) /\ Entries(u) = Entries(t) \cup {e}
  /\ Cardinality(Used(u)) = Cardinality(Used(t)) + 1

\* Storing an entry where its search ended leaves the others where theirs end.
LEMMA StoreKeepsPlaced ==
  ASSUME NEW t, Placed(t), NEW e \in Node, \A j \in Used(t) : t[j].key # e.key,
         NEW at, FirstFree(t, e.hash, at), NEW u, Stored(u, t, at, e)
  PROVE  Gains(u, t, e)
<1> DEFINE n == Len(t)
<1>1. /\ t \in Seq(Slot) /\ n \in Nat /\ n > 0 /\ DOMAIN t = 1..n /\ IsFiniteSet(Used(t))
      /\ \A j \in Used(t) : j \in 1..n /\ t[j] \in Node
  BY PlacedFacts
<1>2. PICK p \in 1..n : at = Probe(n, e.hash, p) /\ Free(t[at]) /\ Reaches(t, e.hash, p)
  BY DEF FirstFree
<1>3. ~Free(e) /\ e \in Slot /\ e.hash \in [lo : Nat, hi : Nat]
  BY NodeFacts
<1>4. PowerOf2(n)
  BY DEF Placed
<1>5. at \in 1..n
  BY <1>3, FirstFreeInside
<1>6. u \in Seq(Slot) /\ Len(u) = n /\ u[at] = e /\ \A j \in 1..n : j # at => u[j] = t[j]
  BY DEF Stored
<1>7. at \notin Used(t) /\ Used(u) = Used(t) \cup {at}
  BY <1>2, <1>3, <1>5, <1>6 DEF Used
<1>8. \A j \in 1..n : ~Free(t[j]) => ~Free(u[j])
  BY <1>3, <1>6
<1>9. ASSUME NEW h \in [lo : Nat, hi : Nat], NEW r \in 1..n, Reaches(t, h, r)
      PROVE  Reaches(u, h, r)
  <2> SUFFICES ASSUME NEW q \in 1..(r - 1) PROVE ~Free(u[Probe(n, h, q)])
    BY <1>6 DEF Reaches
  <2>1. q \in 1..n
    BY <1>1
  <2>2. Probe(n, h, q) \in 1..n
    BY <2>1, <1>1, <1>4, ProbeInjective
  <2>3. ~Free(t[Probe(n, h, q)])
    BY <1>9 DEF Reaches
  <2> QED BY <2>2, <2>3, <1>8
<1>10. \A i, j \in Used(u) : u[i].key = u[j].key => i = j
  <2>1. \A i, j \in Used(t) : t[i].key = t[j].key => i = j
    BY DEF Placed
  <2>2. \A i \in Used(t) : i # at /\ u[i] = t[i]
    BY <1>1, <1>6, <1>7
  <2> QED BY <2>1, <2>2, <1>6, <1>7
<1>11. ASSUME NEW j \in Used(u)
       PROVE  \E r \in 1..n : j = Probe(n, u[j].hash, r) /\ Reaches(u, u[j].hash, r)
  <2>1. CASE j = at
    BY <2>1, <1>2, <1>3, <1>6, <1>9
  <2>2. CASE j # at
    <3>1. j \in Used(t) /\ u[j] = t[j] /\ t[j] \in Node
      BY <2>2, <1>1, <1>6, <1>7
    <3>2. PICK r \in 1..n : j = Probe(n, t[j].hash, r) /\ Reaches(t, t[j].hash, r)
      BY <3>1 DEF Placed
    <3>3. t[j].hash \in [lo : Nat, hi : Nat]
      BY <3>1, NodeFacts
    <3> QED BY <3>1, <3>2, <3>3, <1>9
  <2> QED BY <2>1, <2>2
<1>12. Placed(u)
  BY <1>1, <1>4, <1>6, <1>10, <1>11 DEF Placed
<1>13. Entries(u) = Entries(t) \cup {e}
  <2>1. \A j \in Used(t) : u[j] = t[j]
    BY <1>1, <1>6, <1>7
  <2> QED BY <2>1, <1>6, <1>7 DEF Entries
<1>14. Cardinality(Used(u)) = Cardinality(Used(t)) + 1
  BY <1>1, <1>7, FS_AddElement
<1> QED BY <1>6, <1>12, <1>13, <1>14 DEF Gains

\* The number of slots.
LEMMA IntervalSize ==
  ASSUME NEW n \in Nat, n > 0
  PROVE  IsFiniteSet(1..n) /\ Cardinality(1..n) = n
BY FS_Interval

\* A table with an empty slot has one on every way, since a way visits all slots.
LEMMA SomeSlotFree ==
  ASSUME NEW t, Placed(t), Cardinality(Used(t)) < Len(t), NEW h \in [lo : Nat, hi : Nat]
  PROVE  \E p \in 1..Len(t) : Free(t[Probe(Len(t), h, p)]) /\ Reaches(t, h, p)
<1> DEFINE n == Len(t)
           T == {i \in 1..n : Free(t[Probe(n, h, i)])}
<1>1. /\ n \in Nat /\ n > 0 /\ Used(t) \subseteq 1..n /\ PowerOf2(n)
  BY PlacedFacts DEF Placed
<1>2. PICK j \in 1..n : j \notin Used(t)
  <2>0. n \in Nat /\ n > 0
    BY <1>1
  <2>1. IsFiniteSet(1..n) /\ Cardinality(1..n) = n
    BY <2>0, IntervalSize
  <2>2. Cardinality(Used(t)) # n
    BY <1>1, PlacedFacts
  <2>3. Used(t) # 1..n
    BY <2>1, <2>2
  <2> QED BY <2>3, <1>1
<1>3. Free(t[j])
  BY <1>2 DEF Used
<1>4. PICK i \in 1..n : Probe(n, h, i) = j
  BY <1>1, ProbeCovers
<1>5. i \in T
  BY <1>3, <1>4
<1>6. PICK p \in T : \A y \in T : p <= y
  <2>1. T \subseteq Nat /\ T # {}
    BY <1>5
  <2> HIDE DEF T
  <2> QED BY <2>1, LeastNat
<1>7. p \in 1..n /\ Free(t[Probe(n, h, p)])
  BY <1>6
<1>8. Reaches(t, h, p)
  <2> SUFFICES ASSUME NEW q \in 1..(p - 1) PROVE ~Free(t[Probe(n, h, q)])
    BY DEF Reaches
  <2>1. q \in 1..n /\ ~(p <= q)
    BY <1>1, <1>7
  <2>2. q \notin T
    BY <2>1, <1>6
  <2> QED BY <2>1, <2>2
<1> QED BY <1>7, <1>8

\* The slot that hash_add's loop over the old entries picks in the new table.
LEMMA FreeSlotIsFirst ==
  ASSUME NEW t, Placed(t), Cardinality(Used(t)) < Len(t), NEW h \in [lo : Nat, hi : Nat]
  PROVE  FirstFree(t, h, FreeSlot(t, h))
<1> DEFINE free(i) == Free(t[Probe(Len(t), h, i)])
           good(i) == free(i) /\ \A j \in 1..(i - 1) : ~free(j)
           p == CHOOSE i \in DOMAIN t : good(i)
<1>1. DOMAIN t = 1..Len(t)
  BY PlacedFacts
<1>2. \E i \in DOMAIN t : good(i)
  BY <1>1, SomeSlotFree DEF Reaches
<1>3. p \in DOMAIN t /\ good(p)
  <2> HIDE DEF good
  <2> QED BY <1>2, Zenon
<1>4. FreeSlot(t, h) = Probe(Len(t), h, p)
  BY Zenon DEF FreeSlot
<1> HIDE DEF p
<1> QED BY <1>1, <1>3, <1>4 DEF FirstFree, Reaches

\* An empty table of a power of 2 of slots.
LEMMA ClearedPlaced ==
  ASSUME NEW n \in Nat, n > 0, PowerOf2(n)
  PROVE  /\ Placed(Cleared(n)) /\ Len(Cleared(n)) = n
         /\ Used(Cleared(n)) = {} /\ Entries(Cleared(n)) = {} /\ Cardinality(Used(Cleared(n))) = 0
         /\ \A j \in 1..n : Free(Cleared(n)[j])
<1>1. Cleared(n) \in Seq(Slot) /\ Len(Cleared(n)) = n /\ \A j \in 1..n : Cleared(n)[j] = Empty
  BY DEF Cleared, Slot
<1>2. Used(Cleared(n)) = {}
  BY <1>1 DEF Used, Free
<1>3. Cardinality({}) = 0
  BY FS_EmptySet
<1> QED BY <1>1, <1>2, <1>3 DEF Placed, Entries, Free

\* The growth of a table moves every entry and loses none.
LEMMA RebalancedPlaces ==
  ASSUME NEW t, Placed(t)
  PROVE  /\ Placed(Rebalanced(t)) /\ Len(Rebalanced(t)) = 2 * Len(t)
         /\ Entries(Rebalanced(t)) = Entries(t)
         /\ Cardinality(Used(Rebalanced(t))) = Cardinality(Used(t))
<1> DEFINE N == Len(t)
           base == Cleared(hash_expand(N))
           Put(new, n) == IF Free(t[n]) THEN new ELSE [new EXCEPT ![FreeSlot(new, t[n].hash)] = t[n]]
           Is(f, m) == f = [n \in 0..m |-> IF n = 0 THEN base ELSE Put(f[n - 1], n)]
           f == CHOOSE f : Is(f, N)
           Moved(n) == {j \in Used(t) : j <= n}
           Ok(n) == /\ Placed(f[n]) /\ Len(f[n]) = 2 * N
                    /\ Entries(f[n]) = {t[j] : j \in Moved(n)}
                    /\ Cardinality(Used(f[n])) = Cardinality(Moved(n))
<1>1. /\ N \in Nat /\ N > 0 /\ PowerOf2(N) /\ Used(t) \subseteq 1..N /\ IsFiniteSet(Used(t))
      /\ Cardinality(Used(t)) \in Nat /\ Cardinality(Used(t)) <= N
      /\ \A j \in Used(t) : j \in 1..N /\ t[j] \in Node
  BY PlacedFacts DEF Placed
<1>2. Is(f, N)
  <2> HIDE DEF Put, base
  <2> DEFINE S == {m \in 0..N : \E g : Is(g, m)}
  <2>1. 0 \in S
    <3> DEFINE g == [n \in 0..0 |-> base]
    <3>1. Is(g, 0)
      OBVIOUS
    <3>2. 0 \in 0..N
      BY <1>1
    <3> HIDE DEF Is, g
    <3> QED BY <3>1, <3>2
  <2>2. ASSUME NEW m \in 0..(N - 1), m \in S PROVE m + 1 \in S
    <3>1. PICK g : Is(g, m)
      BY <2>2
    <3> DEFINE h == [n \in 0..(m + 1) |-> IF n <= m THEN g[n] ELSE Put(g[m], m + 1)]
    <3>2. m \in Nat /\ m + 1 \in 0..N
      BY <1>1
    <3>3. \A n \in 0..(m + 1) : h[n] = IF n = 0 THEN base ELSE Put(h[n - 1], n)
      <4> TAKE n \in 0..(m + 1)
      <4>1. CASE n = 0
        BY <4>1, <3>1, <3>2
      <4>2. CASE n # 0 /\ n <= m
        <5>1. n \in 0..m /\ n - 1 \in 0..m /\ n - 1 \in 0..(m + 1) /\ n - 1 <= m
          BY <4>2, <3>2
        <5>2. h[n] = g[n] /\ h[n - 1] = g[n - 1]
          BY <5>1
        <5>3. g[n] = Put(g[n - 1], n)
          BY <5>1, <4>2, <3>1
        <5> HIDE DEF h
        <5> QED BY <5>2, <5>3, <4>2
      <4>3. CASE n = m + 1
        <5>1. h[n] = Put(g[m], m + 1) /\ h[n - 1] = g[m] /\ n # 0
          BY <4>3, <3>2
        <5> HIDE DEF h
        <5> QED BY <5>1, <4>3
      <4> HIDE DEF h
      <4>4. n = 0 \/ (n # 0 /\ n <= m) \/ n = m + 1
        BY <3>2
      <4> QED BY <4>1, <4>2, <4>3, <4>4
    <3>4. h = [n \in 0..(m + 1) |-> h[n]]
      OBVIOUS
    <3> HIDE DEF h
    <3>5. h = [n \in 0..(m + 1) |-> IF n = 0 THEN base ELSE Put(h[n - 1], n)]
      BY <3>3, <3>4, Zenon
    <3> QED BY <3>2, <3>5
  <2>3. \A m \in 0..N : m \in S
    <3> HIDE DEF S
    <3> QED BY <1>1, <2>1, <2>2, IntervalInduction
  <2>4. \E g : Is(g, N)
    BY <2>3, <1>1
  <2> HIDE DEF Is
  <2> QED BY <2>4, Zenon
<1>3. Rebalanced(t) = f[N]
  BY Zenon DEF Rebalanced
<1> HIDE DEF f
<1>4. f[0] = base /\ \A n \in 1..N : f[n] = Put(f[n - 1], n)
  <2> HIDE DEF Put, base
  <2>1. \A n \in 1..N : n \in 0..N /\ n # 0
    BY <1>1
  <2>2. 0 \in 0..N
    BY <1>1
  <2> QED BY <2>1, <2>2, <1>2
<1>5. Ok(0)
  <2>1. hash_expand(N) = 2 * N /\ PowerOf2(2 * N) /\ 2 * N \in Nat /\ 2 * N > 0
    BY <1>1, PowerOf2Double DEF hash_expand
  <2>2. Moved(0) = {}
    BY <1>1
  <2>3. Cardinality({}) = 0
    BY FS_EmptySet
  <2>4. /\ Placed(Cleared(2 * N)) /\ Len(Cleared(2 * N)) = 2 * N
        /\ Entries(Cleared(2 * N)) = {} /\ Cardinality(Used(Cleared(2 * N))) = 0
    BY <2>1, ClearedPlaced
  <2> QED BY <2>1, <2>2, <2>3, <2>4, <1>4
<1>6. ASSUME NEW m \in 0..(N - 1), Ok(m) PROVE Ok(m + 1)
  <2> DEFINE n == m + 1
             u == f[m]
             e == t[n]
  <2>1. n \in 1..N /\ n - 1 = m /\ m \in Nat
    BY <1>1
  <2>2. f[n] = Put(u, n)
    BY <2>1, <1>4
  <2>3. CASE Free(e)
    <3>1. f[n] = u
      BY <2>2, <2>3
    <3>2. n \notin Used(t)
      BY <2>3 DEF Used
    <3>3. Moved(n) = Moved(m)
      <4>1. \A j \in Used(t) : j <= n => j <= m
        BY <3>2, <2>1, <1>1
      <4>2. \A j \in Used(t) : j <= m => j <= n
        BY <2>1, <1>1
      <4> QED BY <4>1, <4>2
    <3> HIDE DEF n, u, Moved
    <3> QED BY <3>1, <3>3, <1>6 DEF u, n
  <2>4. CASE ~Free(e)
    <3>1. n \in Used(t) /\ e \in Node
      BY <2>1, <2>4, <1>1 DEF Used
    <3>2. Moved(n) = Moved(m) \cup {n} /\ n \notin Moved(m)
      <4>1. \A j \in Used(t) : j <= n => j <= m \/ j = n
        BY <2>1, <1>1
      <4>2. \A j \in Used(t) : j <= m => j <= n
        BY <2>1, <1>1
      <4>3. n <= n /\ ~(n <= m)
        BY <2>1
      <4> HIDE DEF n
      <4> QED BY <4>1, <4>2, <4>3, <3>1
    <3>3. IsFiniteSet(Moved(m)) /\ Cardinality(Moved(m)) \in Nat /\ Cardinality(Moved(m)) <= N
      <4>1. Moved(m) \in SUBSET Used(t)
        OBVIOUS
      <4> HIDE DEF Moved
      <4>2. IsFiniteSet(Moved(m)) /\ Cardinality(Moved(m)) <= Cardinality(Used(t))
        BY <4>1, <1>1, FS_Subset
      <4>3. Cardinality(Moved(m)) \in Nat
        BY <4>2, FS_CardinalityType
      <4> QED BY <4>2, <4>3, <1>1
    <3>4. Cardinality(Used(u)) < Len(u) /\ Placed(u)
      <4>1. Cardinality(Used(u)) = Cardinality(Moved(m)) /\ Len(u) = 2 * N /\ Placed(u)
        BY <1>6
      <4> HIDE DEF Moved, u
      <4> QED BY <4>1, <3>3, <1>1
    <3>5. \A j \in Used(u) : u[j].key # e.key
      <4> TAKE j \in Used(u)
      <4>1. u[j] \in {t[i] : i \in Moved(m)}
        <5>1. u[j] \in Entries(u)
          BY DEF Entries
        <5> QED BY <5>1, <1>6
      <4>2. PICK i \in Used(t) : i <= m /\ u[j] = t[i]
        BY <4>1
      <4>3. i # n
        BY <4>2, <2>1, <1>1
      <4> HIDE DEF n
      <4>4. t[i].key # t[n].key
        BY <4>3, <3>1 DEF Placed
      <4> QED BY <4>2, <4>4
    <3> DEFINE at == FreeSlot(u, e.hash)
    <3>6. FirstFree(u, e.hash, at)
      <4>1. e.hash \in [lo : Nat, hi : Nat]
        BY <3>1, NodeFacts
      <4> HIDE DEF u, e
      <4> QED BY <4>1, <3>4, FreeSlotIsFirst
    <3>7. f[n] = [u EXCEPT ![at] = e]
      BY <2>2, <2>4
    <3> DEFINE v == f[n]
    <3> HIDE DEF u, e, at, v, n
    <3>8. Gains(v, u, e)
      <4>1. e \in Slot /\ e.hash \in [lo : Nat, hi : Nat] /\ u \in Seq(Slot)
        BY <3>1, <3>4, NodeFacts DEF Placed
      <4>2. at \in 1..Len(u)
        BY <4>1, <3>4, <3>6, FirstFreeInside
      <4>3. Stored([u EXCEPT ![at] = e], u, at, e)
        BY <4>1, <4>2, ExceptStores
      <4>4. Stored(v, u, at, e)
        BY <4>3, <3>7, Zenon DEF v
      <4> QED BY <4>4, <3>1, <3>4, <3>5, <3>6, StoreKeepsPlaced
    <3>9. Entries(v) = {t[j] : j \in Moved(n)}
      <4>1. Entries(u) = {t[j] : j \in Moved(m)}
        BY <1>6 DEF u
      <4> HIDE DEF Moved
      <4> QED BY <4>1, <3>2, <3>8 DEF e, Gains
    <3>10. Cardinality(Used(v)) = Cardinality(Moved(n))
      <4>1. Cardinality(Used(u)) = Cardinality(Moved(m))
        BY <1>6 DEF u
      <4> HIDE DEF Moved
      <4>2. Cardinality(Moved(n)) = Cardinality(Moved(m)) + 1
        BY <3>2, <3>3, FS_AddElement
      <4> QED BY <4>1, <4>2, <3>8 DEF Gains
    <3>11. Len(v) = 2 * N
      BY <3>8, <1>6 DEF u, Gains
    <3> QED BY <3>8, <3>9, <3>10, <3>11 DEF v, n, Gains
  <2> QED BY <2>3, <2>4
<1>7. Ok(N)
  <2> DEFINE S == {n \in 0..N : Ok(n)}
  <2>1. 0 \in S
    BY <1>1, <1>5
  <2>2. \A n \in 0..(N - 1) : n \in S => n + 1 \in S
    <3> TAKE n \in 0..(N - 1)
    <3>1. n + 1 \in 0..N
      BY <1>1
    <3> HIDE DEF Ok
    <3> QED BY <3>1, <1>6
  <2> HIDE DEF S
  <2>3. \A n \in 0..N : n \in S
    BY <1>1, <2>1, <2>2, IntervalInduction
  <2>4. N \in 0..N
    BY <1>1
  <2> HIDE DEF Ok
  <2> QED BY <2>3, <2>4 DEF S
<1>8. Moved(N) = Used(t)
  BY <1>1
<1> QED BY <1>3, <1>7, <1>8 DEF Entries

-----------------------------------------------------------------------------
(* The table of callers that look before they add.                         *)

\* The entries of a table that holds the keys and data of m.
Contents(h, m) == {[key |-> k, hash |-> h[k], data |-> m[k]] : k \in DOMAIN m}

\* The table t, of load l, holds what was added.
Holding(t, l, limit, h, m) ==
  \/ t = NULL /\ l = 0 /\ DOMAIN m = {}
  \/ /\ Placed(t) /\ Len(t) >= HASH_INIT_SIZE /\ limit = hash_max_load(Len(t))
     /\ l = Cardinality(Used(t)) /\ l <= limit /\ Entries(t) = Contents(h, m)

\* Between a search for w and the addition of w the record i is up to date.
Pending(w, i, t, h, m) ==
  w # 0 /\ w \notin DOMAIN m => /\ i.key = w /\ i.size = Len(t)
                                /\ t = NULL => i.where = 0
                                /\ t # NULL => FirstFree(t, h[w], i.where)

\* The walk has met the keys before its slot, each once.
Walking(n, t, s) ==
  /\ s \in Seq(Keys) /\ IsInjective(s)
  /\ n = 0 => s = << >>
  /\ n # 0 => /\ t # NULL /\ n \in 1..(Len(t) + 1)
              /\ ToSet(s) = {t[j].key : j \in {i \in Used(t) : i < n}}

\* The ranges, and that no search is pending during a walk.
Ranges ==
  /\ hash \in [Keys -> Hash] /\ wanted \in 0..NumKeys /\ known \in 0..NumKeys
  /\ adds \in 0..MaxAdds /\ (wanted # 0 => next = 0 /\ adds < MaxAdds)
  /\ DOMAIN map \subseteq Keys /\ \A k \in DOMAIN map : map[k] \in Data

IInv ==
  /\ Ranges
  /\ Holding(table, load, max_load, hash, map)
  /\ Pending(wanted, hi, table, hash, map)
  /\ Walking(next, table, seen)
  /\ ~wild

\* A search ends at the entry of its key, or at the first empty slot if there is none.
LEMMA SearchEnds ==
  ASSUME NEW t, Placed(t), Cardinality(Used(t)) < Len(t), hash \in [Keys -> Hash],
         NEW k \in Keys, \A j \in Used(t) : t[j].key = k => t[j].hash = hash[k]
  PROVE  \/ SlotOf(t, k) \in Used(t) /\ t[SlotOf(t, k)].key = k
         \/ (\A j \in Used(t) : t[j].key # k) /\ FirstFree(t, hash[k], SlotOf(t, k))
<1> DEFINE n == Len(t)
           h == hash[k]
           stop(i) == Free(t[Probe(n, h, i)])
                      \/ (t[Probe(n, h, i)].key = k /\ t[Probe(n, h, i)].hash = h)
           good(i) == stop(i) /\ \A j \in 1..(i - 1) : ~stop(j)
           p == CHOOSE i \in DOMAIN t : good(i)
           T == {i \in 1..n : stop(i)}
<1>1. h \in [lo : Nat, hi : Nat] /\ n \in Nat /\ n > 0 /\ PowerOf2(n) /\ DOMAIN t = 1..n
  BY PlacedFacts, HashTblAssumption DEF Placed
<1>2. \E i \in 1..n : stop(i)
  BY <1>1, SomeSlotFree
<1>3. \E i \in 1..n : good(i)
  <2>1. T \subseteq Nat /\ T # {}
    BY <1>2
  <2>2. PICK x \in T : \A y \in T : x <= y
    <3> HIDE DEF T
    <3> QED BY <2>1, LeastNat
  <2>3. x \in 1..n /\ stop(x)
    BY <2>2
  <2>4. ASSUME NEW j \in 1..(x - 1) PROVE ~stop(j)
    <3>1. j \in 1..n /\ ~(x <= j)
      BY <1>1, <2>3
    <3> HIDE DEF stop
    <3> QED BY <3>1, <2>2
  <2> HIDE DEF stop
  <2> QED BY <2>3, <2>4
<1>4. p \in 1..n /\ good(p)
  <2>1. \E i \in DOMAIN t : good(i)
    BY <1>1, <1>3
  <2>2. p \in DOMAIN t /\ good(p)
    <3> HIDE DEF good
    <3> QED BY <2>1, Zenon
  <2> QED BY <2>2, <1>1
<1>5. SlotOf(t, k) = Probe(n, h, p)
  <2>1. \E i \in DOMAIN t : stop(i)
    BY <1>1, <1>2
  <2> QED BY <2>1, Zenon DEF SlotOf
<1> HIDE DEF p
<1> DEFINE at == Probe(n, h, p)
<1>6. at \in 1..n
  BY <1>1, <1>4, ProbeInjective
<1>7. CASE Free(t[at])
  <2>1. Reaches(t, h, p)
    BY <1>4 DEF Reaches
  <2>2. ASSUME NEW j \in Used(t), t[j].key = k PROVE FALSE
    <3>1. t[j].hash = h /\ ~Free(t[j])
      BY <2>2 DEF Used
    <3>2. PICK r \in 1..n : j = Probe(n, h, r) /\ Reaches(t, h, r)
      BY <3>1 DEF Placed
    <3>3. stop(r)
      BY <2>2, <3>1, <3>2
    <3>4. ~(r \in 1..(p - 1))
      <4> HIDE DEF stop
      <4> QED BY <3>3, <1>4
    <3>5. ~(p \in 1..(r - 1))
      BY <3>2, <1>7 DEF Reaches
    <3>6. r = p
      BY <3>4, <3>5, <1>4, <1>1
    <3> QED BY <3>1, <3>2, <3>6, <1>7
  <2>3. FirstFree(t, h, at)
    BY <2>1, <1>4, <1>7 DEF FirstFree
  <2> HIDE DEF at, h
  <2> QED BY <2>2, <2>3, <1>5 DEF at, h
<1>8. CASE ~Free(t[at])
  <2>1. t[at].key = k
    BY <1>4, <1>8
  <2>2. at \in Used(t)
    BY <1>6, <1>8 DEF Used
  <2> QED BY <2>1, <2>2, <1>5
<1> QED BY <1>7, <1>8

\* The entries of a table, by their keys.
LEMMA ContentsFacts ==
  ASSUME NEW t, NEW h, NEW m, Entries(t) = Contents(h, m)
  PROVE  /\ \A j \in Used(t) : /\ t[j].key \in DOMAIN m /\ t[j].hash = h[t[j].key]
                                /\ t[j].data = m[t[j].key]
         /\ \A k \in DOMAIN m : \E j \in Used(t) : t[j].key = k
<1>1. ASSUME NEW j \in Used(t)
      PROVE  t[j].key \in DOMAIN m /\ t[j].hash = h[t[j].key] /\ t[j].data = m[t[j].key]
  <2>1. t[j] \in Contents(h, m)
    BY DEF Entries
  <2>2. PICK k \in DOMAIN m : t[j] = [key |-> k, hash |-> h[k], data |-> m[k]]
    BY <2>1 DEF Contents
  <2> QED BY <2>2
<1>2. ASSUME NEW k \in DOMAIN m
      PROVE  \E j \in Used(t) : t[j].key = k
  <2> DEFINE e == [key |-> k, hash |-> h[k], data |-> m[k]]
  <2>1. e \in Entries(t)
    BY DEF Contents
  <2>2. PICK j \in Used(t) : t[j] = e
    BY <2>1 DEF Entries
  <2> QED BY <2>2
<1> QED BY <1>1, <1>2

\* The load stays below the size.
LEMMA HalfFull ==
  ASSUME NEW n \in Nat, n >= 4
  PROVE  hash_max_load(n) \in Nat /\ hash_max_load(n) < n
BY DEF hash_max_load

\* The table finds the keys that were added, their data, and no other key.
LEMMA FindsContents ==
  ASSUME Ranges, Holding(table, load, max_load, hash, map), NEW k \in Keys
  PROVE  /\ k \in DOMAIN map => Holds(table, k) /\ table[SlotOf(table, k)].data = map[k]
         /\ k \notin DOMAIN map => ~Holds(table, k)
         /\ k \notin DOMAIN map /\ table # NULL => FirstFree(table, hash[k], SlotOf(table, k))
<1>1. CASE table = NULL /\ DOMAIN map = {}
  BY <1>1 DEF Holds
<1>2. CASE /\ Placed(table) /\ size >= HASH_INIT_SIZE /\ max_load = hash_max_load(size)
           /\ load = Cardinality(Used(table)) /\ load <= max_load
           /\ Entries(table) = Contents(hash, map)
  <2>1. size \in Nat /\ size >= 4 /\ load \in Nat /\ size > 0 /\ DOMAIN table = 1..size
    BY <1>2, PlacedFacts, HashTblAssumption DEF size
  <2>2. Cardinality(Used(table)) < size
    BY <1>2, <2>1, HalfFull
  <2>3. hash \in [Keys -> Hash]
    BY DEF Ranges
  <2>4. /\ \A j \in Used(table) : /\ table[j].key \in DOMAIN map
                                   /\ table[j].hash = hash[table[j].key]
                                   /\ table[j].data = map[table[j].key]
        /\ \A i \in DOMAIN map : \E j \in Used(table) : table[j].key = i
    BY <1>2, ContentsFacts
  <2>5. \/ SlotOf(table, k) \in Used(table) /\ table[SlotOf(table, k)].key = k
        \/ (\A j \in Used(table) : table[j].key # k) /\ FirstFree(table, hash[k], SlotOf(table, k))
    BY <1>2, <2>2, <2>3, <2>4, SearchEnds DEF size
  <2>6. table # NULL
    BY <2>1 DEF size, NULL
  <2>7. CASE SlotOf(table, k) \in Used(table) /\ table[SlotOf(table, k)].key = k
    <3>1. SlotOf(table, k) # 0 /\ ~Free(table[SlotOf(table, k)])
      BY <2>7, <2>1 DEF Used, size
    <3>2. k \in DOMAIN map /\ table[SlotOf(table, k)].data = map[k]
      BY <2>4, <2>7
    <3> QED BY <3>1, <3>2, <2>6 DEF Holds
  <2>8. CASE (\A j \in Used(table) : table[j].key # k) /\ FirstFree(table, hash[k], SlotOf(table, k))
    <3>1. k \notin DOMAIN map
      BY <2>4, <2>8
    <3>2. Free(table[SlotOf(table, k)])
      BY <2>8 DEF FirstFree
    <3> QED BY <3>1, <3>2, <2>8 DEF Holds
  <2> QED BY <2>5, <2>7, <2>8
<1> QED BY <1>1, <1>2 DEF Holding, size

\* m2 is m with the datum d for the key w.
Added(m2, m, w, d) ==
  DOMAIN m2 = DOMAIN m \cup {w} /\ m2[w] = d /\ \A k \in DOMAIN m : k # w => m2[k] = m[k]

\* What the history of hash_add becomes.
LEMMA OverrideAdds ==
  ASSUME NEW m, NEW w, NEW d
  PROVE  Added([k \in DOMAIN m \cup {w} |-> IF k = w THEN d ELSE m[k]], m, w, d)
BY DEF Added

\* The entries after an addition.
LEMMA ContentsAdded ==
  ASSUME NEW h, NEW m, NEW w, w \notin DOMAIN m, NEW d, NEW m2, Added(m2, m, w, d)
  PROVE  Contents(h, m2) = Contents(h, m) \cup {[key |-> w, hash |-> h[w], data |-> d]}
<1> DEFINE E(k, x) == [key |-> k, hash |-> h[k], data |-> x]
<1>1. DOMAIN m2 = DOMAIN m \cup {w} /\ m2[w] = d /\ \A k \in DOMAIN m : m2[k] = m[k]
  BY DEF Added
<1>2. Contents(h, m2) = {E(k, m2[k]) : k \in DOMAIN m2} /\ Contents(h, m) = {E(k, m[k]) : k \in DOMAIN m}
  BY DEF Contents
<1> HIDE DEF E
<1>3. Contents(h, m2) = Contents(h, m) \cup {E(w, d)}
  BY <1>1, <1>2
<1> QED BY <1>3 DEF E

\* A node that is added is a node.
LEMMA NewNode ==
  ASSUME NEW h \in [Keys -> Hash], NEW w \in Keys, NEW d \in Data
  PROVE  [key |-> w, hash |-> h[w], data |-> d] \in Node
BY DEF Node

\* hash_add into a table that there is: the entry is stored where its search ended,
\* and the table grows if it is more than half full.
LEMMA AddHolds ==
  ASSUME NEW t, NEW l, NEW limit, NEW h \in [Keys -> Hash], NEW m, Holding(t, l, limit, h, m),
         NEW w \in Keys, w \notin DOMAIN m, NEW d \in Data, NEW m2, Added(m2, m, w, d),
         t # NULL, NEW at, FirstFree(t, h[w], at),
         NEW u, Stored(u, t, at, [key |-> w, hash |-> h[w], data |-> d])
  PROVE  Holding(Grown(u, limit, l + 1).table, l + 1, Grown(u, limit, l + 1).max_load, h, m2)
<1> DEFINE e == [key |-> w, hash |-> h[w], data |-> d]
<1>1. /\ Placed(t) /\ Len(t) >= HASH_INIT_SIZE /\ limit = hash_max_load(Len(t))
      /\ l = Cardinality(Used(t)) /\ l <= limit /\ Entries(t) = Contents(h, m)
  BY DEF Holding
<1>2. e \in Node /\ e.key = w /\ e.hash = h[w]
  BY NewNode
<1>3. \A j \in Used(t) : t[j].key # w
  BY <1>1, ContentsFacts
<1>4. Stored(u, t, at, e)
  OBVIOUS
<1>5. Contents(h, m2) = Contents(h, m) \cup {e}
  BY ContentsAdded
<1> HIDE DEF e
<1>6. Gains(u, t, e)
  <2>1. FirstFree(t, e.hash, at) /\ \A j \in Used(t) : t[j].key # e.key
    BY <1>2, <1>3
  <2> QED BY <2>1, <1>1, <1>2, <1>4, StoreKeepsPlaced
<1>7. /\ Placed(u) /\ Len(u) = Len(t) /\ Entries(u) = Contents(h, m2)
      /\ Cardinality(Used(u)) = l + 1
  BY <1>1, <1>5, <1>6 DEF Gains
<1>8. l \in Nat /\ Len(t) \in Nat /\ Len(t) >= 4 /\ limit \in Nat
  BY <1>1, PlacedFacts, HalfFull, HashTblAssumption
<1>9. CASE l + 1 > limit
  <2>1. /\ Grown(u, limit, l + 1).table = Rebalanced(u)
        /\ Grown(u, limit, l + 1).max_load = hash_max_load(2 * Len(u))
    BY <1>9 DEF Grown, hash_expand
  <2>2. /\ Placed(Rebalanced(u)) /\ Len(Rebalanced(u)) = 2 * Len(u)
        /\ Entries(Rebalanced(u)) = Entries(u) /\ Cardinality(Used(Rebalanced(u))) = l + 1
    BY <1>7, RebalancedPlaces
  <2>3. 2 * Len(u) >= HASH_INIT_SIZE /\ l + 1 <= hash_max_load(2 * Len(u))
    BY <1>1, <1>7, <1>8, HashTblAssumption DEF hash_max_load
  <2> QED BY <2>1, <2>2, <2>3, <1>7 DEF Holding
<1>10. CASE ~(l + 1 > limit)
  <2>1. Grown(u, limit, l + 1).table = u /\ Grown(u, limit, l + 1).max_load = limit
    BY <1>10 DEF Grown
  <2>2. l + 1 <= limit
    BY <1>8, <1>10
  <2> QED BY <2>1, <2>2, <1>1, <1>7 DEF Holding
<1> QED BY <1>9, <1>10

\* hash_add of the first entry, which makes the table.
LEMMA FirstAddHolds ==
  ASSUME NEW h \in [Keys -> Hash], NEW m, DOMAIN m = {},
         NEW w \in Keys, NEW d \in Data, NEW m2, Added(m2, m, w, d),
         NEW u, Stored(u, Cleared(HASH_INIT_SIZE), Probe(HASH_INIT_SIZE, h[w], 1),
                       [key |-> w, hash |-> h[w], data |-> d]),
         NEW limit, limit = hash_max_load(HASH_INIT_SIZE)
  PROVE  Holding(Grown(u, limit, 1).table, 1, Grown(u, limit, 1).max_load, h, m2)
<1> DEFINE t == Cleared(HASH_INIT_SIZE)
           N == HASH_INIT_SIZE
           at == Probe(N, h[w], 1)
           e == [key |-> w, hash |-> h[w], data |-> d]
<1>1. N \in Nat /\ N >= 4 /\ N > 0 /\ PowerOf2(N)
  BY HashTblAssumption
<1>2. /\ Placed(t) /\ Len(t) = N /\ Used(t) = {} /\ Entries(t) = {} /\ Cardinality(Used(t)) = 0
      /\ \A j \in 1..N : Free(t[j])
  BY <1>1, ClearedPlaced
<1>3. e \in Node /\ e.key = w /\ e.hash = h[w] /\ e.hash \in [lo : Nat, hi : Nat]
  BY NewNode, NodeFacts
<1>4. Stored(u, t, at, e)
  OBVIOUS
<1>5. Contents(h, m2) = {e}
  <2>1. DOMAIN m2 = {w} /\ m2[w] = d
    BY DEF Added
  <2> QED BY <2>1 DEF Contents
<1>6. FirstFree(t, e.hash, at)
  <2>1. 1 \in 1..N
    BY <1>1
  <2>2. at \in 1..N
    BY <1>1, <1>3, <2>1, ProbeInjective
  <2>3. Reaches(t, e.hash, 1)
    BY DEF Reaches
  <2>4. at = Probe(Len(t), e.hash, 1) /\ Free(t[at]) /\ 1 \in 1..Len(t)
    BY <1>2, <1>3, <2>1, <2>2
  <2> HIDE DEF t, at, e
  <2> QED BY <2>3, <2>4 DEF FirstFree
<1> HIDE DEF t, at, e
<1>7. Gains(u, t, e)
  BY <1>2, <1>3, <1>4, <1>6, StoreKeepsPlaced
<1>8. Placed(u) /\ Len(u) = N /\ Entries(u) = Contents(h, m2) /\ Cardinality(Used(u)) = 1
  BY <1>2, <1>5, <1>7 DEF Gains
<1>9. limit \in Nat /\ limit >= 1
  BY <1>1 DEF hash_max_load
<1>10. Grown(u, limit, 1).table = u /\ Grown(u, limit, 1).max_load = limit
  BY <1>9 DEF Grown
<1> QED BY <1>1, <1>8, <1>9, <1>10 DEF Holding

-----------------------------------------------------------------------------
(* The walk.                                                               *)

\* The next slot that the walk stops at.
LEMMA MinLeast ==
  ASSUME NEW S, S \subseteq Nat, S # {}
  PROVE  Min(S) \in S /\ \A y \in S : Min(S) <= y
<1>1. \E x \in S : \A y \in S : x <= y
  BY LeastNat
<1> QED BY <1>1, Zenon DEF Min

\* The walk goes on to the next slot in use, whose key it has not met.
LEMMA WalkOn ==
  ASSUME NEW t, Placed(t), NEW n, n # 0, NEW s, Walking(n, t, s),
         NEW j \in Used(t), n <= j, \A i \in Used(t) : n <= i => j <= i
  PROVE  Walking(j + 1, t, Append(s, t[j].key))
<1> DEFINE s2 == Append(s, t[j].key)
           L == Len(s)
<1>1. /\ s \in Seq(Keys) /\ IsInjective(s) /\ t # NULL /\ n \in 1..(Len(t) + 1)
      /\ ToSet(s) = {t[i].key : i \in {i \in Used(t) : i < n}}
  BY DEF Walking
<1>2. /\ Len(t) \in Nat /\ j \in 1..Len(t) /\ t[j] \in Node
      /\ Used(t) \subseteq 1..Len(t)
  BY PlacedFacts
<1>3. t[j].key \in Keys
  BY <1>2, NodeFacts
<1>4. /\ s2 \in Seq(Keys) /\ Len(s2) = L + 1 /\ s2[L + 1] = t[j].key
      /\ \A i \in 1..L : s2[i] = s[i]
  BY <1>1, <1>3, AppendProperties
<1>5. L \in Nat /\ DOMAIN s = 1..L /\ DOMAIN s2 = 1..(L + 1)
  BY <1>1, <1>4, LenProperties
<1> HIDE DEF s2, L
<1>6. ToSet(s2) = ToSet(s) \cup {t[j].key}
  <2>1. 1..(L + 1) = 1..L \cup {L + 1}
    BY <1>5
  <2> QED BY <2>1, <1>4, <1>5 DEF ToSet
<1>7. {i \in Used(t) : i < j + 1} = {i \in Used(t) : i < n} \cup {j}
  <2>1. \A i \in Used(t) : i < j + 1 <=> i < n \/ i = j
    BY <1>1, <1>2
  <2> QED BY <2>1
<1>8. ToSet(s2) = {t[i].key : i \in {i \in Used(t) : i < j + 1}}
  <2> DEFINE S == {i \in Used(t) : i < n}
             S2 == {i \in Used(t) : i < j + 1}
  <2>1. S2 = S \cup {j} /\ ToSet(s) = {t[i].key : i \in S}
    BY <1>1, <1>7
  <2>2. ToSet(s2) = {t[i].key : i \in S2}
    <3> HIDE DEF S, S2
    <3> QED BY <2>1, <1>6
  <2> QED BY <2>2
<1>9. t[j].key \notin ToSet(s)
  <2>1. \A i \in Used(t) : t[i].key = t[j].key => i = j
    BY DEF Placed
  <2>2. ~(j < n)
    BY <1>1, <1>2
  <2> QED BY <2>1, <2>2, <1>1
<1>10. IsInjective(s2)
  <2>1. \A i \in 1..L : s[i] # t[j].key
    BY <1>5, <1>9 DEF ToSet
  <2>2. \A i, k \in 1..L : s[i] = s[k] => i = k
    BY <1>1, <1>5 DEF IsInjective
  <2>3. \A i \in 1..(L + 1) : i \in 1..L \/ i = L + 1
    BY <1>5
  <2> QED BY <2>1, <2>2, <2>3, <1>4, <1>5 DEF IsInjective
<1>11. j + 1 # 0 /\ j + 1 \in 1..(Len(t) + 1)
  BY <1>2
<1> QED BY <1>1, <1>4, <1>8, <1>10, <1>11 DEF Walking, s2

\* The walk that starts has met no key.
LEMMA WalkStarts ==
  ASSUME NEW t, Placed(t), NEW s, Walking(0, t, s)
  PROVE  Walking(1, t, s)
<1>1. s = << >> /\ s \in Seq(Keys) /\ IsInjective(s)
  BY DEF Walking
<1>2. ToSet(s) = {}
  BY <1>1 DEF ToSet
<1>3. t # NULL /\ Len(t) \in Nat /\ Len(t) > 0 /\ Used(t) \subseteq 1..Len(t)
  BY PlacedFacts DEF NULL
<1>4. {i \in Used(t) : i < 1} = {}
  BY <1>3
<1>5. 1 \in 1..(Len(t) + 1)
  BY <1>3
<1> QED BY <1>1, <1>2, <1>3, <1>4, <1>5 DEF Walking

-----------------------------------------------------------------------------
(* The invariant.                                                          *)

\* It holds before the first call.
LEMMA InitIInv == Init => IInv
<1> SUFFICES ASSUME Init PROVE IInv
  OBVIOUS
<1>1. Ranges
  BY HashTblAssumption DEF Init, Ranges
<1>2. DOMAIN map = {}
  BY DEF Init
<1>3. seen \in Seq(Keys) /\ IsInjective(seen)
  BY DEF Init, IsInjective
<1> QED BY <1>1, <1>2, <1>3 DEF Init, IInv, Holding, Pending, Walking

\* hash_add after a search that has failed keeps the table sound.
LEMMA AddIInv ==
  ASSUME ~AddsUnchecked, IInv, hash_add
  PROVE  IInv'
<1> DEFINE fresh == hi.where = 0
           node  == [key |-> wanted, hash |-> hash[hi.key], data |-> adds + 1]
           base  == IF fresh THEN Cleared(HASH_INIT_SIZE) ELSE table
           at    == IF fresh THEN Probe(HASH_INIT_SIZE, node.hash, 1) ELSE hi.where
           stale == ~fresh /\ hi.size # size
           u     == IF stale THEN base ELSE [base EXCEPT ![at] = node]
           limit == IF fresh THEN hash_max_load(HASH_INIT_SIZE) ELSE max_load
           l     == IF fresh THEN 1 ELSE load + 1
<1>1. /\ table' = Grown(u, limit, l).table /\ max_load' = Grown(u, limit, l).max_load
      /\ load' = l /\ wild' = (wild \/ stale)
  BY Zenon DEF hash_add
<1>2. /\ map' = [k \in DOMAIN map \cup {wanted} |-> IF k = wanted THEN adds + 1 ELSE map[k]]
      /\ adds' = adds + 1 /\ wanted' = 0
      /\ UNCHANGED <<hash, hi, next, seen, frees, known>>
      /\ wanted # 0 /\ ~Holds(table, wanted)
  BY DEF hash_add
<1>3. /\ hash \in [Keys -> Hash] /\ wanted \in Keys /\ adds \in 0..MaxAdds /\ adds < MaxAdds
      /\ next = 0 /\ adds + 1 \in Data /\ adds + 1 \in 0..MaxAdds /\ known \in 0..NumKeys
      /\ DOMAIN map \subseteq Keys /\ \A k \in DOMAIN map : map[k] \in Data
  BY <1>2, HashTblAssumption DEF IInv, Ranges, Keys, Data
<1>4. wanted \notin DOMAIN map
  BY <1>2, <1>3, FindsContents DEF IInv
<1>5. /\ hi.key = wanted /\ hi.size = size
      /\ table = NULL => hi.where = 0
      /\ table # NULL => FirstFree(table, hash[wanted], hi.where)
  BY <1>2, <1>4 DEF IInv, Pending, size
<1>6. Added(map', map, wanted, adds + 1)
  BY <1>2, OverrideAdds
<1>7. Holding(table, load, max_load, hash, map)
  BY DEF IInv
<1>8. node = [key |-> wanted, hash |-> hash[wanted], data |-> adds + 1] /\ node.hash = hash[wanted]
  BY <1>5
<1>9. node \in Slot /\ hash[wanted] \in [lo : Nat, hi : Nat]
  <2>1. [key |-> wanted, hash |-> hash[wanted], data |-> adds + 1] \in Node
    BY <1>3, NewNode
  <2>2. node \in Node
    BY <2>1, <1>8
  <2> HIDE DEF node
  <2> QED BY <2>2, <1>3, NodeFacts, HashTblAssumption
<1>10. ~stale
  BY <1>5
<1>11. u = [base EXCEPT ![at] = node]
  <2> HIDE DEF base, at, node, stale
  <2> QED BY <1>10
<1> HIDE DEF u, node, stale
<1>12. Holding(table', load', max_load', hash, map')
  <2>1. CASE table = NULL
    <3>1. /\ base = Cleared(HASH_INIT_SIZE) /\ at = Probe(HASH_INIT_SIZE, hash[wanted], 1)
          /\ limit = hash_max_load(HASH_INIT_SIZE) /\ l = 1
      BY <2>1, <1>5, <1>8
    <3> HIDE DEF base, at, limit, l
    <3>2. Placed(base) /\ Len(base) = HASH_INIT_SIZE
      BY <3>1, ClearedPlaced, HashTblAssumption
    <3>3. at \in 1..Len(base)
      BY <3>1, <3>2, <1>9, ProbeInjective, HashTblAssumption
    <3>4. Stored([base EXCEPT ![at] = node], base, at, node)
      BY <3>2, <3>3, <1>9, ExceptStores DEF Placed
    <3>5. Stored(u, Cleared(HASH_INIT_SIZE), Probe(HASH_INIT_SIZE, hash[wanted], 1),
                 [key |-> wanted, hash |-> hash[wanted], data |-> adds + 1])
      BY <3>1, <3>4, <1>8, <1>11, Zenon
    <3>6. DOMAIN map = {}
      BY <2>1, <1>7, PlacedFacts DEF Holding, NULL
    <3>7. Holding(Grown(u, limit, 1).table, 1, Grown(u, limit, 1).max_load, hash, map')
      BY <3>1, <3>5, <3>6, <1>3, <1>6, FirstAddHolds
    <3> QED BY <3>1, <3>7, <1>1
  <2>2. CASE table # NULL
    <3>1. Placed(table)
      BY <2>2, <1>7 DEF Holding
    <3>2. FirstFree(table, hash[wanted], hi.where)
      BY <2>2, <1>5
    <3>3. hi.where \in 1..Len(table)
      BY <3>1, <3>2, <1>9, FirstFreeInside
    <3>4. hi.where # 0
      BY <3>1, <3>3, PlacedFacts
    <3>5. base = table /\ at = hi.where /\ limit = max_load /\ l = load + 1
      BY <3>4
    <3> HIDE DEF base, at, limit, l
    <3>6. Stored([table EXCEPT ![hi.where] = node], table, hi.where, node)
      BY <3>1, <3>3, <1>9, ExceptStores DEF Placed
    <3>7. Stored(u, table, hi.where, [key |-> wanted, hash |-> hash[wanted], data |-> adds + 1])
      BY <3>5, <3>6, <1>8, <1>11, Zenon
    <3>8. Holding(Grown(u, max_load, load + 1).table, load + 1,
                  Grown(u, max_load, load + 1).max_load, hash, map')
      BY <2>2, <3>2, <3>7, <1>3, <1>4, <1>6, <1>7, AddHolds
    <3> QED BY <3>5, <3>8, <1>1
  <2> QED BY <2>1, <2>2
<1>13. Ranges'
  <2>1. DOMAIN map' = DOMAIN map \cup {wanted} /\ \A k \in DOMAIN map' : map'[k] \in Data
    BY <1>3, <1>6 DEF Added
  <2>2. wanted' \in 0..NumKeys
    BY <1>2, HashTblAssumption
  <2> QED BY <2>1, <2>2, <1>2, <1>3 DEF Ranges
<1>14. Walking(next', table', seen')
  BY <1>2, <1>3 DEF IInv, Walking
<1>15. ~wild'
  BY <1>1, <1>10 DEF IInv
<1>16. Pending(wanted', hi', table', hash', map')
  BY <1>2 DEF Pending
<1> QED BY <1>2, <1>12, <1>13, <1>14, <1>15, <1>16 DEF IInv

\* Every operation keeps the table sound.
LEMMA NextIInv ==
  ASSUME ~AddsUnchecked, IInv, [Next]_vars
  PROVE  IInv'
<1>0. /\ Ranges /\ Holding(table, load, max_load, hash, map) /\ Pending(wanted, hi, table, hash, map)
      /\ Walking(next, table, seen) /\ ~wild
  BY DEF IInv
<1>1. CASE hash_find
  <2>1. /\ next = 0 /\ adds < MaxAdds
        /\ UNCHANGED <<hash, table, load, max_load, next, seen, adds, frees, map, wild>>
    BY <1>1 DEF hash_find
  <2>2. PICK k \in Keys :
          /\ known' = IF k > known THEN k ELSE known
          /\ wanted' = k
          /\ hi' = IF Holds(table, k) THEN hi
                   ELSE [key |-> k, where |-> IF table = NULL THEN 0 ELSE SlotOf(table, k), size |-> size]
    BY <1>1 DEF hash_find
  <2>3. Ranges'
    BY <2>1, <2>2, <1>0, HashTblAssumption DEF Ranges, Keys
  <2>4. Pending(k, hi', table, hash, map)
    <3> SUFFICES ASSUME k \notin DOMAIN map
                 PROVE  /\ hi'.key = k /\ hi'.size = Len(table)
                        /\ table = NULL => hi'.where = 0
                        /\ table # NULL => FirstFree(table, hash[k], hi'.where)
      BY DEF Pending
    <3>1. ~Holds(table, k) /\ (table # NULL => FirstFree(table, hash[k], SlotOf(table, k)))
      BY <1>0, FindsContents
    <3>2. hi' = [key |-> k, where |-> IF table = NULL THEN 0 ELSE SlotOf(table, k), size |-> size]
      BY <3>1, <2>2
    <3> QED BY <3>1, <3>2 DEF size
  <2> QED BY <2>1, <2>2, <2>3, <2>4, <1>0 DEF IInv
<1>2. CASE Keep
  <2>1. wanted' = 0 /\ UNCHANGED <<hash, table, load, max_load, hi, next, seen, adds, frees, known, map, wild>>
    BY <1>2 DEF Keep
  <2>2. Ranges'
    BY <2>1, <1>0, HashTblAssumption DEF Ranges
  <2>3. Pending(wanted', hi', table', hash', map')
    BY <2>1 DEF Pending
  <2> QED BY <2>1, <2>2, <2>3, <1>0 DEF IInv
<1>3. CASE hash_add
  BY <1>3, AddIInv
<1>4. CASE hash_iterator_init
  <2>1. /\ next = 0 /\ wanted = 0 /\ table # NULL /\ next' = 1
        /\ UNCHANGED <<hash, table, load, max_load, hi, wanted, seen, adds, frees, known, map, wild>>
    BY <1>4 DEF hash_iterator_init
  <2>2. Placed(table)
    BY <2>1, <1>0 DEF Holding
  <2>3. Walking(1, table, seen)
    BY <2>1, <2>2, <1>0, WalkStarts
  <2>4. Ranges'
    BY <2>1, <1>0 DEF Ranges
  <2> QED BY <2>1, <2>3, <2>4, <1>0 DEF IInv
<1>5. CASE hash_iterate
  <2> DEFINE j == Min(Left)
  <2>1. /\ next # 0 /\ Left # {} /\ next' = j + 1 /\ seen' = Append(seen, table[j].key)
        /\ UNCHANGED <<hash, table, load, max_load, hi, wanted, adds, frees, known, map, wild>>
    BY <1>5 DEF hash_iterate
  <2>2. table # NULL /\ next \in 1..(Len(table) + 1) /\ wanted = 0
    BY <2>1, <1>0 DEF Walking, Ranges
  <2>3. Placed(table)
    BY <2>2, <1>0 DEF Holding
  <2>4. Len(table) \in Nat
    BY <2>3, PlacedFacts
  <2>5. \A i : i \in Left <=> i \in Used(table) /\ next <= i
    BY <2>2, <2>4 DEF Left, Used, size
  <2>6. Left \subseteq Nat
    BY <2>2, <2>4 DEF Left, size
  <2>7. j \in Left /\ \A y \in Left : j <= y
    BY <2>1, <2>6, MinLeast
  <2> HIDE DEF j
  <2>8. j \in Used(table) /\ next <= j /\ \A i \in Used(table) : next <= i => j <= i
    BY <2>5, <2>7
  <2>9. Walking(j + 1, table, Append(seen, table[j].key))
    BY <2>1, <2>3, <2>8, <1>0, WalkOn
  <2>10. Ranges'
    BY <2>1, <2>2, <1>0 DEF Ranges
  <2> QED BY <2>1, <2>9, <2>10, <1>0 DEF IInv
<1>6. CASE hash_free
  <2>1. /\ next # 0 /\ table' = NULL /\ load' = 0 /\ next' = 0 /\ seen' = << >> /\ map' = << >>
        /\ UNCHANGED <<hash, hi, wanted, adds, known, wild>>
    BY <1>6 DEF hash_free
  <2>2. wanted = 0
    BY <2>1, <1>0 DEF Ranges
  <2>3. DOMAIN map' = {}
    BY <2>1
  <2>4. Ranges'
    BY <2>1, <2>2, <2>3, <1>0 DEF Ranges
  <2>5. seen' \in Seq(Keys) /\ IsInjective(seen')
    BY <2>1 DEF IsInjective
  <2>6. Walking(next', table', seen')
    BY <2>1, <2>5 DEF Walking
  <2> QED BY <2>1, <2>2, <2>3, <2>4, <2>6, <1>0 DEF IInv, Holding, Pending
<1>7. CASE UNCHANGED vars
  <2>1. Ranges'
    BY <1>7, <1>0 DEF vars, Ranges
  <2> QED BY <1>7, <2>1, <1>0 DEF vars, IInv
<1> QED BY <1>1, <1>2, <1>3, <1>4, <1>5, <1>6, <1>7 DEF Next

\* The invariant holds in all states.
LEMMA AlwaysIInv ==
  ASSUME ~AddsUnchecked
  PROVE  Spec => []IInv
BY InitIInv, NextIInv, PTL DEF Spec

-----------------------------------------------------------------------------
(* The theorems, for callers that call hash_add only after a hash_find     *)
(* that has failed.                                                        *)

\* The table is fit to be searched, whatever the hashes are: it has a power of 2 of
\* slots, hash_add's count is the number of entries, and every search that hash_findb
\* makes meets an empty slot.
THEOREM TableStaysSound ==
  ASSUME ~AddsUnchecked
  PROVE  Spec => []TableSound
<1>1. ASSUME IInv PROVE TableSound
  <2>1. /\ hash \in [Keys -> Hash] /\ wanted \in 0..NumKeys /\ known \in 0..NumKeys
        /\ Holding(table, load, max_load, hash, map)
    BY <1>1 DEF IInv, Ranges
  <2>2. CASE table = NULL /\ load = 0
    <3>1. DOMAIN table = {} /\ {j \in DOMAIN table : ~Free(table[j])} = {}
      BY <2>2 DEF NULL
    <3>2. Cardinality({}) = 0
      BY FS_EmptySet
    <3> QED BY <2>1, <2>2, <3>1, <3>2 DEF TableSound, TypeOK, LoadIsExact, SearchesEnd
  <2>3. CASE /\ Placed(table) /\ Len(table) >= HASH_INIT_SIZE /\ max_load = hash_max_load(Len(table))
             /\ load = Cardinality(Used(table)) /\ load <= max_load
    <3>1. Len(table) \in Nat /\ Len(table) >= 4 /\ DOMAIN table = 1..Len(table) /\ load \in Nat
      BY <2>3, PlacedFacts, HashTblAssumption
    <3>2. PowerOf2(Len(table))
      BY <2>3 DEF Placed
    <3>3. Used(table) = {j \in DOMAIN table : ~Free(table[j])}
      BY <3>1 DEF Used
    <3>4. LoadIsExact
      BY <2>3, <3>3 DEF LoadIsExact
    <3>5. \A j \in DOMAIN table : Free(table[j]) \/ (table[j].key \in Keys /\ table[j].data \in Data)
      <4> TAKE j \in DOMAIN table
      <4> SUFFICES ASSUME ~Free(table[j]) PROVE table[j].key \in Keys /\ table[j].data \in Data
        OBVIOUS
      <4>1. j \in Used(table)
        BY <3>3
      <4>2. table[j] \in Node
        BY <4>1, <2>3, PlacedFacts
      <4> QED BY <4>2, NodeFacts
    <3>6. TypeOK
      BY <2>1, <2>3, <3>2, <3>5 DEF TypeOK, size
    <3>7. SearchesEnd
      <4> SUFFICES ASSUME NEW h \in Hash
                   PROVE  \E i \in DOMAIN table : Free(table[Probe(Len(table), h, i)])
        BY DEF SearchesEnd, size
      <4>1. h \in [lo : Nat, hi : Nat]
        BY HashTblAssumption
      <4>2. Cardinality(Used(table)) < Len(table)
        BY <2>3, <3>1, HalfFull
      <4> QED BY <4>1, <4>2, <2>3, <3>1, SomeSlotFree
    <3> QED BY <3>4, <3>6, <3>7 DEF TableSound
  <2> QED BY <2>1, <2>2, <2>3 DEF Holding
<1>2. Spec => []IInv
  BY AlwaysIInv
<1> QED BY <1>1, <1>2, PTL

\* Nothing is stored through a record that a growth made invalid, and the walk that
\* frees the keys and the data meets each key exactly once.
THEOREM MemoryStaysSafe ==
  ASSUME ~AddsUnchecked
  PROVE  Spec => []MemorySafe
<1>1. ASSUME IInv PROVE MemorySafe
  <2>1. /\ Holding(table, load, max_load, hash, map) /\ Walking(next, table, seen) /\ ~wild
    BY <1>1 DEF IInv
  <2>2. ASSUME next # 0, Left = {} PROVE ToSet(seen) = DOMAIN map
    <3>1. /\ table # NULL /\ next \in 1..(Len(table) + 1)
          /\ ToSet(seen) = {table[j].key : j \in {i \in Used(table) : i < next}}
      BY <2>1, <2>2 DEF Walking
    <3>2. Placed(table) /\ Entries(table) = Contents(hash, map)
      BY <2>1, <3>1 DEF Holding
    <3>3. Len(table) \in Nat /\ Used(table) \subseteq 1..Len(table)
      BY <3>2, PlacedFacts
    <3>4. {i \in Used(table) : i < next} = Used(table)
      BY <2>2, <3>1, <3>3 DEF Left, Used, size
    <3>5. /\ \A j \in Used(table) : table[j].key \in DOMAIN map
          /\ \A k \in DOMAIN map : \E j \in Used(table) : table[j].key = k
      BY <3>2, ContentsFacts
    <3>6. ToSet(seen) = {table[j].key : j \in Used(table)}
      BY <3>1, <3>4
    <3> QED BY <3>5, <3>6
  <2>3. IsInjective(seen)
    BY <2>1 DEF Walking
  <2> QED BY <2>1, <2>2, <2>3 DEF MemorySafe, NoWildStore, FreedOnce
<1>2. Spec => []IInv
  BY AlwaysIInv
<1> QED BY <1>1, <1>2, PTL

\* hash_find finds each key that hash_add was called with, with its data, and no
\* other key, through all collisions and growths.
THEOREM AlwaysFinds ==
  ASSUME ~AddsUnchecked
  PROVE  Spec => []FindsWhatWasAdded
<1>1. IInv => FindsWhatWasAdded
  BY FindsContents DEF IInv, FindsWhatWasAdded
<1>2. Spec => []IInv
  BY AlwaysIInv
<1> QED BY <1>1, <1>2, PTL
=============================================================================

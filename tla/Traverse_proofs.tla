--------------------------- MODULE Traverse_proofs ---------------------------
(***************************************************************************)
(* The traversal of test knowledge counts through all combinations of the  *)
(* constants, each once and in order, and drawing follows the weights: for *)
(* all groups, lists of groups, numbers of operands and of their elements. *)
(***************************************************************************)
EXTENDS Traverse, Lemmas, FiniteSetTheorems

-----------------------------------------------------------------------------
(* Sums and products.                                                      *)

\* The first n elements are naturals; two lists have the same first n elements.
Nats(f, n) == \A k \in 1..n : f[k] \in Nat
Agree(f, h, n) == \A k \in 1..n : f[k] = h[k]

\* What adds up the numbers one by one.
IsSum(s, f, n) == s = [k \in 0..n |-> IF k = 0 THEN 0 ELSE s[k - 1] + f[k]]

\* There is such a function, of naturals.
LEMMA SumExists ==
  ASSUME NEW K \in Nat, NEW f, Nats(f, K)
  PROVE  \A n \in 0..K : \E s \in [0..n -> Nat] : IsSum(s, f, n)
<1> DEFINE T == {n \in 0..K : \E s \in [0..n -> Nat] : IsSum(s, f, n)}
<1>1. 0 \in T
  <2> DEFINE s == [k \in 0..0 |-> 0]
  <2>1. s \in [0..0 -> Nat] /\ s = [k \in 0..0 |-> IF k = 0 THEN 0 ELSE s[k - 1] + f[k]]
    OBVIOUS
  <2> HIDE DEF s
  <2>2. IsSum(s, f, 0)
    BY <2>1 DEF IsSum
  <2> QED BY <2>1, <2>2
<1>2. ASSUME NEW n \in 0..(K - 1), n \in T PROVE n + 1 \in T
  <2>1. PICK s \in [0..n -> Nat] : IsSum(s, f, n)
    BY <1>2
  <2> DEFINE r == [k \in 0..(n + 1) |-> IF k <= n THEN s[k] ELSE s[n] + f[n + 1]]
  <2>2. s[n] \in Nat /\ f[n + 1] \in Nat /\ s[0] = 0 /\ \A k \in 1..n : s[k] = s[k - 1] + f[k]
    BY <2>1 DEF IsSum, Nats
  <2>3. s[n] + f[n + 1] \in Nat
    BY <2>2
  <2>4. r \in [0..(n + 1) -> Nat]
    BY <2>3
  <2>5. \A k \in 0..(n + 1) : r[k] = IF k = 0 THEN 0 ELSE r[k - 1] + f[k]
    <3> SUFFICES ASSUME NEW k \in 0..(n + 1)
                 PROVE  r[k] = IF k = 0 THEN 0 ELSE r[k - 1] + f[k]
      OBVIOUS
    <3>1. CASE k = 0
      BY <2>2, <3>1
    <3>2. CASE k \in 1..n
      BY <2>2, <3>2
    <3>3. CASE k = n + 1
      BY <3>3
    <3> QED BY <3>1, <3>2, <3>3
  <2>6. IsSum(r, f, n + 1)
    <3> HIDE DEF r
    <3> QED BY <2>4, <2>5 DEF IsSum
  <2> HIDE DEF r
  <2> QED BY <2>4, <2>6
<1> HIDE DEF T
<1>3. \A n \in 0..K : n \in T
  BY <1>1, <1>2, IntervalInduction
<1> QED BY <1>3 DEF T

\* There is only one.
LEMMA SumUnique ==
  ASSUME NEW n \in Nat, NEW m \in 0..n, NEW f, NEW h, Agree(f, h, m),
         NEW s, NEW r, IsSum(s, f, n), IsSum(r, h, m)
  PROVE  \A k \in 0..m : s[k] = r[k]
<1> DEFINE T == {k \in 0..m : s[k] = r[k]}
<1>1. \A k \in 0..n : s[k] = IF k = 0 THEN 0 ELSE s[k - 1] + f[k]
  <2>1. s = [k \in 0..n |-> IF k = 0 THEN 0 ELSE s[k - 1] + f[k]]
    BY DEF IsSum
  <2> QED BY <2>1, Zenon
<1>2. \A k \in 0..m : r[k] = IF k = 0 THEN 0 ELSE r[k - 1] + h[k]
  <2>1. r = [k \in 0..m |-> IF k = 0 THEN 0 ELSE r[k - 1] + h[k]]
    BY DEF IsSum
  <2> QED BY <2>1, Zenon
<1>3. 0 \in T
  BY <1>1, <1>2
<1>4. ASSUME NEW k \in 0..(m - 1), k \in T PROVE k + 1 \in T
  <2>1. k + 1 \in 0..n /\ k + 1 \in 1..m /\ k + 1 # 0 /\ (k + 1) - 1 = k
    OBVIOUS
  <2>2. s[k + 1] = s[k] + f[k + 1]
    BY <1>1, <2>1
  <2>3. r[k + 1] = r[k] + h[k + 1]
    BY <1>2, <2>1
  <2>4. f[k + 1] = h[k + 1]
    BY <2>1 DEF Agree
  <2> QED BY <1>4, <2>1, <2>2, <2>3, <2>4
<1> HIDE DEF T
<1>5. \A k \in 0..m : k \in T
  BY <1>3, <1>4, IntervalInduction
<1> QED BY <1>5 DEF T

\* The operator is the last value of that function.
LEMMA SumIs ==
  ASSUME NEW n \in Nat, NEW f, Nats(f, n)
  PROVE  \E s \in [0..n -> Nat] : IsSum(s, f, n) /\ SumTo(f, n) = s[n]
<1> DEFINE g == CHOOSE s : s = [k \in 0..n |-> IF k = 0 THEN 0 ELSE s[k - 1] + f[k]]
<1>1. PICK r \in [0..n -> Nat] : IsSum(r, f, n)
  <2>1. \A m \in 0..n : \E s \in [0..m -> Nat] : IsSum(s, f, m)
    BY SumExists
  <2> QED BY <2>1
<1>2. g = [k \in 0..n |-> IF k = 0 THEN 0 ELSE g[k - 1] + f[k]]
  <2>1. \E s : s = [k \in 0..n |-> IF k = 0 THEN 0 ELSE s[k - 1] + f[k]]
    BY <1>1 DEF IsSum
  <2> QED BY <2>1, Zenon
<1>3. SumTo(f, n) = g[n]
  BY DEF SumTo
<1> HIDE DEF g
<1>4. IsSum(g, f, n)
  BY <1>2 DEF IsSum
<1>5. \A k \in 0..n : g[k] = r[k]
  <2>1. Agree(f, f, n) /\ n \in 0..n
    BY DEF Agree
  <2> QED BY <1>1, <1>4, <2>1, SumUnique
<1>6. SumTo(f, n) = r[n]
  BY <1>3, <1>5
<1> QED BY <1>1, <1>6

\* What the operator computes.
LEMMA SumSteps ==
  ASSUME NEW n \in Nat, NEW f, Nats(f, n)
  PROVE  /\ SumTo(f, 0) = 0
         /\ \A k \in 0..n : SumTo(f, k) \in Nat
         /\ \A k \in 1..n : SumTo(f, k) = SumTo(f, k - 1) + f[k]
<1>1. PICK s \in [0..n -> Nat] : IsSum(s, f, n)
  BY SumIs
<1>2. \A k \in 0..n : SumTo(f, k) = s[k]
  <2> SUFFICES ASSUME NEW k \in 0..n PROVE SumTo(f, k) = s[k]
    OBVIOUS
  <2>1. Nats(f, k) /\ k \in Nat /\ Agree(f, f, k)
    BY DEF Nats, Agree
  <2>2. PICK r \in [0..k -> Nat] : IsSum(r, f, k) /\ SumTo(f, k) = r[k]
    BY <2>1, SumIs
  <2>3. \A j \in 0..k : s[j] = r[j]
    BY <1>1, <2>1, <2>2, SumUnique
  <2> QED BY <2>2, <2>3
<1>3. s[0] = 0 /\ \A k \in 1..n : s[k] = s[k - 1] + f[k]
  BY <1>1 DEF IsSum
<1> QED BY <1>2, <1>3

\* Only the numbers that are added matter.
LEMMA SumSame ==
  ASSUME NEW n \in Nat, NEW f, NEW h, Nats(f, n), Agree(f, h, n)
  PROVE  SumTo(f, n) = SumTo(h, n)
<1>1. PICK s \in [0..n -> Nat] : IsSum(s, f, n) /\ SumTo(f, n) = s[n]
  BY SumIs
<1>2. PICK r \in [0..n -> Nat] : IsSum(r, h, n) /\ SumTo(h, n) = r[n]
  <2>1. Nats(h, n)
    BY DEF Nats, Agree
  <2> QED BY <2>1, SumIs
<1>3. \A k \in 0..n : s[k] = r[k]
  BY <1>1, <1>2, SumUnique
<1> QED BY <1>1, <1>2, <1>3

\* What multiplies the numbers one by one.
IsProduct(s, f, n) == s = [k \in 0..n |-> IF k = 0 THEN 1 ELSE s[k - 1] * f[k]]

\* Products have such a function too, of naturals.
LEMMA ProductExists ==
  ASSUME NEW K \in Nat, NEW f, Nats(f, K)
  PROVE  \A n \in 0..K : \E s \in [0..n -> Nat] : IsProduct(s, f, n)
<1> DEFINE T == {n \in 0..K : \E s \in [0..n -> Nat] : IsProduct(s, f, n)}
<1>1. 0 \in T
  <2> DEFINE s == [k \in 0..0 |-> 1]
  <2>1. s \in [0..0 -> Nat] /\ s = [k \in 0..0 |-> IF k = 0 THEN 1 ELSE s[k - 1] * f[k]]
    OBVIOUS
  <2> HIDE DEF s
  <2>2. IsProduct(s, f, 0)
    BY <2>1 DEF IsProduct
  <2> QED BY <2>1, <2>2
<1>2. ASSUME NEW n \in 0..(K - 1), n \in T PROVE n + 1 \in T
  <2>1. PICK s \in [0..n -> Nat] : IsProduct(s, f, n)
    BY <1>2
  <2> DEFINE r == [k \in 0..(n + 1) |-> IF k <= n THEN s[k] ELSE s[n] * f[n + 1]]
  <2>2. s[n] \in Nat /\ f[n + 1] \in Nat /\ s[0] = 1 /\ \A k \in 1..n : s[k] = s[k - 1] * f[k]
    BY <2>1 DEF IsProduct, Nats
  <2>3. s[n] * f[n + 1] \in Nat
    BY <2>2
  <2>4. r \in [0..(n + 1) -> Nat]
    BY <2>3
  <2>5. \A k \in 0..(n + 1) : r[k] = IF k = 0 THEN 1 ELSE r[k - 1] * f[k]
    <3> SUFFICES ASSUME NEW k \in 0..(n + 1)
                 PROVE  r[k] = IF k = 0 THEN 1 ELSE r[k - 1] * f[k]
      OBVIOUS
    <3>1. CASE k = 0
      BY <2>2, <3>1
    <3>2. CASE k \in 1..n
      BY <2>2, <3>2
    <3>3. CASE k = n + 1
      BY <3>3
    <3> QED BY <3>1, <3>2, <3>3
  <2>6. IsProduct(r, f, n + 1)
    <3> HIDE DEF r
    <3> QED BY <2>4, <2>5 DEF IsProduct
  <2> HIDE DEF r
  <2> QED BY <2>4, <2>6
<1> HIDE DEF T
<1>3. \A n \in 0..K : n \in T
  BY <1>1, <1>2, IntervalInduction
<1> QED BY <1>3 DEF T

\* There is only one for products.
LEMMA ProductUnique ==
  ASSUME NEW n \in Nat, NEW m \in 0..n, NEW f, NEW h, Agree(f, h, m),
         NEW s, NEW r, IsProduct(s, f, n), IsProduct(r, h, m)
  PROVE  \A k \in 0..m : s[k] = r[k]
<1> DEFINE T == {k \in 0..m : s[k] = r[k]}
<1>1. \A k \in 0..n : s[k] = IF k = 0 THEN 1 ELSE s[k - 1] * f[k]
  <2>1. s = [k \in 0..n |-> IF k = 0 THEN 1 ELSE s[k - 1] * f[k]]
    BY DEF IsProduct
  <2> QED BY <2>1, Zenon
<1>2. \A k \in 0..m : r[k] = IF k = 0 THEN 1 ELSE r[k - 1] * h[k]
  <2>1. r = [k \in 0..m |-> IF k = 0 THEN 1 ELSE r[k - 1] * h[k]]
    BY DEF IsProduct
  <2> QED BY <2>1, Zenon
<1>3. 0 \in T
  BY <1>1, <1>2
<1>4. ASSUME NEW k \in 0..(m - 1), k \in T PROVE k + 1 \in T
  <2>1. k + 1 \in 0..n /\ k + 1 \in 1..m /\ k + 1 # 0 /\ (k + 1) - 1 = k
    OBVIOUS
  <2>2. s[k + 1] = s[k] * f[k + 1]
    BY <1>1, <2>1
  <2>3. r[k + 1] = r[k] * h[k + 1]
    BY <1>2, <2>1
  <2>4. f[k + 1] = h[k + 1]
    BY <2>1 DEF Agree
  <2> QED BY <1>4, <2>1, <2>2, <2>3, <2>4
<1> HIDE DEF T
<1>5. \A k \in 0..m : k \in T
  BY <1>3, <1>4, IntervalInduction
<1> QED BY <1>5 DEF T

\* ProductTo is the last value of that function.
LEMMA ProductIs ==
  ASSUME NEW n \in Nat, NEW f, Nats(f, n)
  PROVE  \E s \in [0..n -> Nat] : IsProduct(s, f, n) /\ ProductTo(f, n) = s[n]
<1> DEFINE g == CHOOSE s : s = [k \in 0..n |-> IF k = 0 THEN 1 ELSE s[k - 1] * f[k]]
<1>1. PICK r \in [0..n -> Nat] : IsProduct(r, f, n)
  <2>1. \A m \in 0..n : \E s \in [0..m -> Nat] : IsProduct(s, f, m)
    BY ProductExists
  <2> QED BY <2>1
<1>2. g = [k \in 0..n |-> IF k = 0 THEN 1 ELSE g[k - 1] * f[k]]
  <2>1. \E s : s = [k \in 0..n |-> IF k = 0 THEN 1 ELSE s[k - 1] * f[k]]
    BY <1>1 DEF IsProduct
  <2> QED BY <2>1, Zenon
<1>3. ProductTo(f, n) = g[n]
  BY DEF ProductTo
<1> HIDE DEF g
<1>4. IsProduct(g, f, n)
  BY <1>2 DEF IsProduct
<1>5. \A k \in 0..n : g[k] = r[k]
  <2>1. Agree(f, f, n) /\ n \in 0..n
    BY DEF Agree
  <2> QED BY <1>1, <1>4, <2>1, ProductUnique
<1>6. ProductTo(f, n) = r[n]
  BY <1>3, <1>5
<1> QED BY <1>1, <1>6

\* What ProductTo computes.
LEMMA ProductSteps ==
  ASSUME NEW n \in Nat, NEW f, Nats(f, n)
  PROVE  /\ ProductTo(f, 0) = 1
         /\ \A k \in 0..n : ProductTo(f, k) \in Nat
         /\ \A k \in 1..n : ProductTo(f, k) = ProductTo(f, k - 1) * f[k]
<1>1. PICK s \in [0..n -> Nat] : IsProduct(s, f, n)
  BY ProductIs
<1>2. \A k \in 0..n : ProductTo(f, k) = s[k]
  <2> SUFFICES ASSUME NEW k \in 0..n PROVE ProductTo(f, k) = s[k]
    OBVIOUS
  <2>1. Nats(f, k) /\ k \in Nat /\ Agree(f, f, k)
    BY DEF Nats, Agree
  <2>2. PICK r \in [0..k -> Nat] : IsProduct(r, f, k) /\ ProductTo(f, k) = r[k]
    BY <2>1, ProductIs
  <2>3. \A j \in 0..k : s[j] = r[j]
    BY <1>1, <2>1, <2>2, ProductUnique
  <2> QED BY <2>2, <2>3
<1>3. s[0] = 1 /\ \A k \in 1..n : s[k] = s[k - 1] * f[k]
  BY <1>1 DEF IsProduct
<1> QED BY <1>2, <1>3

\* Only the numbers that are multiplied matter.
LEMMA ProductSame ==
  ASSUME NEW n \in Nat, NEW f, NEW h, Nats(f, n), Agree(f, h, n)
  PROVE  ProductTo(f, n) = ProductTo(h, n)
<1>1. PICK s \in [0..n -> Nat] : IsProduct(s, f, n) /\ ProductTo(f, n) = s[n]
  BY ProductIs
<1>2. PICK r \in [0..n -> Nat] : IsProduct(r, h, n) /\ ProductTo(h, n) = r[n]
  <2>1. Nats(h, n)
    BY DEF Nats, Agree
  <2> QED BY <2>1, ProductIs
<1>3. \A k \in 0..n : s[k] = r[k]
  BY <1>1, <1>2, ProductUnique
<1> QED BY <1>1, <1>2, <1>3

\* Sums of naturals grow with the number of elements.
LEMMA SumGrows ==
  ASSUME NEW n \in Nat, NEW f, Nats(f, n)
  PROVE  \A k \in 0..n : SumTo(f, k) <= SumTo(f, n)
<1> DEFINE T == {m \in 0..n : \A k \in 0..m : SumTo(f, k) <= SumTo(f, m)}
<1>1. /\ \A k \in 0..n : SumTo(f, k) \in Nat
      /\ \A k \in 1..n : SumTo(f, k) = SumTo(f, k - 1) + f[k] /\ f[k] \in Nat
  BY SumSteps DEF Nats
<1>2. 0 \in T
  BY <1>1
<1>3. ASSUME NEW m \in 0..(n - 1), m \in T PROVE m + 1 \in T
  <2>1. m + 1 \in 1..n /\ (m + 1) - 1 = m
    OBVIOUS
  <2>2. SumTo(f, m) <= SumTo(f, m + 1) /\ SumTo(f, m) \in Nat /\ SumTo(f, m + 1) \in Nat
    BY <1>1, <2>1
  <2>3. \A k \in 0..(m + 1) : SumTo(f, k) <= SumTo(f, m + 1)
    <3> SUFFICES ASSUME NEW k \in 0..(m + 1) PROVE SumTo(f, k) <= SumTo(f, m + 1)
      OBVIOUS
    <3>1. CASE k = m + 1
      BY <2>2, <3>1
    <3>2. CASE k \in 0..m
      <4>1. SumTo(f, k) <= SumTo(f, m) /\ SumTo(f, k) \in Nat
        BY <1>1, <1>3, <3>2
      <4> QED BY <2>2, <4>1
    <3> QED BY <3>1, <3>2
  <2> QED BY <2>1, <2>3
<1> HIDE DEF T
<1>4. \A m \in 0..n : m \in T
  BY <1>2, <1>3, IntervalInduction
<1>5. n \in T
  BY <1>4
<1> QED BY <1>5 DEF T

\* Multiplication is associative.
LEMMA Associative ==
  ASSUME NEW a \in Nat, NEW b \in Nat, NEW c \in Nat
  PROVE  (a * b) * c = a * (b * c) /\ a * b \in Nat /\ b * c \in Nat
OBVIOUS

\* A product without its first factor.
LEMMA ProductShift ==
  ASSUME NEW n \in Nat, NEW f, NEW g, Nats(f, n + 1), \A k \in 1..n : g[k] = f[k + 1]
  PROVE  ProductTo(f, n + 1) = f[1] * ProductTo(g, n)
<1> DEFINE P(k) == ProductTo(f, k)
           Q(k) == ProductTo(g, k)
           T == {k \in 0..n : P(k + 1) = f[1] * Q(k)}
<1>1. Nats(g, n)
  BY DEF Nats
<1>2. /\ P(0) = 1 /\ \A k \in 0..(n + 1) : P(k) \in Nat
      /\ \A k \in 1..(n + 1) : P(k) = P(k - 1) * f[k]
  BY ProductSteps
<1>3. /\ Q(0) = 1 /\ \A k \in 0..n : Q(k) \in Nat
      /\ \A k \in 1..n : Q(k) = Q(k - 1) * g[k]
  BY <1>1, ProductSteps
<1> HIDE DEF P, Q
<1>4. 0 \in T
  <2>1. P(1) = P(0) * f[1] /\ f[1] \in Nat
    <3>1. 1 \in 1..(n + 1) /\ 1 - 1 = 0
      OBVIOUS
    <3> QED BY <1>2, <3>1 DEF Nats
  <2>2. P(1) = f[1] /\ f[1] * Q(0) = f[1]
    BY <1>2, <1>3, <2>1
  <2>3. 0 + 1 = 1 /\ 0 \in 0..n
    OBVIOUS
  <2> QED BY <2>2, <2>3
<1>5. ASSUME NEW k \in 0..(n - 1), k \in T PROVE k + 1 \in T
  <2>1. /\ k + 2 \in 1..(n + 1) /\ (k + 2) - 1 = k + 1 /\ k + 1 \in 1..n /\ (k + 1) - 1 = k
        /\ (k + 1) + 1 = k + 2 /\ 1 \in 1..(n + 1) /\ k \in 0..n
    OBVIOUS
  <2>2. P(k + 2) = P(k + 1) * f[k + 2]
    BY <1>2, <2>1
  <2>3. Q(k + 1) = Q(k) * g[k + 1] /\ g[k + 1] = f[k + 2]
    BY <1>3, <2>1
  <2>4. f[1] \in Nat /\ Q(k) \in Nat /\ f[k + 2] \in Nat
    BY <1>3, <2>1 DEF Nats
  <2>5. P(k + 1) = f[1] * Q(k)
    BY <1>5
  <2>6. P(k + 2) = f[1] * Q(k + 1)
    BY <2>2, <2>3, <2>4, <2>5, Associative
  <2> QED BY <2>1, <2>6
<1> HIDE DEF T
<1>6. \A k \in 0..n : k \in T
  BY <1>4, <1>5, IntervalInduction
<1>7. n \in T
  BY <1>6
<1> QED BY <1>7 DEF T, P, Q

-----------------------------------------------------------------------------
(* The trees.                                                              *)

\* Trees of operands; a tree is one of them.
Roots == {parseOpndTK(nodes) : nodes \in {l \in NodeList : Distinct(l)}}
Trees == [packedn : Nat \ {0}, wd_node : Roots]
IsTree(tree) ==
  /\ tree.packedn \in Nat \ {0}
  /\ \E nodes \in NodeList : tree.wd_node = parseOpndTK(nodes) /\ Distinct(nodes)

\* What its root is.
IsRoot(n) ==
  /\ n.isleaf = FALSE /\ n.size \in Nat
  /\ \A s \in 1..n.size : n.sub[s].isleaf = TRUE /\ n.sub[s].size \in Nat

\* The root of a tree has leaves below it.
LEMMA RootOf ==
  ASSUME NEW tree, IsTree(tree)
  PROVE  IsRoot(tree.wd_node)
<1>1. PICK nodes \in NodeList : tree.wd_node = parseOpndTK(nodes)
  BY DEF IsTree
<1>2. /\ Len(nodes) \in Nat /\ DOMAIN nodes = 1..Len(nodes)
      /\ \A s \in 1..Len(nodes) : nodes[s].name \in DOMAIN Groups
  <2>1. nodes \in Seq([name : DOMAIN Groups, weight : Nat])
    BY DEF NodeList
  <2>2. Len(nodes) \in Nat /\ DOMAIN nodes = 1..Len(nodes)
    BY <2>1, LenProperties
  <2>3. \A s \in 1..Len(nodes) : nodes[s] \in [name : DOMAIN Groups, weight : Nat]
    BY <2>1, ElementOfSeq
  <2> QED BY <2>2, <2>3
<1>3. \A g \in DOMAIN Groups : Leaf(g).isleaf = TRUE /\ Leaf(g).size \in Nat
  BY TraverseAssumption DEF Leaf
<1> QED BY <1>1, <1>2, <1>3 DEF IsRoot, parseOpndTK

\* The constants before a subtree.
LEMMA LeavesOf ==
  ASSUME NEW n, IsRoot(n)
  PROVE  /\ LeavesBefore(n, 1) = 0 /\ leaf_num(n) \in Nat
         /\ \A s \in 1..(n.size + 1) : LeavesBefore(n, s) \in Nat /\ LeavesBefore(n, s) <= leaf_num(n)
         /\ \A s \in 1..n.size : LeavesBefore(n, s + 1) = LeavesBefore(n, s) + n.sub[s].size
<1> DEFINE f == [i \in 1..n.size |-> n.sub[i].size]
           m == n.size
<1>1. m \in Nat /\ Nats(f, m) /\ \A s \in 1..m : f[s] = n.sub[s].size
  BY DEF IsRoot, Nats
<1>2. \A s : LeavesBefore(n, s) = SumTo(f, s - 1)
  BY DEF LeavesBefore
<1> HIDE DEF f, m
<1>3. /\ SumTo(f, 0) = 0 /\ \A k \in 0..m : SumTo(f, k) \in Nat /\ SumTo(f, k) <= SumTo(f, m)
      /\ \A k \in 1..m : SumTo(f, k) = SumTo(f, k - 1) + f[k]
  BY <1>1, SumSteps, SumGrows
<1>4. leaf_num(n) = SumTo(f, m)
  <2>1. leaf_num(n) = SumTo(f, (m + 1) - 1) /\ (m + 1) - 1 = m
    BY <1>1, <1>2 DEF leaf_num, m
  <2> QED BY <2>1
<1>5. \A s \in 1..(m + 1) : s - 1 \in 0..m
  BY <1>1
<1>6. \A s \in 1..m : (s + 1) - 1 = s
  OBVIOUS
<1>7. LeavesBefore(n, 1) = 0
  <2>1. 1 - 1 = 0
    OBVIOUS
  <2> QED BY <1>2, <1>3, <2>1
<1>8. m \in 0..m
  BY <1>1
<1>9. \A s \in 1..(m + 1) : LeavesBefore(n, s) \in Nat /\ LeavesBefore(n, s) <= leaf_num(n)
  BY <1>2, <1>3, <1>4, <1>5
<1>10. \A s \in 1..m : LeavesBefore(n, s + 1) = LeavesBefore(n, s) + n.sub[s].size
  BY <1>1, <1>2, <1>3, <1>6
<1> QED BY <1>3, <1>4, <1>7, <1>8, <1>9, <1>10 DEF m

\* A leaf is a group.
LEMMA LeafOf ==
  ASSUME NEW g
  PROVE  /\ Leaf(g).isleaf = TRUE /\ Leaf(g).size = Groups[g]
         /\ Leaf(g).sub = [k \in 1..Groups[g] |-> <<g, k>>]
BY DEF Leaf

\* The subtrees of a root are the groups of its list.
LEMMA SubOf ==
  ASSUME NEW nodes \in NodeList
  PROVE  /\ Len(nodes) \in Nat /\ DOMAIN nodes = 1..Len(nodes)
         /\ \A j \in 1..Len(nodes) : nodes[j].name \in DOMAIN Groups /\ nodes[j].weight \in Nat
         /\ parseOpndTK(nodes).isleaf = FALSE /\ parseOpndTK(nodes).size = Len(nodes)
         /\ DOMAIN parseOpndTK(nodes).sub = 1..Len(nodes)
         /\ \A j \in 1..Len(nodes) : parseOpndTK(nodes).sub[j] = Leaf(nodes[j].name)
         /\ DOMAIN parseOpndTK(nodes).weights = 1..Len(nodes)
         /\ \A j \in 1..Len(nodes) : parseOpndTK(nodes).weights[j] = nodes[j].weight
<1>1. nodes \in Seq([name : DOMAIN Groups, weight : Nat])
  BY DEF NodeList
<1>2. Len(nodes) \in Nat /\ DOMAIN nodes = 1..Len(nodes)
  BY <1>1, LenProperties
<1>3. \A j \in 1..Len(nodes) : nodes[j] \in [name : DOMAIN Groups, weight : Nat]
  BY <1>1, ElementOfSeq
<1> QED BY <1>2, <1>3 DEF parseOpndTK

\* A constant has the number of its place.
LEMMA NumberOf ==
  ASSUME NEW tree, IsTree(tree), NEW s \in 1..tree.wd_node.size, NEW i \in 1..tree.wd_node.sub[s].size
  PROVE  Number(tree, tree.wd_node.sub[s].sub[i]) = LeavesBefore(tree.wd_node, s) + i - 1
<1>1. PICK nodes \in NodeList : tree.wd_node = parseOpndTK(nodes) /\ Distinct(nodes)
  BY DEF IsTree
<1> DEFINE before == tree.wd_node.sub
           name(j) == nodes[j].name
           c == before[s].sub[i]
           K == Len(nodes)
<1>2. K \in Nat /\ DOMAIN nodes = 1..K
  BY SubOf
<1>3. /\ tree.wd_node.size = K /\ DOMAIN before = 1..K
      /\ \A j \in 1..K : before[j] = Leaf(name(j))
  BY <1>1, SubOf
<1>4. \A j \in 1..K : before[j].size = Groups[name(j)] /\ before[j].sub = [k \in 1..Groups[name(j)] |-> <<name(j), k>>]
  BY <1>3, LeafOf
<1>5. \A j, k \in 1..K : name(j) = name(k) => j = k
  BY <1>1, <1>2 DEF Distinct
<1>6. s \in 1..K /\ i \in 1..Groups[name(s)]
  <2>1. s \in 1..K
    BY <1>3
  <2>2. before[s].size = Groups[name(s)]
    BY <1>4, <2>1
  <2> QED BY <2>1, <2>2
<1> HIDE DEF K, name
<1>7. c = <<name(s), i>>
  <2>1. before[s].sub = [k \in 1..Groups[name(s)] |-> <<name(s), k>>]
    BY <1>4, <1>6
  <2> QED BY <1>6, <2>1
<1> HIDE DEF before, c
<1>8. \A j \in 1..K : c \in ToSet(before[j].sub) <=> j = s
  <2> SUFFICES ASSUME NEW j \in 1..K PROVE c \in ToSet(before[j].sub) <=> j = s
    OBVIOUS
  <2>1. before[j].sub = [k \in 1..Groups[name(j)] |-> <<name(j), k>>]
    BY <1>4
  <2>2. ToSet(before[j].sub) = {<<name(j), k>> : k \in 1..Groups[name(j)]}
    BY <2>1 DEF ToSet
  <2>3. ASSUME c \in ToSet(before[j].sub) PROVE j = s
    <3>1. name(j) = name(s)
      BY <1>7, <2>2, <2>3
    <3> QED BY <1>5, <1>6, <3>1
  <2>4. ASSUME j = s PROVE c \in ToSet(before[j].sub)
    BY <1>6, <1>7, <2>2, <2>4
  <2> QED BY <2>3, <2>4
<1>9. (CHOOSE j \in DOMAIN before : c \in ToSet(before[j].sub)) = s
  BY <1>3, <1>6, <1>8
<1>10. Number(tree, c) = LeavesBefore(tree.wd_node, s) + c[2] - 1
  BY <1>9 DEF Number, before
<1>11. c[2] = i
  BY <1>7
<1> QED BY <1>10, <1>11 DEF before, c

-----------------------------------------------------------------------------
(* Counting combinations.                                                  *)

\* The trees of an instruction.
AreTrees(trees) == trees \in Seq(Trees)

\* Each of them has a root with leaves.
LEMMA TreeAt ==
  ASSUME NEW trees, AreTrees(trees)
  PROVE  /\ Len(trees) \in Nat /\ DOMAIN trees = 1..Len(trees)
         /\ \A t \in 1..Len(trees) : IsTree(trees[t]) /\ IsRoot(trees[t].wd_node)
                                     /\ trees[t].packedn \in Nat /\ trees[t].packedn >= 1
<1>1. trees \in Seq(Trees)
  BY DEF AreTrees
<1>2. Len(trees) \in Nat /\ DOMAIN trees = 1..Len(trees)
  BY <1>1, LenProperties
<1>3. \A t \in 1..Len(trees) : trees[t] \in Trees
  BY <1>1, ElementOfSeq
<1>4. \A tree \in Trees : IsTree(tree) /\ tree.packedn \in Nat /\ tree.packedn >= 1
  BY DEF Trees, Roots, IsTree
<1>5. \A t \in 1..Len(trees) : IsTree(trees[t]) /\ IsRoot(trees[t].wd_node)
  BY <1>3, <1>4, RootOf
<1> QED BY <1>2, <1>3, <1>4, <1>5

\* Combinations of the elements of one operand.
LEMMA OfElementsSteps ==
  ASSUME NEW tree, IsTree(tree)
  PROVE  /\ OfElements(tree, 0) = 1
         /\ \A n \in Nat : /\ OfElements(tree, n) \in Nat
                           /\ OfElements(tree, n + 1) = OfElements(tree, n) * leaf_num(tree.wd_node)
<1> DEFINE x == leaf_num(tree.wd_node)
           f(n) == [j \in 1..n |-> x]
<1>1. x \in Nat
  BY RootOf, LeavesOf
<1>2. \A n : OfElements(tree, n) = ProductTo(f(n), n)
  BY DEF OfElements
<1> HIDE DEF x
<1>3. \A n \in Nat : Nats(f(n), n) /\ Nats(f(n + 1), n) /\ Agree(f(n), f(n + 1), n)
  BY <1>1 DEF Nats, Agree
<1>4. ASSUME NEW n \in Nat
      PROVE  ProductTo(f(n), n) \in Nat /\ ProductTo(f(n + 1), n + 1) = ProductTo(f(n), n) * x
  <2>1. n + 1 \in Nat /\ n \in 0..n /\ n + 1 \in 1..(n + 1) /\ (n + 1) - 1 = n
    OBVIOUS
  <2>2. ProductTo(f(n), n) \in Nat
    BY <1>3, <2>1, ProductSteps
  <2>3. ProductTo(f(n + 1), n + 1) = ProductTo(f(n + 1), n) * f(n + 1)[n + 1]
    BY <1>3, <2>1, ProductSteps
  <2>4. ProductTo(f(n), n) = ProductTo(f(n + 1), n)
    BY <1>3, ProductSame
  <2>5. f(n + 1)[n + 1] = x
    BY <2>1
  <2> QED BY <2>2, <2>3, <2>4, <2>5
<1>5. ProductTo(f(0), 0) = 1
  <2>1. 0 \in Nat
    OBVIOUS
  <2> HIDE DEF f
  <2> QED BY <1>3, <2>1, ProductSteps
<1> HIDE DEF f
<1> QED BY <1>2, <1>4, <1>5 DEF x

\* The combinations of the operands from number t on.
From(trees, t) == Combinations(SubSeq(trees, t, Len(trees)))

\* They are those of operand t, each with all of the operands behind it.
LEMMA FromSteps ==
  ASSUME NEW trees, AreTrees(trees)
  PROVE  /\ From(trees, Len(trees) + 1) = 1
         /\ From(trees, 1) = Combinations(trees)
         /\ \A t \in 1..(Len(trees) + 1) : From(trees, t) \in Nat
         /\ \A t \in 1..Len(trees) :
              /\ From(trees, t) = OfElements(trees[t], trees[t].packedn) * From(trees, t + 1)
              /\ OfElements(trees[t], trees[t].packedn) \in Nat
<1> DEFINE L == Len(trees)
           e(t) == OfElements(trees[t], trees[t].packedn)
           f(t) == [k \in 1..(L - t + 1) |-> e(t + k - 1)]
<1>1. L \in Nat /\ trees \in Seq(Trees)
  BY TreeAt DEF AreTrees
<1>2. \A t \in 1..L : e(t) \in Nat
  BY TreeAt, OfElementsSteps
<1>3. ASSUME NEW t \in 1..(L + 1) PROVE From(trees, t) = ProductTo(f(t), L - t + 1)
  <2> DEFINE rest == SubSeq(trees, t, L)
             g == [k \in DOMAIN rest |-> OfElements(rest[k], rest[k].packedn)]
  <2>1. Len(rest) = L - t + 1 /\ DOMAIN rest = 1..(L - t + 1)
    BY <1>1
  <2>2. \A k \in 1..(L - t + 1) : rest[k] = trees[t + k - 1]
    BY <1>1
  <2>3. From(trees, t) = ProductTo(g, Len(rest))
    BY DEF From, Combinations
  <2> HIDE DEF rest
  <2>4. g = f(t)
    BY <2>1, <2>2
  <2> QED BY <2>1, <2>3, <2>4
<1> HIDE DEF e
<1>4. \A t \in 1..(L + 1) : Nats(f(t), L - t + 1) /\ L - t + 1 \in Nat
  BY <1>1, <1>2 DEF Nats
<1>5. ASSUME NEW t \in 1..(L + 1) PROVE From(trees, t) \in Nat
  <2>1. Nats(f(t), L - t + 1) /\ L - t + 1 \in Nat /\ L - t + 1 \in 0..(L - t + 1)
    BY <1>1, <1>4
  <2> HIDE DEF f, L
  <2> QED BY <1>3, <2>1, ProductSteps
<1>6. ASSUME NEW t \in 1..L PROVE From(trees, t) = e(t) * From(trees, t + 1)
  <2> DEFINE n == L - t
  <2>1. n \in Nat /\ n + 1 = L - t + 1 /\ L - (t + 1) + 1 = n /\ t \in 1..(L + 1) /\ t + 1 \in 1..(L + 1)
    BY <1>1
  <2>2. \A k \in 1..n : f(t + 1)[k] = f(t)[k + 1]
    BY <1>1
  <2>3. f(t)[1] = e(t)
    BY <1>1
  <2>4. Nats(f(t), n + 1)
    BY <1>4, <2>1
  <2>5. From(trees, t) = ProductTo(f(t), n + 1) /\ From(trees, t + 1) = ProductTo(f(t + 1), n)
    BY <1>3, <2>1
  <2> HIDE DEF f, n
  <2>6. ProductTo(f(t), n + 1) = f(t)[1] * ProductTo(f(t + 1), n)
    BY <2>1, <2>2, <2>4, ProductShift
  <2> QED BY <2>3, <2>5, <2>6
<1>7. From(trees, L + 1) = 1
  <2>1. L + 1 \in 1..(L + 1) /\ L - (L + 1) + 1 = 0 /\ 0 \in Nat
    BY <1>1
  <2>2. Nats(f(L + 1), 0) /\ From(trees, L + 1) = ProductTo(f(L + 1), 0)
    BY <1>3, <1>4, <2>1
  <2> HIDE DEF f
  <2> QED BY <2>1, <2>2, ProductSteps
<1>8. From(trees, 1) = Combinations(trees)
  <2>1. SubSeq(trees, 1, Len(trees)) = trees
    BY <1>1
  <2> QED BY <2>1 DEF From
<1> HIDE DEF L
<1> QED BY <1>2, <1>5, <1>6, <1>7, <1>8 DEF e, L

\* The combinations behind an element: all those of the next one, for each constant.
LEMMA BehindSteps ==
  ASSUME NEW trees, AreTrees(trees), NEW t \in 1..Len(trees)
  PROVE  /\ \A p \in 0..trees[t].packedn : Behind(trees, t, p) \in Nat
         /\ \A p \in 1..trees[t].packedn :
              Behind(trees, t, p - 1) = leaf_num(trees[t].wd_node) * Behind(trees, t, p)
         /\ t < Len(trees) => Behind(trees, t, trees[t].packedn) = Behind(trees, t + 1, 0)
         /\ t = Len(trees) => Behind(trees, t, trees[t].packedn) = 1
         /\ t = 1 => Behind(trees, t, 0) = Combinations(trees)
<1> DEFINE L == Len(trees)
           n(u) == trees[u].packedn
           x == leaf_num(trees[t].wd_node)
           E(u, k) == OfElements(trees[u], k)
           C(u) == From(trees, u)
<1>1. L \in Nat /\ \A u \in 1..L : IsTree(trees[u]) /\ n(u) \in Nat /\ n(u) >= 1
  BY TreeAt
<1>2. x \in Nat
  BY <1>1, RootOf, LeavesOf
<1>3. \A u \in 1..L : /\ E(u, 0) = 1 /\ \A k \in Nat : E(u, k) \in Nat
  BY <1>1, OfElementsSteps
<1>4. \A k \in Nat : E(t, k + 1) = E(t, k) * x
  BY <1>1, OfElementsSteps
<1>5. \A u, p : Behind(trees, u, p) = E(u, n(u) - p) * C(u + 1)
  BY DEF Behind, From
<1>6. /\ C(L + 1) = 1 /\ C(1) = Combinations(trees) /\ \A u \in 1..(L + 1) : C(u) \in Nat
      /\ \A u \in 1..L : C(u) = E(u, n(u)) * C(u + 1)
  BY FromSteps
<1> HIDE DEF L, n, x, E, C
<1>7. t \in 1..L /\ t + 1 \in 1..(L + 1)
  BY <1>1 DEF L
<1>8. C(t + 1) \in Nat /\ n(t) \in Nat
  BY <1>1, <1>6, <1>7
<1>9. ASSUME NEW p \in 0..n(t) PROVE Behind(trees, t, p) \in Nat
  <2>1. n(t) - p \in Nat
    BY <1>8
  <2>2. E(t, n(t) - p) \in Nat
    BY <1>3, <1>7, <2>1
  <2> QED BY <1>5, <1>8, <2>2, Associative
<1>10. ASSUME NEW p \in 1..n(t) PROVE Behind(trees, t, p - 1) = x * Behind(trees, t, p)
  <2>1. n(t) - p \in Nat /\ n(t) - (p - 1) = (n(t) - p) + 1
    BY <1>8
  <2> DEFINE a == E(t, n(t) - p)
             c == C(t + 1)
  <2>2. a \in Nat /\ E(t, n(t) - (p - 1)) = a * x /\ c \in Nat
    BY <1>3, <1>4, <1>7, <1>8, <2>1
  <2>3. Behind(trees, t, p) = a * c /\ Behind(trees, t, p - 1) = (a * x) * c
    BY <1>5, <2>2
  <2> HIDE DEF a, c
  <2>4. (a * x) * c = x * (a * c)
    <3>1. a * x = x * a
      BY <1>2, <2>2
    <3> QED BY <1>2, <2>2, <3>1, Associative
  <2> QED BY <2>3, <2>4
<1>11. ASSUME t < L PROVE Behind(trees, t, n(t)) = Behind(trees, t + 1, 0)
  <2>1. t + 1 \in 1..L /\ n(t) - n(t) = 0
    BY <1>1, <1>7, <1>8, <1>11
  <2>2. Behind(trees, t, n(t)) = E(t, 0) * C(t + 1) /\ E(t, 0) = 1
    BY <1>3, <1>5, <1>7, <2>1
  <2>3. n(t + 1) - 0 = n(t + 1)
    BY <1>1, <2>1
  <2>4. Behind(trees, t + 1, 0) = C(t + 1)
    BY <1>5, <1>6, <2>1, <2>3
  <2> QED BY <1>8, <2>2, <2>4
<1>12. ASSUME t = L PROVE Behind(trees, t, n(t)) = 1
  <2>1. Behind(trees, t, n(t)) = E(t, 0) * C(t + 1) /\ E(t, 0) = 1
    <3>1. n(t) - n(t) = 0
      BY <1>8
    <3> QED BY <1>3, <1>5, <1>7, <3>1
  <2>2. C(t + 1) = 1
    BY <1>6, <1>12
  <2> QED BY <2>1, <2>2
<1>13. ASSUME t = 1 PROVE Behind(trees, t, 0) = Combinations(trees)
  <2>1. n(t) - 0 = n(t)
    BY <1>8
  <2> QED BY <1>5, <1>6, <1>7, <1>13, <2>1
<1> QED BY <1>9, <1>10, <1>11, <1>12, <1>13 DEF L, n, x

-----------------------------------------------------------------------------
(* Numbers of combinations.                                                *)

\* Constants, and lists of them for some operands.
Consts == (DOMAIN Groups) \X Nat
Lists == Seq(Seq(Consts))

\* Constants with a number in their tree, no more than there are elements.
Counted(tree, consts) ==
  /\ consts \in Seq(Consts) /\ Len(consts) <= tree.packedn
  /\ \A q \in 1..Len(consts) : Number(tree, consts[q]) \in Nat
Filled(trees, N) ==
  /\ N \in Lists /\ Len(N) \in 1..Len(trees)
  /\ \A u \in 1..Len(N) : Counted(trees[u], N[u])

\* One constant more adds what it counts.
LEMMA OperandRank ==
  ASSUME NEW trees, AreTrees(trees), NEW t \in 1..Len(trees), NEW consts, Counted(trees[t], consts)
  PROVE  /\ OfOperand(trees, t, consts) \in Nat
         /\ consts = << >> => OfOperand(trees, t, consts) = 0
         /\ \A c \in Consts : Counted(trees[t], Append(consts, c)) =>
              OfOperand(trees, t, Append(consts, c))
                = OfOperand(trees, t, consts) + Number(trees[t], c) * Behind(trees, t, Len(consts) + 1)
<1> DEFINE value(l) == [p \in DOMAIN l |-> Number(trees[t], l[p]) * Behind(trees, t, p)]
<1>1. \A l : OfOperand(trees, t, l) = SumTo(value(l), Len(l))
  BY DEF OfOperand
<1>2. ASSUME NEW l, Counted(trees[t], l)
      PROVE  /\ Len(l) \in Nat /\ DOMAIN l = 1..Len(l) /\ Nats(value(l), Len(l))
             /\ \A p \in 1..Len(l) : value(l)[p] = Number(trees[t], l[p]) * Behind(trees, t, p)
  <2>1. l \in Seq(Consts) /\ Len(l) <= trees[t].packedn
    BY <1>2 DEF Counted
  <2>2. Len(l) \in Nat /\ DOMAIN l = 1..Len(l)
    BY <2>1, LenProperties
  <2>3. trees[t].packedn \in Nat
    BY TreeAt
  <2>4. \A p \in 1..Len(l) : Number(trees[t], l[p]) \in Nat /\ Behind(trees, t, p) \in Nat
    <3>1. \A p \in 1..Len(l) : p \in 0..trees[t].packedn
      BY <2>1, <2>2, <2>3
    <3> QED BY <1>2, <3>1, BehindSteps DEF Counted
  <2>5. \A p \in 1..Len(l) : value(l)[p] = Number(trees[t], l[p]) * Behind(trees, t, p)
    BY <2>2
  <2>6. \A p \in 1..Len(l) : value(l)[p] \in Nat
    BY <2>4, <2>5, Associative
  <2> HIDE DEF value
  <2> QED BY <2>2, <2>5, <2>6 DEF Nats
<1> HIDE DEF value
<1> DEFINE n == Len(consts)
<1>3. n \in Nat /\ n \in 0..n /\ Nats(value(consts), n)
  BY <1>2
<1>4. OfOperand(trees, t, consts) \in Nat
  BY <1>1, <1>3, SumSteps
<1>5. ASSUME consts = << >> PROVE OfOperand(trees, t, consts) = 0
  <2>1. n = 0
    BY <1>5
  <2> QED BY <1>1, <1>3, <2>1, SumSteps
<1>6. ASSUME NEW c \in Consts, Counted(trees[t], Append(consts, c))
      PROVE  OfOperand(trees, t, Append(consts, c))
               = OfOperand(trees, t, consts) + Number(trees[t], c) * Behind(trees, t, n + 1)
  <2> DEFINE l == Append(consts, c)
  <2>1. consts \in Seq(Consts)
    BY DEF Counted
  <2>2. Len(l) = n + 1 /\ l[n + 1] = c /\ \A p \in 1..n : l[p] = consts[p]
    BY <2>1, <1>3
  <2> HIDE DEF l
  <2>3. Counted(trees[t], l)
    BY <1>6 DEF l
  <2>4. n + 1 \in 1..(n + 1) /\ (n + 1) - 1 = n /\ n + 1 \in Nat /\ \A p \in 1..n : p \in 1..(n + 1)
    BY <1>3
  <2> HIDE DEF n
  <2>5. /\ Nats(value(l), n + 1)
        /\ \A p \in 1..(n + 1) : value(l)[p] = Number(trees[t], l[p]) * Behind(trees, t, p)
    BY <1>2, <2>2, <2>3
  <2>6. \A p \in 1..n : value(consts)[p] = Number(trees[t], consts[p]) * Behind(trees, t, p)
    BY <1>2 DEF n
  <2>7. Agree(value(consts), value(l), n)
    <3>1. \A p \in 1..n : value(consts)[p] = value(l)[p]
      BY <2>2, <2>4, <2>5, <2>6
    <3> QED BY <3>1 DEF Agree
  <2>8. SumTo(value(consts), n) = SumTo(value(l), n)
    BY <1>3, <2>7, SumSame
  <2>9. SumTo(value(l), n + 1) = SumTo(value(l), n) + value(l)[n + 1]
    BY <2>4, <2>5, SumSteps
  <2>10. value(l)[n + 1] = Number(trees[t], c) * Behind(trees, t, n + 1)
    BY <2>2, <2>4, <2>5
  <2>11. OfOperand(trees, t, l) = SumTo(value(l), n + 1) /\ OfOperand(trees, t, consts) = SumTo(value(consts), n)
    BY <1>1, <2>2 DEF n
  <2> QED BY <2>8, <2>9, <2>10, <2>11 DEF l
<1> QED BY <1>4, <1>5, <1>6 DEF n

\* Operands numbered alike count alike.
Ranks(trees, N) == [t \in DOMAIN N |-> OfOperand(trees, t, N[t])]

\* The number of lists of constants.
LEMMA RankOf ==
  ASSUME NEW trees, AreTrees(trees), NEW N, Filled(trees, N)
  PROVE  /\ Rank(trees, N) = SumTo(Ranks(trees, N), Len(N))
         /\ Len(N) \in Nat /\ DOMAIN N = 1..Len(N) /\ Nats(Ranks(trees, N), Len(N))
         /\ \A t \in 1..Len(N) : Ranks(trees, N)[t] = OfOperand(trees, t, N[t])
         /\ Rank(trees, N) \in Nat
<1>1. Rank(trees, N) = SumTo(Ranks(trees, N), Len(N))
  BY DEF Rank, Ranks
<1>2. Len(N) \in Nat /\ DOMAIN N = 1..Len(N)
  BY LenProperties DEF Filled, Lists
<1>3. \A t \in 1..Len(N) : Ranks(trees, N)[t] = OfOperand(trees, t, N[t])
  BY <1>2 DEF Ranks
<1>4. \A t \in 1..Len(N) : OfOperand(trees, t, N[t]) \in Nat
  <2>1. \A t \in 1..Len(N) : t \in 1..Len(trees) /\ Counted(trees[t], N[t])
    BY <1>2 DEF Filled
  <2> QED BY <2>1, OperandRank
<1>5. Nats(Ranks(trees, N), Len(N))
  BY <1>3, <1>4 DEF Nats
<1>6. Len(N) \in 0..Len(N)
  BY <1>2
<1>7. Rank(trees, N) \in Nat
  BY <1>1, <1>2, <1>5, <1>6, SumSteps
<1> QED BY <1>1, <1>2, <1>3, <1>5, <1>7

\* A list with one constant more for its last operand.
Added(N, c) == [N EXCEPT ![Len(N)] = Append(@, c)]

\* The constant adds what it counts to the number.
LEMMA RankAdded ==
  ASSUME NEW trees, AreTrees(trees), NEW N, Filled(trees, N), NEW c \in Consts,
         Number(trees[Len(N)], c) \in Nat, Len(N[Len(N)]) < trees[Len(N)].packedn
  PROVE  /\ Filled(trees, Added(N, c))
         /\ Rank(trees, Added(N, c))
              = Rank(trees, N) + Number(trees[Len(N)], c) * Behind(trees, Len(N), Len(N[Len(N)]) + 1)
<1> DEFINE A == Added(N, c)
           n == Len(N)
           l == Append(N[n], c)
<1>1. N \in Seq(Seq(Consts)) /\ n \in Nat /\ n >= 1 /\ n \in 1..Len(trees) /\ DOMAIN N = 1..n
  <2>1. N \in Seq(Seq(Consts)) /\ n \in 1..Len(trees)
    BY DEF Filled, Lists
  <2> QED BY <2>1, LenProperties
<1>2. N[n] \in Seq(Consts) /\ l \in Seq(Consts) /\ Len(l) = Len(N[n]) + 1 /\ Len(N[n]) \in Nat
      /\ l[Len(N[n]) + 1] = c /\ \A q \in 1..Len(N[n]) : l[q] = N[n][q]
  <2>1. n \in 1..n
    BY <1>1
  <2>2. N[n] \in Seq(Consts)
    BY <1>1, <2>1, ElementOfSeq
  <2> QED BY <2>2
<1>3. A = [N EXCEPT ![n] = l]
  BY DEF Added
<1>4. A \in Seq(Seq(Consts)) /\ Len(A) = n /\ A[n] = l /\ \A t \in 1..(n - 1) : A[t] = N[t]
  <2> HIDE DEF l, A
  <2> QED BY <1>1, <1>2, <1>3
<1>5. Counted(trees[n], N[n]) /\ \A t \in 1..(n - 1) : Counted(trees[t], N[t])
  BY <1>1 DEF Filled
<1>6. Counted(trees[n], l)
  <2>1. \A q \in 1..Len(N[n]) : Number(trees[n], N[n][q]) \in Nat
    BY <1>5 DEF Counted
  <2>2. trees[n].packedn \in Nat
    BY <1>1, TreeAt
  <2>3. Len(l) <= trees[n].packedn
    BY <1>2, <2>2
  <2>4. \A q \in 1..Len(l) : Number(trees[n], l[q]) \in Nat
    <3> SUFFICES ASSUME NEW q \in 1..Len(l) PROVE Number(trees[n], l[q]) \in Nat
      OBVIOUS
    <3>1. CASE q = Len(N[n]) + 1
      BY <1>2, <3>1
    <3>2. CASE q \in 1..Len(N[n])
      BY <1>2, <2>1, <3>2
    <3> QED
      <4> HIDE DEF l
      <4> QED BY <1>2, <3>1, <3>2
  <2> HIDE DEF l
  <2> QED BY <1>2, <2>3, <2>4 DEF Counted
<1> HIDE DEF l, A
<1>7. Filled(trees, A)
  <2>1. \A u \in 1..n : Counted(trees[u], A[u])
    <3> SUFFICES ASSUME NEW u \in 1..n PROVE Counted(trees[u], A[u])
      OBVIOUS
    <3>1. CASE u = n
      BY <1>4, <1>6, <3>1
    <3>2. CASE u \in 1..(n - 1)
      BY <1>4, <1>5, <3>2
    <3> QED BY <1>1, <3>1, <3>2
  <2> HIDE DEF n
  <2> QED BY <1>1, <1>4, <2>1 DEF Filled, Lists
<1>8. OfOperand(trees, n, l) = OfOperand(trees, n, N[n]) + Number(trees[n], c) * Behind(trees, n, Len(N[n]) + 1)
  <2>1. Counted(trees[n], Append(N[n], c))
    BY <1>6 DEF l
  <2> HIDE DEF n
  <2> QED BY <1>1, <1>5, <2>1, OperandRank DEF l
<1>9. /\ Rank(trees, N) = SumTo(Ranks(trees, N), n) /\ Nats(Ranks(trees, N), n)
      /\ \A t \in 1..n : Ranks(trees, N)[t] = OfOperand(trees, t, N[t])
  BY RankOf
<1>10. /\ Rank(trees, A) = SumTo(Ranks(trees, A), n) /\ Nats(Ranks(trees, A), n)
       /\ \A t \in 1..n : Ranks(trees, A)[t] = OfOperand(trees, t, A[t])
  <2>1. /\ Rank(trees, A) = SumTo(Ranks(trees, A), Len(A)) /\ Nats(Ranks(trees, A), Len(A))
        /\ \A t \in 1..Len(A) : Ranks(trees, A)[t] = OfOperand(trees, t, A[t])
    BY <1>7, RankOf
  <2> QED BY <1>4, <2>1
<1> HIDE DEF n
<1>11. n \in 1..n /\ n - 1 \in Nat /\ n - 1 \in 0..n /\ \A t \in 1..(n - 1) : t \in 1..n
  BY <1>1
<1>12. SumTo(Ranks(trees, A), n - 1) = SumTo(Ranks(trees, N), n - 1)
  <2>1. \A t \in 1..(n - 1) : Ranks(trees, N)[t] = Ranks(trees, A)[t]
    BY <1>4, <1>9, <1>10, <1>11
  <2>2. Agree(Ranks(trees, N), Ranks(trees, A), n - 1) /\ Nats(Ranks(trees, N), n - 1)
    BY <1>9, <1>11, <2>1 DEF Agree, Nats
  <2> QED BY <1>11, <2>2, SumSame
<1>13. /\ SumTo(Ranks(trees, N), n) = SumTo(Ranks(trees, N), n - 1) + OfOperand(trees, n, N[n])
       /\ SumTo(Ranks(trees, N), n - 1) \in Nat
  BY <1>1, <1>9, <1>11, SumSteps
<1>14. SumTo(Ranks(trees, A), n) = SumTo(Ranks(trees, A), n - 1) + OfOperand(trees, n, l)
  <2>1. SumTo(Ranks(trees, A), n) = SumTo(Ranks(trees, A), n - 1) + Ranks(trees, A)[n]
    BY <1>1, <1>10, <1>11, SumSteps
  <2>2. Ranks(trees, A)[n] = OfOperand(trees, n, A[n])
    BY <1>10, <1>11
  <2> QED BY <1>4, <2>1, <2>2
<1>15. OfOperand(trees, n, N[n]) \in Nat /\ Number(trees[n], c) * Behind(trees, n, Len(N[n]) + 1) \in Nat
  <2>1. OfOperand(trees, n, N[n]) \in Nat
    BY <1>1, <1>5, OperandRank
  <2>2. trees[n].packedn \in Nat
    BY <1>1, TreeAt
  <2>3. Len(N[n]) + 1 \in 0..trees[n].packedn
    BY <1>2, <2>2 DEF n
  <2>4. Behind(trees, n, Len(N[n]) + 1) \in Nat
    BY <1>1, <2>3, BehindSteps
  <2>5. Number(trees[n], c) \in Nat
    BY DEF n
  <2> QED BY <2>1, <2>4, <2>5, Associative
<1> DEFINE a == SumTo(Ranks(trees, N), n - 1)
           b == OfOperand(trees, n, N[n])
           d == Number(trees[n], c) * Behind(trees, n, Len(N[n]) + 1)
<1>16. Rank(trees, N) = a + b /\ Rank(trees, A) = a + (b + d) /\ a \in Nat /\ b \in Nat /\ d \in Nat
  BY <1>8, <1>9, <1>10, <1>12, <1>13, <1>14, <1>15
<1>17. Rank(trees, A) = Rank(trees, N) + d
  <2> HIDE DEF a, b, d
  <2> QED BY <1>16
<1> QED BY <1>7, <1>17 DEF A, n

\* An operand without constants adds nothing.
LEMMA RankOpened ==
  ASSUME NEW trees, AreTrees(trees), NEW N, Filled(trees, N), Len(N) < Len(trees)
  PROVE  /\ Filled(trees, Append(N, << >>))
         /\ Rank(trees, Append(N, << >>)) = Rank(trees, N)
<1> DEFINE A == Append(N, << >>)
           n == Len(N)
<1>1. N \in Seq(Seq(Consts)) /\ n \in Nat /\ n >= 1 /\ n + 1 \in 1..Len(trees) /\ n \in 1..Len(trees)
  <2>1. N \in Seq(Seq(Consts)) /\ n \in 1..Len(trees) /\ Len(trees) \in Nat
    BY TreeAt DEF Filled, Lists
  <2> QED BY <2>1, LenProperties
<1>2. << >> \in Seq(Consts) /\ Len(<< >>) = 0
  OBVIOUS
<1>3. A \in Seq(Seq(Consts)) /\ Len(A) = n + 1 /\ A[n + 1] = << >> /\ \A t \in 1..n : A[t] = N[t]
  BY <1>1, <1>2
<1>4. Counted(trees[n + 1], << >>)
  BY <1>1, <1>2, TreeAt DEF Counted
<1> HIDE DEF A
<1>5. Filled(trees, A)
  <2>1. \A u \in 1..n : Counted(trees[u], N[u])
    BY DEF Filled
  <2>2. \A u \in 1..(n + 1) : Counted(trees[u], A[u])
    <3> SUFFICES ASSUME NEW u \in 1..(n + 1) PROVE Counted(trees[u], A[u])
      OBVIOUS
    <3>1. CASE u = n + 1
      BY <1>3, <1>4, <3>1
    <3>2. CASE u \in 1..n
      BY <1>3, <2>1, <3>2
    <3> QED BY <1>1, <3>1, <3>2
  <2> HIDE DEF n
  <2> QED BY <1>1, <1>3, <2>2 DEF Filled, Lists
<1>6. /\ Rank(trees, N) = SumTo(Ranks(trees, N), n) /\ Nats(Ranks(trees, N), n)
      /\ \A t \in 1..n : Ranks(trees, N)[t] = OfOperand(trees, t, N[t])
      /\ Rank(trees, N) \in Nat
  BY RankOf
<1>7. /\ Rank(trees, A) = SumTo(Ranks(trees, A), n + 1) /\ Nats(Ranks(trees, A), n + 1)
      /\ \A t \in 1..(n + 1) : Ranks(trees, A)[t] = OfOperand(trees, t, A[t])
  <2>1. /\ Rank(trees, A) = SumTo(Ranks(trees, A), Len(A)) /\ Nats(Ranks(trees, A), Len(A))
        /\ \A t \in 1..Len(A) : Ranks(trees, A)[t] = OfOperand(trees, t, A[t])
    BY <1>5, RankOf
  <2> QED BY <1>3, <2>1
<1> HIDE DEF n
<1>8. n + 1 \in 1..(n + 1) /\ (n + 1) - 1 = n /\ n + 1 \in Nat /\ \A t \in 1..n : t \in 1..(n + 1)
  BY <1>1
<1>9. SumTo(Ranks(trees, A), n) = SumTo(Ranks(trees, N), n)
  <2>1. \A t \in 1..n : Ranks(trees, N)[t] = Ranks(trees, A)[t]
    BY <1>3, <1>6, <1>7, <1>8
  <2>2. Agree(Ranks(trees, N), Ranks(trees, A), n)
    BY <2>1 DEF Agree
  <2> QED BY <1>1, <1>6, <2>2, SumSame
<1>10. SumTo(Ranks(trees, A), n + 1) = SumTo(Ranks(trees, A), n) + OfOperand(trees, n + 1, << >>)
  <2>1. SumTo(Ranks(trees, A), n + 1) = SumTo(Ranks(trees, A), n) + Ranks(trees, A)[n + 1]
    BY <1>7, <1>8, SumSteps
  <2>2. Ranks(trees, A)[n + 1] = OfOperand(trees, n + 1, A[n + 1])
    BY <1>7, <1>8
  <2> QED BY <1>3, <2>1, <2>2
<1>11. OfOperand(trees, n + 1, << >>) = 0
  BY <1>1, <1>4, OperandRank
<1> QED BY <1>5, <1>6, <1>7, <1>9, <1>10, <1>11 DEF A, n

-----------------------------------------------------------------------------
(* Activations.                                                            *)

\* An activation at an element of an operand, over its root or over a leaf.
Nodes == Roots \cup {Leaf(g) : g \in DOMAIN Groups}
Frames == [treei : Nat, packedi : Nat, node : Nodes, i : Nat]
AtPlace(trees, f) ==
  /\ f \in Frames /\ f.treei \in 1..Len(trees) /\ f.packedi \in 1..trees[f.treei].packedn
  /\ f.i \in 1..(f.node.size + 1)
  /\ ~f.node.isleaf => f.node = trees[f.treei].wd_node

\* The first element of an operand follows the last one of the operand before.
Follows(trees, f, g) ==
  IF f.packedi = trees[f.treei].packedn THEN g.treei = f.treei + 1 /\ g.packedi = 1
  ELSE g.treei = f.treei /\ g.packedi = f.packedi + 1

\* An activation is called for a subtree, or for the root of the next element.
Calls(trees, f, g) ==
  /\ f.i <= f.node.size
  /\ IF f.node.isleaf THEN g.node = trees[g.treei].wd_node /\ Follows(trees, f, g)
     ELSE g.node = f.node.sub[f.i] /\ g.treei = f.treei /\ g.packedi = f.packedi

CallsRight(trees, S) ==
  /\ S \in Seq(Frames) /\ Len(S) >= 1
  /\ \A j \in 1..Len(S) : AtPlace(trees, S[j])
  /\ S[1].treei = 1 /\ S[1].packedi = 1 /\ S[1].node = trees[1].wd_node
  /\ \A j \in 1..(Len(S) - 1) : Calls(trees, S[j], S[j + 1])

\* The lists are filled up to the element of the activation, and what is left to
\* count under it does not exceed the combinations.
Listed(trees, N, f) ==
  /\ Filled(trees, N) /\ Len(N) = f.treei
  /\ \A u \in 1..(f.treei - 1) : Len(N[u]) = trees[u].packedn
  /\ Len(N[f.treei]) = f.packedi - 1
  /\ Rank(trees, N) + Behind(trees, f.treei, f.packedi - 1) <= Combinations(trees)

\* The lists after the call an activation makes.
After(trees, N, f) ==
  IF ~f.node.isleaf THEN N
  ELSE IF f.packedi = trees[f.treei].packedn THEN Append(Added(N, f.node.sub[f.i]), << >>)
  ELSE Added(N, f.node.sub[f.i])

\* The lists at the call of each activation.
History(trees, S, H) ==
  /\ H \in Seq(Lists) /\ Len(H) = Len(S) /\ H[1] = << << >> >>
  /\ \A j \in 1..Len(S) : Listed(trees, H[j], S[j])
  /\ \A j \in 1..(Len(S) - 1) : H[j + 1] = After(trees, H[j], S[j])

\* What an advanced activation is.
LEMMA NextOf ==
  ASSUME NEW f \in Frames
  PROVE  LET g == [f EXCEPT !.i = @ + 1]
         IN /\ g \in Frames /\ g.treei = f.treei /\ g.packedi = f.packedi /\ g.node = f.node
            /\ g.i = f.i + 1 /\ f.i \in Nat
BY DEF Frames

\* A loop that goes on.
LEMMA AdvancedIs ==
  ASSUME NEW S \in Seq(Frames), Len(S) >= 1
  PROVE  /\ Advanced(S) \in Seq(Frames) /\ Len(Advanced(S)) = Len(S)
         /\ \A j \in 1..(Len(S) - 1) : Advanced(S)[j] = S[j]
         /\ Advanced(S)[Len(S)] = [S[Len(S)] EXCEPT !.i = @ + 1]
<1> DEFINE n == Len(S)
           g == [S[n] EXCEPT !.i = @ + 1]
<1>1. n \in Nat /\ n \in 1..n /\ DOMAIN S = 1..n
  BY LenProperties
<1>2. S[n] \in Frames
  BY <1>1, ElementOfSeq
<1>3. g \in Frames
  <2> DEFINE f == S[n]
  <2>1. f \in Frames
    BY <1>2
  <2> HIDE DEF f
  <2>2. [f EXCEPT !.i = @ + 1] \in Frames
    BY <2>1, NextOf
  <2> QED BY <2>2 DEF f
<1>4. Advanced(S) = [S EXCEPT ![n] = g]
  BY Zenon DEF Advanced
<1> DEFINE A == [S EXCEPT ![n] = g]
<1> HIDE DEF g
<1>5. A \in Seq(Frames) /\ Len(A) = n /\ \A j \in 1..n : A[j] = IF j = n THEN g ELSE S[j]
  <2>1. n \in 1..Len(S)
    BY <1>1
  <2> QED BY <1>3, <2>1, ExceptSeq
<1> HIDE DEF A, n
<1>6. A[n] = g /\ \A j \in 1..(n - 1) : A[j] = S[j]
  BY <1>1, <1>5
<1> QED BY <1>4, <1>5, <1>6 DEF g, A, n

\* The stack without its last activation.
LEMMA FrontIs ==
  ASSUME NEW D, NEW S \in Seq(D), Len(S) >= 1
  PROVE  /\ Front(S) \in Seq(D) /\ Len(Front(S)) = Len(S) - 1
         /\ \A j \in 1..(Len(S) - 1) : Front(S)[j] = S[j]
<1> DEFINE A == SubSeq(S, 1, Len(S) - 1)
<1>1. Len(S) \in Nat /\ Len(S) - 1 \in 0..Len(S)
  BY LenProperties
<1>2. A \in Seq(D) /\ Len(A) = Len(S) - 1 /\ \A j \in 1..(Len(S) - 1) : A[j] = S[j]
  <2> DEFINE n == Len(S) - 1
  <2>1. 1 \in Int /\ n \in Int /\ \A j \in 1..n : S[j] \in D
    BY <1>1, ElementOfSeq
  <2>2. n \in Nat /\ (1 <= n => n - 1 + 1 = n) /\ (~(1 <= n) => n = 0)
    BY <1>1
  <2> HIDE DEF n
  <2>3. /\ SubSeq(S, 1, n) \in Seq(D)
        /\ Len(SubSeq(S, 1, n)) = IF 1 <= n THEN n - 1 + 1 ELSE 0
        /\ \A j \in 1..(n - 1 + 1) : SubSeq(S, 1, n)[j] = S[1 + j - 1]
    BY <2>1, SubSeqProperties
  <2>4. \A j \in 1..n : j \in 1..(n - 1 + 1) /\ 1 + j - 1 = j
    BY <2>1
  <2>5. Len(SubSeq(S, 1, n)) = n
    BY <2>3, <2>2
  <2>6. \A j \in 1..n : SubSeq(S, 1, n)[j] = S[j]
    BY <2>3, <2>4
  <2> QED BY <2>3, <2>5, <2>6 DEF n
<1> HIDE DEF A
<1>4. Front(S) = A
  BY DEF Front, A
<1> QED BY <1>2, <1>4

\* Appending an activation.
LEMMA Called ==
  ASSUME NEW trees, NEW S, NEW H, NEW g, CallsRight(trees, S), History(trees, S, H), AtPlace(trees, g),
         Calls(trees, S[Len(S)], g), Listed(trees, After(trees, H[Len(S)], S[Len(S)]), g)
  PROVE  /\ CallsRight(trees, Append(S, g))
         /\ History(trees, Append(S, g), Append(H, After(trees, H[Len(S)], S[Len(S)])))
<1> DEFINE n == Len(S)
           B == Append(S, g)
           a == After(trees, H[n], S[n])
           K == Append(H, a)
<1>1. S \in Seq(Frames) /\ n >= 1 /\ n \in Nat /\ g \in Frames
  <2>1. S \in Seq(Frames) /\ n >= 1 /\ g \in Frames
    BY DEF CallsRight, AtPlace
  <2> QED BY <2>1, LenProperties
<1>2. H \in Seq(Lists) /\ Len(H) = n /\ a \in Lists
  BY DEF History, Listed, Filled
<1>3. B \in Seq(Frames) /\ Len(B) = n + 1 /\ B[n + 1] = g /\ \A j \in 1..n : B[j] = S[j]
  BY <1>1
<1> HIDE DEF a, B
<1>4. K \in Seq(Lists) /\ Len(K) = n + 1 /\ K[n + 1] = a /\ \A j \in 1..n : K[j] = H[j]
  BY <1>1, <1>2
<1> HIDE DEF K
<1>5. /\ \A j \in 1..n : AtPlace(trees, S[j]) /\ Listed(trees, H[j], S[j])
      /\ \A j \in 1..(n - 1) : Calls(trees, S[j], S[j + 1]) /\ H[j + 1] = After(trees, H[j], S[j])
      /\ S[1].treei = 1 /\ S[1].packedi = 1 /\ S[1].node = trees[1].wd_node /\ H[1] = << << >> >>
  BY DEF CallsRight, History
<1>6. Calls(trees, S[n], g) /\ Listed(trees, a, g) /\ a = After(trees, H[n], S[n])
  BY DEF a
<1>7. Len(B) = n + 1 /\ Len(K) = n + 1 /\ (n + 1) - 1 = n /\ 1 \in 1..n /\ n + 1 >= 1
  BY <1>1, <1>3, <1>4
<1> HIDE DEF n
<1>8. \A j \in 1..(n + 1) : AtPlace(trees, B[j]) /\ Listed(trees, K[j], B[j])
  <2> SUFFICES ASSUME NEW j \in 1..(n + 1) PROVE AtPlace(trees, B[j]) /\ Listed(trees, K[j], B[j])
    OBVIOUS
  <2>1. CASE j = n + 1
    BY <1>3, <1>4, <1>6, <2>1
  <2>2. CASE j \in 1..n
    BY <1>3, <1>4, <1>5, <2>2
  <2> QED BY <1>1, <2>1, <2>2
<1>9. \A j \in 1..n : Calls(trees, B[j], B[j + 1]) /\ K[j + 1] = After(trees, K[j], B[j])
  <2> SUFFICES ASSUME NEW j \in 1..n PROVE Calls(trees, B[j], B[j + 1]) /\ K[j + 1] = After(trees, K[j], B[j])
    OBVIOUS
  <2>1. B[j] = S[j] /\ K[j] = H[j]
    BY <1>3, <1>4
  <2>2. CASE j = n
    BY <1>3, <1>4, <1>6, <2>1, <2>2
  <2>3. CASE j \in 1..(n - 1)
    <3>1. j + 1 \in 1..n
      BY <1>1, <2>3
    <3>2. B[j + 1] = S[j + 1] /\ K[j + 1] = H[j + 1]
      BY <1>3, <1>4, <3>1
    <3> QED BY <1>5, <2>1, <2>3, <3>2
  <2> QED BY <1>1, <2>2, <2>3
<1>10. B[1] = S[1] /\ K[1] = H[1]
  BY <1>3, <1>4, <1>7
<1>11. CallsRight(trees, B)
  BY <1>3, <1>5, <1>7, <1>8, <1>9, <1>10 DEF CallsRight
<1>12. History(trees, B, K)
  BY <1>4, <1>5, <1>7, <1>8, <1>9, <1>10 DEF History
<1> QED BY <1>11, <1>12 DEF B, K, a, n

\* Removing an activation.
LEMMA Returned ==
  ASSUME NEW trees, NEW S, NEW H, CallsRight(trees, S), History(trees, S, H), Len(S) > 1
  PROVE  CallsRight(trees, Front(S)) /\ History(trees, Front(S), Front(H))
<1> DEFINE n == Len(S)
           B == Front(S)
           K == Front(H)
<1>1. S \in Seq(Frames) /\ H \in Seq(Lists) /\ Len(H) = n /\ n \in Nat /\ n > 1
  <2>1. S \in Seq(Frames) /\ H \in Seq(Lists) /\ Len(H) = n
    BY DEF CallsRight, History
  <2> QED BY <2>1, LenProperties
<1>2. B \in Seq(Frames) /\ Len(B) = n - 1 /\ \A j \in 1..(n - 1) : B[j] = S[j]
  BY <1>1, FrontIs
<1>3. K \in Seq(Lists) /\ Len(K) = n - 1 /\ \A j \in 1..(n - 1) : K[j] = H[j]
  BY <1>1, FrontIs
<1> HIDE DEF B, K
<1>4. /\ \A j \in 1..n : AtPlace(trees, S[j]) /\ Listed(trees, H[j], S[j])
      /\ \A j \in 1..(n - 1) : Calls(trees, S[j], S[j + 1]) /\ H[j + 1] = After(trees, H[j], S[j])
      /\ S[1].treei = 1 /\ S[1].packedi = 1 /\ S[1].node = trees[1].wd_node /\ H[1] = << << >> >>
  BY DEF CallsRight, History
<1> HIDE DEF n
<1>5. /\ n - 1 >= 1 /\ 1 \in 1..(n - 1) /\ \A j \in 1..(n - 1) : j \in 1..n
      /\ \A j \in 1..((n - 1) - 1) : j \in 1..(n - 1) /\ j + 1 \in 1..(n - 1)
  BY <1>1
<1>6. \A j \in 1..(n - 1) : AtPlace(trees, B[j]) /\ Listed(trees, K[j], B[j])
  BY <1>2, <1>3, <1>4, <1>5
<1>7. \A j \in 1..((n - 1) - 1) : Calls(trees, B[j], B[j + 1]) /\ K[j + 1] = After(trees, K[j], B[j])
  BY <1>2, <1>3, <1>4, <1>5
<1>8. B[1] = S[1] /\ K[1] = H[1]
  BY <1>2, <1>3, <1>5
<1>9. CallsRight(trees, B)
  BY <1>2, <1>4, <1>5, <1>6, <1>7, <1>8 DEF CallsRight
<1>10. History(trees, B, K)
  BY <1>2, <1>3, <1>4, <1>6, <1>7, <1>8 DEF History
<1> QED BY <1>9, <1>10 DEF B, K

\* Advancing the loop of the last activation.
LEMMA WentOn ==
  ASSUME NEW trees, NEW S, NEW H, CallsRight(trees, S), History(trees, S, H),
         S[Len(S)].i <= S[Len(S)].node.size, S[Len(S)].node.size \in Nat
  PROVE  CallsRight(trees, Advanced(S)) /\ History(trees, Advanced(S), H)
<1> DEFINE n == Len(S)
           B == Advanced(S)
           f == S[n]
           g == [f EXCEPT !.i = @ + 1]
<1>1. S \in Seq(Frames) /\ H \in Seq(Lists) /\ Len(H) = n /\ n \in Nat /\ n >= 1
  <2>1. S \in Seq(Frames) /\ H \in Seq(Lists) /\ Len(H) = n /\ n >= 1
    BY DEF CallsRight, History
  <2> QED BY <2>1, LenProperties
<1>2. B \in Seq(Frames) /\ Len(B) = n /\ B[n] = g /\ \A j \in 1..(n - 1) : B[j] = S[j]
  BY <1>1, AdvancedIs
<1>3. f \in Frames /\ AtPlace(trees, f) /\ Listed(trees, H[n], f)
  <2>1. n \in 1..n
    BY <1>1
  <2>2. AtPlace(trees, S[n]) /\ Listed(trees, H[n], S[n])
    BY <2>1 DEF CallsRight, History
  <2> QED BY <2>2 DEF AtPlace
<1> HIDE DEF f
<1>4. /\ g \in Frames /\ g.treei = f.treei /\ g.packedi = f.packedi /\ g.node = f.node
      /\ g.i = f.i + 1 /\ f.i \in Nat
  BY <1>3, NextOf
<1>5. AtPlace(trees, g)
  <2>1. g.i \in 1..(g.node.size + 1)
    BY <1>4 DEF f
  <2> HIDE DEF g
  <2> QED BY <1>3, <1>4, <2>1 DEF AtPlace
<1> HIDE DEF g, B
<1>6. Listed(trees, H[n], g)
  BY <1>3, <1>4 DEF Listed
<1>7. /\ \A j \in 1..n : AtPlace(trees, S[j]) /\ Listed(trees, H[j], S[j])
      /\ \A j \in 1..(n - 1) : Calls(trees, S[j], S[j + 1]) /\ H[j + 1] = After(trees, H[j], S[j])
      /\ S[1].treei = 1 /\ S[1].packedi = 1 /\ S[1].node = trees[1].wd_node /\ H[1] = << << >> >>
  BY DEF CallsRight, History
<1>8. f = S[n]
  BY DEF f
<1> HIDE DEF n
<1>9. \A j \in 1..n : AtPlace(trees, B[j]) /\ Listed(trees, H[j], B[j])
  <2> SUFFICES ASSUME NEW j \in 1..n PROVE AtPlace(trees, B[j]) /\ Listed(trees, H[j], B[j])
    OBVIOUS
  <2>1. CASE j = n
    BY <1>2, <1>5, <1>6, <2>1
  <2>2. CASE j \in 1..(n - 1)
    BY <1>2, <1>7, <2>2
  <2> QED BY <1>1, <2>1, <2>2
<1>10. \A j \in 1..(n - 1) : Calls(trees, B[j], B[j + 1]) /\ H[j + 1] = After(trees, H[j], B[j])
  <2> SUFFICES ASSUME NEW j \in 1..(n - 1)
               PROVE  Calls(trees, B[j], B[j + 1]) /\ H[j + 1] = After(trees, H[j], B[j])
    OBVIOUS
  <2>1. B[j] = S[j] /\ Calls(trees, S[j], S[j + 1]) /\ H[j + 1] = After(trees, H[j], S[j])
    BY <1>2, <1>7
  <2>2. CASE j + 1 = n
    <3>1. Calls(trees, S[j], f) /\ B[j + 1] = g
      BY <1>2, <1>8, <2>1, <2>2
    <3>2. Calls(trees, S[j], g)
      BY <1>4, <3>1 DEF Calls, Follows
    <3> QED BY <2>1, <3>1, <3>2
  <2>3. CASE j + 1 \in 1..(n - 1)
    BY <1>2, <2>1, <2>3
  <2> QED BY <1>1, <2>2, <2>3
<1>11. B[1].treei = S[1].treei /\ B[1].packedi = S[1].packedi /\ B[1].node = S[1].node
  <2>1. CASE n = 1
    BY <1>2, <1>4, <1>8, <2>1
  <2>2. CASE 1 \in 1..(n - 1)
    BY <1>2, <2>2
  <2> QED BY <1>1, <2>1, <2>2
<1>12. CallsRight(trees, B)
  BY <1>1, <1>2, <1>7, <1>9, <1>10, <1>11 DEF CallsRight
<1>13. History(trees, B, H)
  BY <1>1, <1>2, <1>7, <1>9, <1>10 DEF History
<1> QED BY <1>12, <1>13 DEF B

\* The constants of a tree.
LEMMA ConstOf ==
  ASSUME NEW tree, IsTree(tree), NEW s \in 1..tree.wd_node.size, NEW i \in 1..tree.wd_node.sub[s].size
  PROVE  tree.wd_node.sub[s].sub[i] \in Consts
<1>1. PICK nodes \in NodeList : tree.wd_node = parseOpndTK(nodes)
  BY DEF IsTree
<1> DEFINE name(j) == nodes[j].name
           K == Len(nodes)
<1>2. tree.wd_node.size = K /\ \A j \in 1..K : tree.wd_node.sub[j] = Leaf(name(j)) /\ name(j) \in DOMAIN Groups
  BY <1>1, SubOf
<1>3. s \in 1..K /\ tree.wd_node.sub[s] = Leaf(name(s)) /\ name(s) \in DOMAIN Groups
  BY <1>2
<1> HIDE DEF name, K
<1>4. tree.wd_node.sub[s].size = Groups[name(s)] /\ tree.wd_node.sub[s].sub = [k \in 1..Groups[name(s)] |-> <<name(s), k>>]
  BY <1>3, LeafOf
<1>5. i \in 1..Groups[name(s)] /\ i \in Nat
  BY <1>4
<1>6. tree.wd_node.sub[s].sub[i] = <<name(s), i>>
  BY <1>4, <1>5
<1> QED BY <1>3, <1>5, <1>6 DEF Consts

\* Nodes have a number of subtrees.
LEMMA SizeOf ==
  ASSUME NEW n \in Nodes
  PROVE  n.size \in Nat /\ n.isleaf \in BOOLEAN
<1>1. CASE n \in Roots
  <2>1. PICK nodes \in NodeList : n = parseOpndTK(nodes)
    BY <1>1 DEF Roots
  <2> QED BY <2>1, SubOf
<1>2. CASE n \in {Leaf(g) : g \in DOMAIN Groups}
  <2>1. PICK g \in DOMAIN Groups : n = Leaf(g)
    BY <1>2
  <2> QED BY <2>1, LeafOf, TraverseAssumption
<1> QED BY <1>1, <1>2 DEF Nodes

\* What a leaf activation finds: the root below it, and constants with their numbers.
AtGroup(trees, e, f) ==
  LET root == trees[f.treei].wd_node
  IN /\ ~e.node.isleaf /\ e.node = root /\ e.treei = f.treei /\ e.packedi = f.packedi
     /\ e.i \in 1..root.size /\ f.node = root.sub[e.i]
     /\ \A i \in 1..f.node.size :
          LET c == f.node.sub[i]
          IN /\ c \in Consts /\ Number(trees[f.treei], c) = LeavesBefore(root, e.i) + i - 1
             /\ Number(trees[f.treei], c) \in Nat /\ Number(trees[f.treei], c) + 1 <= leaf_num(root)

\* The activations of a stack.
LEMMA FrameAt ==
  ASSUME NEW trees, AreTrees(trees), NEW S, CallsRight(trees, S), NEW j \in 1..Len(S)
  PROVE  /\ Len(S) \in Nat /\ S \in Seq(Frames) /\ S[j] \in Frames /\ AtPlace(trees, S[j])
         /\ S[j].node.size \in Nat /\ S[j].treei \in 1..Len(trees) /\ S[j].packedi \in 1..trees[S[j].treei].packedn
         /\ S[j].i \in 1..(S[j].node.size + 1) /\ S[j].node.isleaf \in BOOLEAN
         /\ ~S[j].node.isleaf => S[j].node = trees[S[j].treei].wd_node
         /\ S[j].node.isleaf => j > 1 /\ AtGroup(trees, S[j - 1], S[j])
<1>1. S \in Seq(Frames) /\ Len(S) \in Nat /\ \A k \in 1..Len(S) : AtPlace(trees, S[k])
  <2>1. S \in Seq(Frames) /\ \A k \in 1..Len(S) : AtPlace(trees, S[k])
    BY DEF CallsRight
  <2> QED BY <2>1, LenProperties
<1>2. \A k \in 1..Len(S) :
        /\ S[k] \in Frames /\ S[k].treei \in 1..Len(trees) /\ S[k].packedi \in 1..trees[S[k].treei].packedn
        /\ S[k].i \in 1..(S[k].node.size + 1)
        /\ ~S[k].node.isleaf => S[k].node = trees[S[k].treei].wd_node
  BY <1>1 DEF AtPlace
<1>3. S[j].node \in Nodes
  BY <1>2 DEF Frames
<1>4. S[j].node.size \in Nat /\ S[j].node.isleaf \in BOOLEAN
  BY <1>3, SizeOf
<1>5. ASSUME S[j].node.isleaf PROVE j > 1 /\ AtGroup(trees, S[j - 1], S[j])
  <2>1. S[1].node = trees[1].wd_node /\ \A k \in 1..(Len(S) - 1) : Calls(trees, S[k], S[k + 1])
    BY DEF CallsRight
  <2>2. \A t \in 1..Len(trees) : trees[t].wd_node.isleaf = FALSE
    <3>1. \A t \in 1..Len(trees) : IsRoot(trees[t].wd_node)
      BY TreeAt
    <3> QED BY <3>1 DEF IsRoot
  <2>3. j > 1
    <3>1. 1 \in 1..Len(trees)
      BY <1>2, TreeAt
    <3>2. j # 1
      BY <1>5, <2>1, <2>2, <3>1
    <3> QED BY <3>2
  <2> DEFINE e == S[j - 1]
             f == S[j]
             root == trees[f.treei].wd_node
  <2>4. j - 1 \in 1..(Len(S) - 1) /\ (j - 1) + 1 = j /\ j - 1 \in 1..Len(S)
    BY <1>1, <2>3
  <2>5. Calls(trees, e, f)
    <3>1. Calls(trees, S[j - 1], S[(j - 1) + 1])
      BY <2>1, <2>4
    <3> QED BY <2>4, <3>1
  <2>6. /\ f.treei \in 1..Len(trees) /\ e.i \in 1..(e.node.size + 1)
        /\ ~e.node.isleaf => e.node = trees[e.treei].wd_node
    BY <1>2, <2>4
  <2>7. e.node \in Nodes
    BY <1>2, <2>4 DEF Frames
  <2> HIDE DEF e
  <2>8. ~e.node.isleaf /\ e.i <= e.node.size /\ f.node = e.node.sub[e.i] /\ e.treei = f.treei /\ e.packedi = f.packedi
    <3> HIDE DEF f
    <3>1. f.node.isleaf
      BY <1>5 DEF f
    <3>2. ASSUME e.node.isleaf PROVE FALSE
      <4>1. f.node = trees[f.treei].wd_node
        BY <2>5, <3>2 DEF Calls, Follows
      <4> QED BY <2>2, <2>6, <3>1, <4>1
    <3>3. f.node = e.node.sub[e.i] /\ f.treei = e.treei /\ f.packedi = e.packedi /\ e.i <= e.node.size
      BY <2>5, <3>2 DEF Calls
    <3> QED BY <3>2, <3>3
  <2> HIDE DEF f
  <2>9. IsTree(trees[f.treei]) /\ IsRoot(root)
    BY <2>6, TreeAt
  <2>10. e.node = root /\ e.i \in 1..root.size /\ f.node = root.sub[e.i]
    <3>1. e.node = root
      BY <2>6, <2>8
    <3>2. root.size \in Nat
      BY <2>9 DEF IsRoot
    <3> QED BY <2>6, <2>8, <3>1, <3>2
  <2>11. /\ LeavesBefore(root, e.i) \in Nat /\ LeavesBefore(root, e.i + 1) <= leaf_num(root)
         /\ LeavesBefore(root, e.i + 1) = LeavesBefore(root, e.i) + f.node.size /\ leaf_num(root) \in Nat
         /\ f.node.size \in Nat
    <3>1. root.size \in Nat /\ f.node.size \in Nat
      BY <2>9, <2>10 DEF IsRoot
    <3>2. e.i \in 1..(root.size + 1) /\ e.i + 1 \in 1..(root.size + 1)
      BY <2>10, <3>1
    <3> HIDE DEF root
    <3> QED BY <2>9, <2>10, <3>1, <3>2, LeavesOf
  <2>12. \A i \in 1..f.node.size :
           /\ f.node.sub[i] \in Consts /\ Number(trees[f.treei], f.node.sub[i]) = LeavesBefore(root, e.i) + i - 1
           /\ Number(trees[f.treei], f.node.sub[i]) \in Nat
           /\ Number(trees[f.treei], f.node.sub[i]) + 1 <= leaf_num(root)
    <3> SUFFICES ASSUME NEW i \in 1..f.node.size
                 PROVE  /\ f.node.sub[i] \in Consts
                        /\ Number(trees[f.treei], f.node.sub[i]) = LeavesBefore(root, e.i) + i - 1
                        /\ Number(trees[f.treei], f.node.sub[i]) \in Nat
                        /\ Number(trees[f.treei], f.node.sub[i]) + 1 <= leaf_num(root)
      OBVIOUS
    <3>1. f.node.sub[i] \in Consts /\ Number(trees[f.treei], f.node.sub[i]) = LeavesBefore(root, e.i) + i - 1
      <4>1. i \in 1..root.sub[e.i].size /\ f.node.sub[i] = root.sub[e.i].sub[i]
        BY <2>10
      <4>2. f.node.sub[i] \in Consts
        BY <2>9, <2>10, <4>1, ConstOf
      <4>3. Number(trees[f.treei], f.node.sub[i]) = LeavesBefore(root, e.i) + i - 1
        BY <2>9, <2>10, <4>1, NumberOf, SMTT(30)
      <4> QED BY <4>2, <4>3
    <3> HIDE DEF root
    <3>2. LeavesBefore(root, e.i) + i - 1 \in Nat /\ LeavesBefore(root, e.i) + i - 1 + 1 <= leaf_num(root)
      BY <2>11
    <3> QED BY <3>1, <3>2
  <2> QED BY <2>3, <2>8, <2>10, <2>12 DEF AtGroup, e, f
<1> QED BY <1>1, <1>2, <1>4, <1>5

\* Multiplication by a natural keeps the order.
LEMMA TimesKeepsOrder ==
  ASSUME NEW a \in Nat, NEW b \in Nat, NEW c \in Nat, a <= b
  PROVE  a * c <= b * c /\ a * c \in Nat /\ b * c \in Nat
<1> DEFINE d == b - a
<1>1. d \in Nat /\ b = a + d
  OBVIOUS
<1> HIDE DEF d
<1>2. b * c = a * c + d * c /\ d * c \in Nat
  BY <1>1
<1> QED BY <1>2

\* Multiplication by one more.
LEMMA TimesOneMore ==
  ASSUME NEW a \in Nat, NEW c \in Nat
  PROVE  (a + 1) * c = a * c + c /\ a * c \in Nat
OBVIOUS

-----------------------------------------------------------------------------
(* Calls and returns.                                                      *)

\* The last element of a list that grew is removed again.
LEMMA RemovedLast ==
  ASSUME NEW D, NEW l \in Seq(D), NEW c \in D
  PROVE  RemoveAt(Append(l, c), Len(l) + 1) = l
<1> DEFINE n == Len(l)
           a == Append(l, c)
           x == SubSeq(a, 1, (n + 1) - 1)
           y == SubSeq(a, (n + 1) + 1, Len(a))
<1>1. n \in Nat /\ a \in Seq(D) /\ Len(a) = n + 1 /\ \A j \in 1..n : a[j] = l[j]
  BY LenProperties
<1>2. y = << >>
  <2>1. (n + 1) + 1 \in Int /\ Len(a) \in Int /\ Len(a) < (n + 1) + 1
    BY <1>1
  <2> HIDE DEF a, n
  <2> QED BY <2>1, SubSeqEmpty
<1>3. x = l
  <2>1. (n + 1) - 1 = n /\ n \in Nat /\ n <= Len(a)
    BY <1>1
  <2>2. x = SubSeq(a, 1, n)
    BY <2>1
  <2> HIDE DEF x, a
  <2>3. x = [j \in 1..n |-> a[j]]
    BY <1>1, <2>1, <2>2
  <2>4. l = [j \in 1..n |-> l[j]]
    BY <1>1, LenProperties
  <2> HIDE DEF n
  <2> QED BY <1>1, <2>3, <2>4
<1>4. RemoveAt(a, n + 1) = x \o y
  BY DEF RemoveAt
<1>5. l \o << >> = l
  OBVIOUS
<1> HIDE DEF x, y
<1> QED BY <1>2, <1>3, <1>4, <1>5 DEF a, n

\* The lists up to operand t, without constant p of this operand.
Taken(M, t, p) == [SubSeq(M, 1, t) EXCEPT ![t] = RemoveAt(@, p)]

\* Returning to a loop over leaves takes back what its call added.
LEMMA TakenBack ==
  ASSUME NEW N \in Lists, NEW t \in Nat, t >= 1, Len(N) = t, NEW c \in Consts, NEW p \in Nat, Len(N[t]) = p - 1,
         NEW M, M = Added(N, c) \/ M = Append(Added(N, c), << >>)
  PROVE  Taken(M, t, p) = N
<1> DEFINE l == N[t]
           a == Append(l, c)
           A == Added(N, c)
<1>1. N \in Seq(Seq(Consts)) /\ DOMAIN N = 1..t /\ t \in 1..t
  BY LenProperties DEF Lists
<1>2. l \in Seq(Consts)
  BY <1>1, ElementOfSeq
<1>3. a \in Seq(Consts) /\ RemoveAt(a, p) = l
  <2>1. Len(l) + 1 = p
    BY <1>2
  <2>2. RemoveAt(a, Len(l) + 1) = l
    BY <1>2, RemovedLast
  <2> QED BY <1>2, <2>1, <2>2
<1> HIDE DEF a
<1>4. A = [N EXCEPT ![t] = a]
  BY DEF Added, a
<1>5. A \in Seq(Seq(Consts)) /\ Len(A) = t /\ \A j \in 1..t : A[j] = IF j = t THEN a ELSE N[j]
  <2>1. t \in 1..Len(N) /\ Len(N) = t
    BY <1>1
  <2> HIDE DEF A
  <2> QED BY <1>1, <1>3, <1>4, <2>1, ExceptSeq
<1> HIDE DEF A
<1>6. M \in Seq(Seq(Consts)) /\ Len(M) >= t /\ \A j \in 1..t : M[j] = A[j]
  <2>1. CASE M = A
    BY <1>5, <2>1
  <2>2. CASE M = Append(A, << >>)
    BY <1>5, <2>2
  <2> QED BY <2>1, <2>2 DEF A
<1> DEFINE x == SubSeq(M, 1, t)
<1>7. x \in Seq(Seq(Consts)) /\ Len(x) = t /\ \A j \in 1..t : x[j] = M[j]
  <2>1. Len(M) \in Nat
    BY <1>6, LenProperties
  <2>2. \A j \in 1..t : j \in 1..Len(M)
    BY <1>6, <2>1
  <2>3. 1 \in Int /\ t \in Int /\ \A j \in 1..t : M[j] \in Seq(Consts)
    BY <1>6, <2>2, ElementOfSeq
  <2>4. /\ SubSeq(M, 1, t) \in Seq(Seq(Consts))
        /\ Len(SubSeq(M, 1, t)) = IF 1 <= t THEN t - 1 + 1 ELSE 0
        /\ \A j \in 1..(t - 1 + 1) : SubSeq(M, 1, t)[j] = M[1 + j - 1]
    BY <2>3, SubSeqProperties
  <2>5. t - 1 + 1 = t /\ \A j \in 1..t : 1 + j - 1 = j
    OBVIOUS
  <2> HIDE DEF x
  <2> QED BY <2>4, <2>5 DEF x
<1> HIDE DEF x
<1>8. x[t] = a /\ DOMAIN x = 1..t /\ \A j \in 1..t : x[j] = IF j = t THEN a ELSE N[j]
  BY <1>1, <1>5, <1>6, <1>7, LenProperties
<1>9. [x EXCEPT ![t] = RemoveAt(x[t], p)] = [x EXCEPT ![t] = l]
  BY <1>3, <1>8
<1> HIDE DEF l
<1>10. [x EXCEPT ![t] = l] = [j \in 1..t |-> N[j]]
  <2>1. l = N[t]
    BY DEF l
  <2> QED BY <1>8, <2>1
<1>11. N = [j \in 1..t |-> N[j]]
  <2>1. N = [j \in DOMAIN N |-> N[j]]
    BY <1>1
  <2> QED BY <1>1, <2>1
<1> QED BY <1>9, <1>10, <1>11 DEF x, Taken

\* What a loop over leaves adds for its call, and what is left to count under the call.
LEMMA CallAdds ==
  ASSUME NEW trees, AreTrees(trees), NEW f, AtPlace(trees, f), NEW N, Listed(trees, N, f),
         f.node.isleaf, NEW c \in Consts, c = f.node.sub[f.i],
         Number(trees[f.treei], c) \in Nat, Number(trees[f.treei], c) + 1 <= leaf_num(trees[f.treei].wd_node)
  PROVE  /\ Filled(trees, Added(N, c)) /\ Rank(trees, N) \in Nat /\ Behind(trees, f.treei, f.packedi) \in Nat
         /\ Rank(trees, Added(N, c)) = Rank(trees, N) + Number(trees[f.treei], c) * Behind(trees, f.treei, f.packedi)
         /\ \A g : AtPlace(trees, g) /\ Follows(trees, f, g) =>
              /\ Listed(trees, After(trees, N, f), g)
              /\ Rank(trees, After(trees, N, f)) = Rank(trees, Added(N, c))
              /\ Behind(trees, g.treei, g.packedi - 1) = Behind(trees, f.treei, f.packedi)
              /\ Unwound(After(trees, N, f), f) = N
<1> DEFINE t == f.treei
           p == f.packedi
           A == Added(N, c)
           M == After(trees, N, f)
           root == trees[t].wd_node
           num == Number(trees[t], c)
           B(q) == Behind(trees, t, q)
<1>1. /\ t \in 1..Len(trees) /\ p \in 1..trees[t].packedn /\ Len(trees) \in Nat /\ trees[t].packedn \in Nat
      /\ leaf_num(root) \in Nat
  <2>1. t \in 1..Len(trees) /\ p \in 1..trees[t].packedn
    BY DEF AtPlace
  <2> QED BY <2>1, TreeAt, LeavesOf
<1>2. /\ Filled(trees, N) /\ Len(N) = t /\ \A u \in 1..(t - 1) : Len(N[u]) = trees[u].packedn
      /\ Len(N[t]) = p - 1 /\ Rank(trees, N) + B(p - 1) <= Combinations(trees)
  BY DEF Listed
<1>3. Rank(trees, N) \in Nat
  BY <1>2, RankOf
<1>4. p \in Nat /\ p \in 0..trees[t].packedn /\ p - 1 \in 0..trees[t].packedn
  BY <1>1
<1>5. B(p) \in Nat /\ B(p - 1) \in Nat /\ B(p - 1) = leaf_num(root) * B(p)
  BY <1>1, <1>4, BehindSteps, SMTT(30)
<1>6. Filled(trees, A) /\ Rank(trees, A) = Rank(trees, N) + num * B(p)
  <2>1. Len(N[Len(N)]) < trees[Len(N)].packedn /\ Number(trees[Len(N)], c) \in Nat
    BY <1>1, <1>2
  <2>2. /\ Filled(trees, Added(N, c))
        /\ Rank(trees, Added(N, c))
              = Rank(trees, N) + Number(trees[Len(N)], c) * Behind(trees, Len(N), Len(N[Len(N)]) + 1)
    BY <1>2, <2>1, RankAdded
  <2>3. Len(N) = t /\ Len(N[Len(N)]) + 1 = p
    BY <1>1, <1>2
  <2> HIDE DEF t, p
  <2> QED BY <2>2, <2>3
<1>7. N \in Seq(Seq(Consts)) /\ t \in Nat /\ t >= 1 /\ N[t] \in Seq(Consts) /\ t \in 1..Len(N)
  <2>1. N \in Seq(Seq(Consts)) /\ t \in 1..Len(N)
    BY <1>1, <1>2 DEF Filled, Lists
  <2> HIDE DEF t
  <2> QED BY <1>1, <2>1, ElementOfSeq
<1>8. /\ A \in Seq(Seq(Consts)) /\ Len(A) = t /\ Len(A[t]) = p
      /\ \A u \in 1..(t - 1) : Len(A[u]) = trees[u].packedn
  <2> DEFINE a == Append(N[t], c)
  <2>1. A = [N EXCEPT ![t] = a]
    BY <1>2 DEF Added
  <2>2. a \in Seq(Consts) /\ Len(a) = p
    <3>1. Len(a) = Len(N[t]) + 1 /\ Len(N[t]) = p - 1
      BY <1>2, <1>7
    <3> HIDE DEF p, t
    <3> QED BY <1>4, <1>7, <3>1
  <2> HIDE DEF a, A
  <2>3. A \in Seq(Seq(Consts)) /\ Len(A) = t /\ \A j \in 1..t : A[j] = IF j = t THEN a ELSE N[j]
    BY <1>2, <1>7, <2>1, <2>2, ExceptSeq
  <2> HIDE DEF t
  <2>4. A[t] = a /\ \A u \in 1..(t - 1) : A[u] = N[u]
    <3>1. t \in 1..t /\ \A u \in 1..(t - 1) : u \in 1..t /\ u # t
      BY <1>7
    <3> QED BY <2>3, <3>1
  <2> QED BY <1>2, <2>2, <2>3, <2>4
<1>9. Rank(trees, A) + B(p) <= Combinations(trees)
  <2>1. num \in Nat /\ num + 1 \in Nat /\ num + 1 <= leaf_num(root)
    OBVIOUS
  <2> HIDE DEF num, B, A, root
  <2>2. (num + 1) * B(p) <= leaf_num(root) * B(p) /\ (num + 1) * B(p) = num * B(p) + B(p) /\ num * B(p) \in Nat
    BY <1>1, <1>5, <2>1, TimesKeepsOrder, TimesOneMore
  <2>3. Combinations(trees) \in Nat
    <3>1. 1 \in 1..(Len(trees) + 1)
      BY <1>1
    <3> QED BY <3>1, FromSteps
  <2> DEFINE x == num * B(p)
             y == B(p)
             z == leaf_num(root) * B(p)
             r == Rank(trees, N)
             s == Rank(trees, A)
  <2>4. /\ x \in Nat /\ y \in Nat /\ r \in Nat /\ x + y <= z /\ s = r + x /\ z \in Nat
        /\ r + z <= Combinations(trees)
    BY <1>2, <1>3, <1>5, <1>6, <2>2
  <2>5. s + y <= Combinations(trees)
    <3> HIDE DEF x, y, z, r, s
    <3> QED BY <2>3, <2>4
  <2> QED BY <2>5
<1>10. ASSUME NEW g, AtPlace(trees, g), Follows(trees, f, g)
       PROVE  /\ Listed(trees, M, g) /\ Rank(trees, M) = Rank(trees, A)
              /\ Behind(trees, g.treei, g.packedi - 1) = B(p) /\ Unwound(M, f) = N
  <2>1. g.treei \in 1..Len(trees)
    BY <1>10 DEF AtPlace
  <2>2. CASE p = trees[t].packedn
    <3>1. g.treei = t + 1 /\ g.packedi = 1
      BY <1>10, <2>2 DEF Follows
    <3>2. M = Append(A, << >>)
      BY <2>2 DEF After
    <3>3. t < Len(trees) /\ g.packedi - 1 = 0 /\ (t + 1) - 1 = t /\ Len(A) < Len(trees)
      BY <1>1, <1>8, <2>1, <3>1
    <3>4. Behind(trees, g.treei, g.packedi - 1) = B(p)
      BY <1>1, <2>2, <3>1, <3>3, BehindSteps
    <3> HIDE DEF A
    <3>5. Filled(trees, M) /\ Rank(trees, M) = Rank(trees, A)
      BY <1>6, <3>2, <3>3, RankOpened
    <3>6. Len(M) = t + 1 /\ Len(M[t + 1]) = 0 /\ \A u \in 1..t : M[u] = A[u]
      <4>1. << >> \in Seq(Consts) /\ Len(<< >>) = 0
        OBVIOUS
      <4> HIDE DEF M, t
      <4> QED BY <1>7, <1>8, <3>2, <4>1
    <3>7. \A u \in 1..t : Len(M[u]) = trees[u].packedn
      <4> SUFFICES ASSUME NEW u \in 1..t PROVE Len(M[u]) = trees[u].packedn
        OBVIOUS
      <4>1. M[u] = A[u]
        BY <3>6
      <4>2. u = t \/ u \in 1..(t - 1)
        BY <1>7
      <4> HIDE DEF M
      <4> QED BY <1>8, <2>2, <4>1, <4>2
    <3> HIDE DEF M, t, p
    <3>8. Listed(trees, M, g)
      BY <1>9, <3>1, <3>3, <3>4, <3>5, <3>6, <3>7 DEF Listed
    <3>9. Unwound(M, f) = N
      <4>1. Unwound(M, f) = Taken(M, t, p)
        BY DEF Unwound, Taken, t, p
      <4>2. (M = Added(N, c) \/ M = Append(Added(N, c), << >>)) /\ N \in Lists
        BY <1>7, <3>2 DEF A, Lists
      <4>3. Len(N) = t /\ Len(N[t]) = p - 1 /\ t \in Nat /\ t >= 1 /\ p \in Nat
        BY <1>2, <1>4, <1>7
      <4>4. Taken(M, t, p) = N
        BY <4>2, <4>3, TakenBack
      <4> QED BY <4>1, <4>4
    <3> QED BY <3>4, <3>5, <3>8, <3>9
  <2>3. CASE p # trees[t].packedn
    <3>1. g.treei = t /\ g.packedi = p + 1
      BY <1>10, <2>3 DEF Follows
    <3>2. M = A
      BY <2>3 DEF After
    <3>3. g.packedi - 1 = p
      BY <1>4, <3>1
    <3>4. Behind(trees, g.treei, g.packedi - 1) = B(p)
      BY <3>1, <3>3
    <3> HIDE DEF A, M, t, p
    <3>5. Listed(trees, M, g)
      BY <1>6, <1>8, <1>9, <3>1, <3>2, <3>3, <3>4 DEF Listed
    <3>6. Unwound(M, f) = N
      <4>1. Unwound(M, f) = Taken(M, t, p)
        BY DEF Unwound, Taken, t, p
      <4>2. (M = Added(N, c) \/ M = Append(Added(N, c), << >>)) /\ N \in Lists
        BY <1>7, <3>2 DEF A, Lists
      <4>3. Len(N) = t /\ Len(N[t]) = p - 1 /\ t \in Nat /\ t >= 1 /\ p \in Nat
        BY <1>2, <1>4, <1>7
      <4>4. Taken(M, t, p) = N
        BY <4>2, <4>3, TakenBack
      <4> QED BY <4>1, <4>4
    <3> QED BY <3>2, <3>4, <3>5, <3>6
  <2> QED BY <2>2, <2>3
<1> QED BY <1>3, <1>5, <1>6, <1>10

-----------------------------------------------------------------------------
(* The count of a traversal.                                               *)

\* The constants of its element that the last activation has finished.
Digits(trees, S) ==
  LET f == S[Len(S)]
      root == trees[f.treei].wd_node
  IN IF f.node.isleaf THEN LeavesBefore(root, S[Len(S) - 1].i) + f.i - 1 ELSE LeavesBefore(root, f.i)

\* The combinations that are finished: those before the lists, and those of the
\* finished constants.
Count(trees, S, N) ==
  Rank(trees, N) + Digits(trees, S) * Behind(trees, S[Len(S)].treei, S[Len(S)].packedi)

Walking(trees, S, N, n) ==
  /\ CallsRight(trees, S)
  /\ \E H : History(trees, S, H) /\ H[Len(S)] = N
  /\ n = Count(trees, S, N)

\* The constants finished under the last activation.
LEMMA DigitsOf ==
  ASSUME NEW trees, AreTrees(trees), NEW S, CallsRight(trees, S)
  PROVE  LET f == S[Len(S)]
             root == trees[f.treei].wd_node
         IN /\ Digits(trees, S) \in Nat /\ Digits(trees, S) <= leaf_num(root) /\ leaf_num(root) \in Nat
            /\ ~f.node.isleaf => Digits(trees, S) = LeavesBefore(root, f.i)
            /\ f.node.isleaf => Digits(trees, S) = LeavesBefore(root, S[Len(S) - 1].i) + f.i - 1
            /\ f.node.isleaf /\ f.i <= f.node.size
                 => Digits(trees, S) = Number(trees[f.treei], f.node.sub[f.i])
<1> DEFINE n == Len(S)
           f == S[n]
           e == S[n - 1]
           root == trees[f.treei].wd_node
<1>1. n \in 1..n
  <2>1. S \in Seq(Frames) /\ n >= 1
    BY DEF CallsRight
  <2> QED BY <2>1, LenProperties
<1>2. /\ f.node.size \in Nat /\ f.treei \in 1..Len(trees) /\ f.i \in 1..(f.node.size + 1)
      /\ f.node.isleaf \in BOOLEAN
      /\ ~f.node.isleaf => f.node = root
      /\ f.node.isleaf => AtGroup(trees, e, f)
  BY <1>1, FrameAt
<1>3. IsRoot(root)
  BY <1>2, TreeAt
<1>4. /\ ~f.node.isleaf => Digits(trees, S) = LeavesBefore(root, f.i)
      /\ f.node.isleaf => Digits(trees, S) = LeavesBefore(root, e.i) + f.i - 1
  BY <1>2 DEF Digits
<1> HIDE DEF e, f, n
<1>5. leaf_num(root) \in Nat
  BY <1>3, LeavesOf
<1>6. CASE ~f.node.isleaf
  <2>1. f.i \in 1..(root.size + 1)
    BY <1>2, <1>6
  <2>2. LeavesBefore(root, f.i) \in Nat /\ LeavesBefore(root, f.i) <= leaf_num(root)
    BY <1>3, <2>1, LeavesOf
  <2> QED BY <1>4, <1>5, <1>6, <2>2 DEF e, f, n
<1>7. CASE f.node.isleaf
  <2>1. AtGroup(trees, e, f)
    BY <1>2, <1>7
  <2>2. e.i \in 1..root.size /\ f.node = root.sub[e.i]
    BY <2>1 DEF AtGroup
  <2>3. root.size \in Nat
    BY <1>3 DEF IsRoot
  <2>4. e.i \in 1..(root.size + 1) /\ e.i + 1 \in 1..(root.size + 1)
    BY <2>2, <2>3
  <2>5. /\ LeavesBefore(root, e.i) \in Nat /\ LeavesBefore(root, e.i + 1) <= leaf_num(root)
        /\ LeavesBefore(root, e.i + 1) = LeavesBefore(root, e.i) + f.node.size
    <3> HIDE DEF root
    <3> QED BY <1>3, <2>2, <2>4, LeavesOf
  <2>6. \A i \in 1..f.node.size : Number(trees[f.treei], f.node.sub[i]) = LeavesBefore(root, e.i) + i - 1
    BY <2>1 DEF AtGroup
  <2>7. f.i <= f.node.size => Digits(trees, S) = Number(trees[f.treei], f.node.sub[f.i])
    <3> HIDE DEF root
    <3>1. f.i <= f.node.size => f.i \in 1..f.node.size
      BY <1>2
    <3> QED BY <1>4, <1>7, <2>6, <3>1
  <2>8. Digits(trees, S) \in Nat /\ Digits(trees, S) <= leaf_num(root)
    <3> HIDE DEF root
    <3> QED BY <1>2, <1>4, <1>5, <1>7, <2>5
  <2> QED BY <1>4, <1>5, <1>7, <2>7, <2>8 DEF e, f, n
<1> QED BY <1>2, <1>6, <1>7

\* The count is a number, and not more than there are combinations.
LEMMA Bounded ==
  ASSUME NEW trees, AreTrees(trees), NEW S, NEW N, NEW n, Walking(trees, S, N, n)
  PROVE  n \in Nat /\ n <= Combinations(trees) /\ Combinations(trees) \in Nat /\ Rank(trees, N) \in Nat
         /\ Listed(trees, N, S[Len(S)])
<1>1. PICK H : History(trees, S, H) /\ H[Len(S)] = N
  BY DEF Walking
<1> DEFINE f == S[Len(S)]
           root == trees[f.treei].wd_node
<1>2. CallsRight(trees, S) /\ n = Count(trees, S, N)
  BY DEF Walking
<1>3. Len(S) \in 1..Len(S)
  <2>1. S \in Seq(Frames) /\ Len(S) >= 1
    BY <1>2 DEF CallsRight
  <2> QED BY <2>1, LenProperties
<1>4. Listed(trees, N, f)
  BY <1>1, <1>3 DEF History
<1>5. f.treei \in 1..Len(trees) /\ f.packedi \in 1..trees[f.treei].packedn
  BY <1>2, <1>3, FrameAt
<1> DEFINE d == Digits(trees, S)
           l == leaf_num(root)
           b == Behind(trees, f.treei, f.packedi)
           r == Rank(trees, N)
           c == Combinations(trees)
<1>6. d \in Nat /\ l \in Nat /\ d <= l
  BY <1>2, DigitsOf
<1>7. b \in Nat /\ Behind(trees, f.treei, f.packedi - 1) = l * b
  <2>1. trees[f.treei].packedn \in Nat
    BY <1>5, TreeAt
  <2>2. f.packedi \in 0..trees[f.treei].packedn
    BY <1>5, <2>1
  <2> HIDE DEF f
  <2> QED BY <1>5, <2>2, BehindSteps
<1>8. r \in Nat
  <2>1. Filled(trees, N)
    BY <1>4 DEF Listed
  <2> QED BY <2>1, RankOf
<1>9. c \in Nat
  <2>1. 1 \in 1..(Len(trees) + 1)
    BY TreeAt
  <2> QED BY <2>1, FromSteps
<1>10. r + l * b <= c
  BY <1>4, <1>7 DEF Listed
<1>11. n = r + d * b
  BY <1>2 DEF Count
<1>12. d * b <= l * b /\ d * b \in Nat /\ l * b \in Nat
  <2> HIDE DEF d, l, b
  <2> QED BY <1>6, <1>7, TimesKeepsOrder
<1>13. n \in Nat /\ n <= c
  <2> DEFINE x == d * b
             y == l * b
  <2>1. x \in Nat /\ y \in Nat /\ x <= y /\ n = r + x /\ r + y <= c
    BY <1>10, <1>11, <1>12
  <2> HIDE DEF x, y, r, c
  <2> QED BY <1>8, <1>9, <2>1
<1> QED BY <1>4, <1>8, <1>9, <1>13

\* A root calls a leaf.
LEMMA WalkIntoSubtree ==
  ASSUME NEW trees, AreTrees(trees), NEW S, NEW N, NEW n, Walking(trees, S, N, n),
         S[Len(S)].i <= S[Len(S)].node.size, ~S[Len(S)].node.isleaf
  PROVE  LET f == S[Len(S)]
         IN Walking(trees, Append(S, Frame(f.treei, f.packedi, f.node.sub[f.i])), N, n)
<1> DEFINE m == Len(S)
           f == S[m]
           g == Frame(f.treei, f.packedi, f.node.sub[f.i])
           B == Append(S, g)
<1>1. PICK H : History(trees, S, H) /\ H[m] = N
  BY DEF Walking
<1>2. CallsRight(trees, S) /\ n = Count(trees, S, N)
  BY DEF Walking
<1>3. m \in 1..m /\ m \in Nat /\ S \in Seq(Frames)
  <2>1. S \in Seq(Frames) /\ m >= 1
    BY <1>2 DEF CallsRight
  <2> QED BY <2>1, LenProperties
<1>4. /\ f \in Frames /\ AtPlace(trees, f) /\ f.treei \in 1..Len(trees) /\ f.packedi \in 1..trees[f.treei].packedn
      /\ f.i \in 1..f.node.size /\ f.node = trees[f.treei].wd_node /\ f.node.size \in Nat /\ Listed(trees, N, f)
  <2>1. /\ f \in Frames /\ AtPlace(trees, f) /\ f.treei \in 1..Len(trees) /\ f.packedi \in 1..trees[f.treei].packedn
        /\ f.i \in 1..(f.node.size + 1) /\ f.node = trees[f.treei].wd_node /\ f.node.size \in Nat
    BY <1>2, <1>3, FrameAt
  <2>2. f.i \in 1..f.node.size
    BY <2>1
  <2> QED BY <1>1, <1>3, <2>1, <2>2 DEF History
<1>5. ~f.node.isleaf /\ f = S[m]
  OBVIOUS
<1> HIDE DEF f
<1>6. /\ g.treei = f.treei /\ g.packedi = f.packedi /\ g.node = f.node.sub[f.i] /\ g.i = 1
      /\ g = [treei |-> f.treei, packedi |-> f.packedi, node |-> f.node.sub[f.i], i |-> 1]
  BY DEF Frame
<1>7. f.node.sub[f.i] \in Nodes /\ f.node.sub[f.i].isleaf = TRUE /\ f.node.sub[f.i].size \in Nat
  <2>1. IsTree(trees[f.treei]) /\ IsRoot(trees[f.treei].wd_node)
    BY <1>4, TreeAt
  <2>2. PICK nodes \in NodeList : f.node = parseOpndTK(nodes)
    BY <1>4, <2>1 DEF IsTree
  <2>3. /\ f.node.size = Len(nodes)
        /\ \A j \in 1..Len(nodes) : f.node.sub[j] = Leaf(nodes[j].name) /\ nodes[j].name \in DOMAIN Groups
    BY <2>2, SubOf
  <2>4. f.node.sub[f.i] \in Nodes
    BY <1>4, <2>3 DEF Nodes
  <2> QED BY <1>4, <2>1, <2>4 DEF IsRoot
<1>8. AtPlace(trees, g)
  <2>1. f.treei \in Nat /\ f.packedi \in Nat /\ 1 \in Nat
    BY <1>4 DEF Frames
  <2>2. g \in Frames
    BY <1>6, <1>7, <2>1 DEF Frames
  <2>3. g.i \in 1..(g.node.size + 1) /\ g.node.isleaf
    BY <1>6, <1>7
  <2> HIDE DEF g
  <2> QED BY <1>4, <1>6, <2>2, <2>3 DEF AtPlace
<1> HIDE DEF g
<1>9. Calls(trees, f, g)
  BY <1>4, <1>5, <1>6 DEF Calls
<1>10. After(trees, N, f) = N
  BY <1>5 DEF After
<1>11. Listed(trees, N, g)
  BY <1>4, <1>6 DEF Listed
<1>12. CallsRight(trees, B) /\ History(trees, B, Append(H, N))
  BY <1>1, <1>2, <1>5, <1>8, <1>9, <1>10, <1>11, Called
<1>13. Len(B) = m + 1 /\ B[m + 1] = g /\ B[m] = f /\ (m + 1) - 1 = m
  <2>1. g \in Frames
    BY <1>8 DEF AtPlace
  <2> QED BY <1>3, <1>5, <2>1
<1>14. Append(H, N)[Len(B)] = N
  <2>1. H \in Seq(Lists) /\ Len(H) = m
    BY <1>1 DEF History
  <2> HIDE DEF m, B
  <2> QED BY <1>3, <1>13, <2>1
<1> HIDE DEF B, m
<1>15. Digits(trees, B) = Digits(trees, S)
  <2>1. Digits(trees, S) = LeavesBefore(trees[f.treei].wd_node, f.i)
    BY <1>5 DEF Digits, m
  <2>2. Digits(trees, B) = LeavesBefore(trees[f.treei].wd_node, f.i) + 1 - 1
    BY <1>6, <1>7, <1>13 DEF Digits
  <2>3. LeavesBefore(trees[f.treei].wd_node, f.i) \in Nat
    BY <1>2, <2>1, DigitsOf
  <2> QED BY <2>1, <2>2, <2>3
<1>16. Count(trees, B, N) = Count(trees, S, N)
  BY <1>5, <1>6, <1>13, <1>15 DEF Count, m
<1> QED BY <1>2, <1>12, <1>14, <1>16 DEF Walking, B, g, f, m

\* The lists of an activation over a leaf: the constant its loop is at.
LEMMA AtConst ==
  ASSUME NEW trees, AreTrees(trees), NEW S, NEW N, NEW n, Walking(trees, S, N, n),
         S[Len(S)].i <= S[Len(S)].node.size, S[Len(S)].node.isleaf
  PROVE  LET f == S[Len(S)]
             c == f.node.sub[f.i]
         IN /\ AtPlace(trees, f) /\ Listed(trees, N, f) /\ c \in Consts
            /\ Number(trees[f.treei], c) \in Nat /\ Number(trees[f.treei], c) + 1 <= leaf_num(trees[f.treei].wd_node)
            /\ Filled(trees, Added(N, c)) /\ Rank(trees, Added(N, c)) = n
            /\ n = Rank(trees, N) + Number(trees[f.treei], c) * Behind(trees, f.treei, f.packedi)
            /\ Digits(trees, S) = Number(trees[f.treei], c)
<1> DEFINE m == Len(S)
           f == S[m]
           c == f.node.sub[f.i]
<1>1. CallsRight(trees, S) /\ n = Count(trees, S, N)
  BY DEF Walking
<1>2. m \in 1..m /\ m \in Nat
  <2>1. S \in Seq(Frames) /\ m >= 1
    BY <1>1 DEF CallsRight
  <2> QED BY <2>1, LenProperties
<1>3. AtPlace(trees, f) /\ AtGroup(trees, S[m - 1], f) /\ f.i \in 1..f.node.size
  <2>1. AtPlace(trees, f) /\ AtGroup(trees, S[m - 1], f) /\ f.i \in 1..(f.node.size + 1) /\ f.node.size \in Nat
    BY <1>1, <1>2, FrameAt
  <2> QED BY <2>1
<1>4. Listed(trees, N, f)
  BY Bounded
<1>5. Digits(trees, S) = Number(trees[f.treei], c)
  BY <1>1, DigitsOf
<1>6. n = Rank(trees, N) + Number(trees[f.treei], c) * Behind(trees, f.treei, f.packedi)
  BY <1>1, <1>5 DEF Count
<1>7. f.node.isleaf
  OBVIOUS
<1> HIDE DEF f
<1>8. /\ c \in Consts /\ Number(trees[f.treei], c) \in Nat
      /\ Number(trees[f.treei], c) + 1 <= leaf_num(trees[f.treei].wd_node)
  BY <1>3 DEF AtGroup
<1>9. /\ Filled(trees, Added(N, c))
      /\ Rank(trees, Added(N, c)) = Rank(trees, N) + Number(trees[f.treei], c) * Behind(trees, f.treei, f.packedi)
  <2> HIDE DEF c
  <2>1. c = f.node.sub[f.i]
    BY DEF c
  <2> QED BY <1>3, <1>4, <1>7, <1>8, <2>1, CallAdds
<1> QED BY <1>3, <1>4, <1>5, <1>6, <1>8, <1>9 DEF f, m

\* A leaf calls the root of the next element.
LEMMA WalkNext ==
  ASSUME NEW trees, AreTrees(trees), NEW S, NEW N, NEW n, Walking(trees, S, N, n),
         S[Len(S)].i <= S[Len(S)].node.size, S[Len(S)].node.isleaf,
         NEW t \in 1..Len(trees), NEW p \in 1..trees[t].packedn,
         Follows(trees, S[Len(S)], Frame(t, p, trees[t].wd_node))
  PROVE  Walking(trees, Append(S, Frame(t, p, trees[t].wd_node)), After(trees, N, S[Len(S)]), n)
<1> DEFINE m == Len(S)
           f == S[m]
           c == f.node.sub[f.i]
           root == trees[t].wd_node
           g == Frame(t, p, root)
           B == Append(S, g)
           M == After(trees, N, f)
<1>1. PICK H : History(trees, S, H) /\ H[m] = N
  BY DEF Walking
<1>2. CallsRight(trees, S)
  BY DEF Walking
<1>3. m \in 1..m /\ m \in Nat /\ S \in Seq(Frames)
  <2>1. S \in Seq(Frames) /\ m >= 1
    BY <1>2 DEF CallsRight
  <2> QED BY <2>1, LenProperties
<1>4. /\ AtPlace(trees, f) /\ Listed(trees, N, f) /\ c \in Consts
      /\ Number(trees[f.treei], c) \in Nat /\ Number(trees[f.treei], c) + 1 <= leaf_num(trees[f.treei].wd_node)
      /\ Rank(trees, Added(N, c)) = n
  BY AtConst
<1>5. f.node.isleaf /\ f.i <= f.node.size /\ Follows(trees, f, g) /\ c = f.node.sub[f.i]
  OBVIOUS
<1>6. IsTree(trees[t]) /\ IsRoot(root) /\ trees[t].packedn \in Nat /\ Len(trees) \in Nat
  BY TreeAt
<1>7. /\ g = [treei |-> t, packedi |-> p, node |-> root, i |-> 1]
      /\ g.treei = t /\ g.packedi = p /\ g.node = root /\ g.i = 1
  BY DEF Frame
<1>8. AtPlace(trees, g)
  <2>1. root \in Roots
    <3>1. PICK nodes \in NodeList : trees[t].wd_node = parseOpndTK(nodes) /\ Distinct(nodes)
      BY <1>6 DEF IsTree
    <3> QED BY <3>1 DEF Roots
  <2>2. root \in Nodes /\ t \in Nat /\ p \in Nat /\ 1 \in Nat
    BY <1>6, <2>1 DEF Nodes
  <2>3. root.size \in Nat
    BY <1>6 DEF IsRoot
  <2> HIDE DEF root
  <2>4. g \in Frames
    BY <1>7, <2>2 DEF Frames
  <2>5. g.i \in 1..(g.node.size + 1)
    BY <1>7, <2>3
  <2> HIDE DEF g
  <2> QED BY <1>7, <2>4, <2>5 DEF AtPlace, root
<1> HIDE DEF f, c
<1>9. Listed(trees, M, g) /\ Rank(trees, M) = n
  <2> HIDE DEF g
  <2> QED BY <1>4, <1>5, <1>8, CallAdds
<1>10. Calls(trees, f, g)
  BY <1>5, <1>7 DEF Calls
<1> HIDE DEF g
<1>11. CallsRight(trees, B) /\ History(trees, B, Append(H, M))
  <2>1. f = S[m] /\ M = After(trees, H[m], S[m])
    BY <1>1 DEF f
  <2> HIDE DEF M
  <2> QED BY <1>1, <1>2, <1>8, <1>9, <1>10, <2>1, Called
<1>12. Len(B) = m + 1 /\ B[m + 1] = g
  <2>1. g \in Frames
    BY <1>8 DEF AtPlace
  <2> QED BY <1>3, <2>1
<1>13. Append(H, M)[Len(B)] = M
  <2>1. H \in Seq(Lists) /\ Len(H) = m
    BY <1>1 DEF History
  <2> HIDE DEF m, B, M
  <2> QED BY <1>3, <1>12, <2>1
<1> HIDE DEF B, m, M
<1>14. Digits(trees, B) = 0
  <2>1. ~root.isleaf
    BY <1>6 DEF IsRoot
  <2>2. Digits(trees, B) = LeavesBefore(root, 1)
    BY <1>7, <1>12, <2>1 DEF Digits
  <2> HIDE DEF root
  <2> QED BY <1>6, <2>2, LeavesOf
<1>15. Behind(trees, t, p) \in Nat
  <2>1. p \in 0..trees[t].packedn
    BY <1>6
  <2> QED BY <2>1, BehindSteps
<1>16. Count(trees, B, M) = n
  <2>1. Count(trees, B, M) = n + 0 * Behind(trees, t, p)
    BY <1>7, <1>9, <1>12, <1>14 DEF Count
  <2>2. n \in Nat
    BY Bounded
  <2> QED BY <1>15, <2>1, <2>2
<1> QED BY <1>11, <1>13, <1>16 DEF Walking, B, M, g, f, m

\* The last element of the last operand completes a combination.
LEMMA WalkComplete ==
  ASSUME NEW trees, AreTrees(trees), NEW S, NEW N, NEW n, Walking(trees, S, N, n),
         S[Len(S)].i <= S[Len(S)].node.size, S[Len(S)].node.isleaf,
         S[Len(S)].treei = Len(trees), S[Len(S)].packedi = trees[S[Len(S)].treei].packedn
  PROVE  Walking(trees, Advanced(S), N, n + 1)
<1> DEFINE m == Len(S)
           f == S[m]
           B == Advanced(S)
           g == [f EXCEPT !.i = @ + 1]
<1>1. PICK H : History(trees, S, H) /\ H[m] = N
  BY DEF Walking
<1>2. CallsRight(trees, S) /\ n = Count(trees, S, N)
  BY DEF Walking
<1>3. m \in 1..m /\ m \in Nat /\ S \in Seq(Frames) /\ m >= 1
  <2>1. S \in Seq(Frames) /\ m >= 1
    BY <1>2 DEF CallsRight
  <2> QED BY <2>1, LenProperties
<1>4. f \in Frames /\ f.node.size \in Nat /\ f.treei \in 1..Len(trees) /\ AtGroup(trees, S[m - 1], f)
  BY <1>2, <1>3, FrameAt
<1>5. CallsRight(trees, B) /\ History(trees, B, H)
  BY <1>1, <1>2, <1>4, WentOn
<1>6. Len(B) = m /\ B[m] = g /\ \A j \in 1..(m - 1) : B[j] = S[j]
  BY <1>3, AdvancedIs
<1>7. f.node.isleaf /\ f.treei = Len(trees) /\ f.packedi = trees[f.treei].packedn /\ f.i <= f.node.size
  OBVIOUS
<1> HIDE DEF f
<1>8. g.treei = f.treei /\ g.packedi = f.packedi /\ g.node = f.node /\ g.i = f.i + 1 /\ f.i \in Nat
  BY <1>4, NextOf
<1> HIDE DEF g, B
<1>9. Behind(trees, f.treei, f.packedi) = 1
  BY <1>4, <1>7, BehindSteps
<1>10. B[m - 1] = S[m - 1]
  <2>1. m > 1
    BY <1>2, <1>3, <1>7, FrameAt DEF f
  <2>2. m - 1 \in 1..(m - 1)
    BY <1>3, <2>1
  <2> HIDE DEF m
  <2> QED BY <1>6, <2>2
<1>11. Digits(trees, B) = Digits(trees, S) + 1 /\ Digits(trees, S) \in Nat
  <2> DEFINE l == LeavesBefore(trees[f.treei].wd_node, S[m - 1].i)
  <2>1. Digits(trees, S) = l + f.i - 1
    BY <1>7 DEF Digits, f
  <2>2. Digits(trees, B) = l + (f.i + 1) - 1
    BY <1>6, <1>7, <1>8, <1>10 DEF Digits
  <2>3. l \in Nat
    <3>1. trees[f.treei].wd_node = S[m - 1].node /\ S[m - 1].i \in 1..trees[f.treei].wd_node.size
      BY <1>4 DEF AtGroup
    <3>2. IsRoot(trees[f.treei].wd_node) /\ trees[f.treei].wd_node.size \in Nat
      <4>1. IsRoot(trees[f.treei].wd_node)
        BY <1>4, TreeAt
      <4> QED BY <4>1 DEF IsRoot
    <3>3. S[m - 1].i \in 1..(trees[f.treei].wd_node.size + 1)
      BY <3>1, <3>2
    <3> QED BY <3>2, <3>3, LeavesOf
  <2>4. Digits(trees, S) \in Nat
    BY <1>2, DigitsOf
  <2> HIDE DEF l
  <2> QED BY <1>8, <2>1, <2>2, <2>3, <2>4
<1>12. Count(trees, B, N) = n + 1
  <2>1. Rank(trees, N) \in Nat
    BY Bounded
  <2>2. n = Rank(trees, N) + Digits(trees, S) * 1
    BY <1>2, <1>9 DEF Count, f
  <2>3. Count(trees, B, N) = Rank(trees, N) + Digits(trees, B) * 1
    BY <1>6, <1>8, <1>9 DEF Count
  <2> QED BY <1>11, <2>1, <2>2, <2>3
<1>13. H[Len(B)] = N
  BY <1>1, <1>6
<1>14. n + 1 = Count(trees, B, N)
  BY <1>12
<1> QED BY <1>5, <1>13, <1>14 DEF Walking, B

\* A leaf returns to its root.
LEMMA WalkReturnLeaf ==
  ASSUME NEW trees, AreTrees(trees), NEW S, NEW N, NEW n, Walking(trees, S, N, n),
         S[Len(S)].i > S[Len(S)].node.size, S[Len(S)].node.isleaf
  PROVE  /\ Len(S) > 1 /\ Front(S) # << >> /\ Last(Front(S)) = S[Len(S) - 1] /\ ~S[Len(S) - 1].node.isleaf
         /\ Walking(trees, Advanced(Front(S)), N, n)
<1> DEFINE m == Len(S)
           f == S[m]
           e == S[m - 1]
           F == Front(S)
           B == Advanced(F)
           g == [e EXCEPT !.i = @ + 1]
           root == trees[f.treei].wd_node
<1>1. PICK H : History(trees, S, H) /\ H[m] = N
  BY DEF Walking
<1>2. CallsRight(trees, S) /\ n = Count(trees, S, N)
  BY DEF Walking
<1>3. m \in 1..m /\ m \in Nat /\ S \in Seq(Frames) /\ m >= 1 /\ H \in Seq(Lists) /\ Len(H) = m
  <2>1. S \in Seq(Frames) /\ m >= 1 /\ H \in Seq(Lists) /\ Len(H) = m
    BY <1>1, <1>2 DEF CallsRight, History
  <2> QED BY <2>1, LenProperties
<1>4. /\ f.node.size \in Nat /\ f.treei \in 1..Len(trees) /\ AtGroup(trees, e, f) /\ m > 1
      /\ f.i \in 1..(f.node.size + 1) /\ f.node.isleaf /\ f.i > f.node.size
  BY <1>2, <1>3, FrameAt
<1>5. m - 1 \in 1..m /\ m - 1 \in 1..(m - 1) /\ (m - 1) + 1 = m /\ m - 1 >= 1
  BY <1>3, <1>4
<1>6. e \in Frames
  BY <1>2, <1>5, FrameAt
<1>7. CallsRight(trees, F) /\ History(trees, F, Front(H))
  BY <1>1, <1>2, <1>4, Returned
<1>8. F \in Seq(Frames) /\ Len(F) = m - 1 /\ \A j \in 1..(m - 1) : F[j] = S[j]
  BY <1>3, FrontIs
<1>9. Front(H)[m - 1] = H[m - 1]
  BY <1>3, <1>5, FrontIs
<1>10. IsRoot(root)
  BY <1>4, TreeAt
<1>11. /\ ~e.node.isleaf /\ e.node = root /\ e.treei = f.treei /\ e.packedi = f.packedi
       /\ e.i \in 1..root.size /\ f.node = root.sub[e.i] /\ root.size \in Nat
  BY <1>4, <1>10 DEF AtGroup, IsRoot
<1> HIDE DEF F
<1>12. F[m - 1] = e
  <2> HIDE DEF m
  <2> QED BY <1>5, <1>8 DEF e
<1>13. H[m - 1] = N
  <2>1. \A j \in 1..(m - 1) : H[j + 1] = After(trees, H[j], S[j])
    BY <1>1 DEF History
  <2> HIDE DEF m
  <2>2. H[(m - 1) + 1] = After(trees, H[m - 1], S[m - 1])
    BY <1>5, <2>1
  <2>3. H[m] = After(trees, H[m - 1], e)
    BY <1>5, <2>2 DEF e
  <2> QED BY <1>1, <1>11, <2>3 DEF After
<1>14. CallsRight(trees, B) /\ History(trees, B, Front(H))
  <2>1. F[Len(F)].i <= F[Len(F)].node.size /\ F[Len(F)].node.size \in Nat
    <3> HIDE DEF e, root
    <3>1. e.i <= e.node.size /\ e.node.size \in Nat
      BY <1>11
    <3> QED BY <1>8, <1>12, <3>1
  <2> QED BY <1>7, <2>1, WentOn
<1>15. Len(B) = m - 1 /\ B[m - 1] = g
  <2>1. Len(F) >= 1
    BY <1>5, <1>8
  <2>2. Len(B) = Len(F) /\ B[Len(F)] = [F[Len(F)] EXCEPT !.i = @ + 1]
    BY <1>8, <2>1, AdvancedIs
  <2>3. [F[Len(F)] EXCEPT !.i = @ + 1] = g
    BY <1>8, <1>12
  <2> HIDE DEF g, B
  <2> QED BY <1>8, <2>2, <2>3
<1> HIDE DEF e
<1>16. g.treei = e.treei /\ g.packedi = e.packedi /\ g.node = e.node /\ g.i = e.i + 1
  BY <1>6, NextOf
<1> HIDE DEF g, B
<1>17. Digits(trees, B) = Digits(trees, S)
  <2>1. Digits(trees, S) = LeavesBefore(root, e.i) + f.i - 1
    BY <1>2, <1>4, DigitsOf DEF e
  <2>2. Digits(trees, B) = LeavesBefore(root, e.i + 1)
    BY <1>11, <1>15, <1>16 DEF Digits
  <2> HIDE DEF root, f
  <2>3. e.i \in 1..(root.size + 1)
    BY <1>11
  <2>4. LeavesBefore(root, e.i + 1) = LeavesBefore(root, e.i) + f.node.size /\ LeavesBefore(root, e.i) \in Nat
    BY <1>10, <1>11, <2>3, LeavesOf
  <2>5. f.i = f.node.size + 1
    BY <1>4
  <2> QED BY <1>4, <2>1, <2>2, <2>4, <2>5
<1>18. Count(trees, B, N) = n
  BY <1>2, <1>11, <1>15, <1>16, <1>17 DEF Count
<1>19. Front(H)[Len(B)] = N
  BY <1>9, <1>13, <1>15
<1>20. F # << >> /\ Last(F) = e
  <2>1. F # << >>
    BY <1>5, <1>8
  <2> QED BY <1>8, <1>12, <2>1 DEF Last
<1> QED BY <1>4, <1>11, <1>14, <1>18, <1>19, <1>20 DEF Walking, B, F, e

\* A root returns to the leaf that called it, which takes its constant back.
LEMMA WalkReturnRoot ==
  ASSUME NEW trees, AreTrees(trees), NEW S, NEW N, NEW n, Walking(trees, S, N, n),
         S[Len(S)].i > S[Len(S)].node.size, ~S[Len(S)].node.isleaf, Len(S) > 1
  PROVE  /\ Front(S) # << >> /\ Last(Front(S)) = S[Len(S) - 1]
         /\ Walking(trees, Advanced(Front(S)), Unwound(N, S[Len(S) - 1]), n)
<1> DEFINE m == Len(S)
           g == S[m]
           f == S[m - 1]
           F == Front(S)
           B == Advanced(F)
           h == [f EXCEPT !.i = @ + 1]
           c == f.node.sub[f.i]
           root == trees[g.treei].wd_node
<1>1. PICK H : History(trees, S, H) /\ H[m] = N
  BY DEF Walking
<1>2. CallsRight(trees, S) /\ n = Count(trees, S, N)
  BY DEF Walking
<1>3. m \in 1..m /\ m \in Nat /\ S \in Seq(Frames) /\ m >= 1 /\ H \in Seq(Lists) /\ Len(H) = m
  <2>1. S \in Seq(Frames) /\ m >= 1 /\ H \in Seq(Lists) /\ Len(H) = m
    BY <1>1, <1>2 DEF CallsRight, History
  <2> QED BY <2>1, LenProperties
<1>4. m - 1 \in 1..m /\ m - 1 \in 1..(m - 1) /\ (m - 1) + 1 = m /\ m - 1 >= 1
  BY <1>3
<1>5. /\ g.node.size \in Nat /\ g.treei \in 1..Len(trees) /\ g.packedi \in 1..trees[g.treei].packedn
      /\ AtPlace(trees, g) /\ g.i \in 1..(g.node.size + 1) /\ g.node = root /\ g.i > g.node.size /\ ~g.node.isleaf
  BY <1>2, <1>3, FrameAt
<1>6. /\ f \in Frames /\ AtPlace(trees, f) /\ f.node.size \in Nat /\ f.treei \in 1..Len(trees)
      /\ f.packedi \in 1..trees[f.treei].packedn /\ f.i \in 1..(f.node.size + 1) /\ f.node.isleaf \in BOOLEAN
  BY <1>2, <1>4, FrameAt
<1>7. ~f.node.isleaf => f.node = trees[f.treei].wd_node
  BY <1>2, <1>4, FrameAt
<1>8. f.node.isleaf => AtGroup(trees, S[(m - 1) - 1], f)
  BY <1>2, <1>4, FrameAt
<1>9. Calls(trees, f, g)
  <2>1. \A j \in 1..(m - 1) : Calls(trees, S[j], S[j + 1])
    BY <1>2 DEF CallsRight
  <2>2. Calls(trees, S[m - 1], S[(m - 1) + 1])
    <3> HIDE DEF m
    <3> QED BY <1>4, <2>1
  <2> QED BY <1>4, <2>2
<1>10. N = After(trees, H[m - 1], f) /\ Listed(trees, H[m - 1], f)
  <2>1. /\ \A j \in 1..(m - 1) : H[j + 1] = After(trees, H[j], S[j])
        /\ \A j \in 1..m : Listed(trees, H[j], S[j])
    BY <1>1 DEF History
  <2>2. H[(m - 1) + 1] = After(trees, H[m - 1], S[m - 1]) /\ Listed(trees, H[m - 1], S[m - 1])
    <3> HIDE DEF m
    <3> QED BY <1>4, <2>1
  <2> QED BY <1>1, <1>4, <2>2
<1>11. CallsRight(trees, F) /\ History(trees, F, Front(H))
  BY <1>1, <1>2, Returned
<1>12. F \in Seq(Frames) /\ Len(F) = m - 1 /\ \A j \in 1..(m - 1) : F[j] = S[j]
  BY <1>3, FrontIs
<1>13. Front(H)[m - 1] = H[m - 1]
  BY <1>3, <1>4, FrontIs
<1> HIDE DEF F
<1>14. F[m - 1] = f
  <2> HIDE DEF m
  <2> QED BY <1>4, <1>12 DEF f
<1>15. Digits(trees, S) = leaf_num(root)
  <2>1. Digits(trees, S) = LeavesBefore(root, g.i)
    BY <1>5 DEF Digits
  <2>2. g.i = root.size + 1
    BY <1>5
  <2> QED BY <2>1, <2>2 DEF leaf_num
<1>16. IsRoot(root) /\ IsRoot(trees[f.treei].wd_node)
  BY <1>5, <1>6, TreeAt
<1> HIDE DEF f, g
<1>17. f.i \in 1..f.node.size
  BY <1>6, <1>9 DEF Calls
<1>18. f.node.isleaf
  <2> SUFFICES ASSUME ~f.node.isleaf PROVE FALSE
    BY <1>6
  <2>1. f.node = trees[f.treei].wd_node /\ g.node = f.node.sub[f.i]
    BY <1>7, <1>9 DEF Calls
  <2> QED BY <1>5, <1>16, <1>17, <2>1 DEF IsRoot
<1>19. Follows(trees, f, g)
  BY <1>9, <1>18 DEF Calls
<1>20. /\ c \in Consts /\ Number(trees[f.treei], c) \in Nat
       /\ Number(trees[f.treei], c) + 1 <= leaf_num(trees[f.treei].wd_node)
  BY <1>8, <1>17, <1>18 DEF AtGroup
<1> DEFINE K == H[m - 1]
           num == Number(trees[f.treei], c)
           b == Behind(trees, f.treei, f.packedi)
<1>21. /\ Rank(trees, K) \in Nat /\ b \in Nat /\ Rank(trees, N) = Rank(trees, K) + num * b
       /\ Behind(trees, g.treei, g.packedi - 1) = b /\ Unwound(N, f) = K
  <2>1. c = f.node.sub[f.i]
    OBVIOUS
  <2> HIDE DEF K, c
  <2>2. Listed(trees, K, f) /\ N = After(trees, K, f)
    BY <1>10 DEF K
  <2>3. /\ Rank(trees, K) \in Nat /\ b \in Nat
        /\ Rank(trees, Added(K, c)) = Rank(trees, K) + num * b
    BY <1>6, <1>18, <1>20, <2>1, <2>2, CallAdds
  <2>4. /\ Rank(trees, After(trees, K, f)) = Rank(trees, Added(K, c))
        /\ Behind(trees, g.treei, g.packedi - 1) = b
        /\ Unwound(After(trees, K, f), f) = K
    BY <1>5, <1>6, <1>18, <1>19, <1>20, <2>1, <2>2, CallAdds
  <2> QED BY <2>2, <2>3, <2>4
<1>22. Behind(trees, g.treei, g.packedi - 1) = leaf_num(root) * Behind(trees, g.treei, g.packedi)
  BY <1>5, BehindSteps
<1>23. n = Rank(trees, K) + num * b + b
  <2>1. n = Rank(trees, N) + leaf_num(root) * Behind(trees, g.treei, g.packedi)
    BY <1>2, <1>15 DEF Count, g
  <2> QED BY <1>21, <1>22, <2>1
<1>24. CallsRight(trees, B) /\ History(trees, B, Front(H))
  <2>1. F[Len(F)].i <= F[Len(F)].node.size /\ F[Len(F)].node.size \in Nat
    BY <1>6, <1>12, <1>14, <1>17
  <2> QED BY <1>11, <2>1, WentOn
<1>25. Len(B) = m - 1 /\ B[m - 1] = h /\ \A j \in 1..((m - 1) - 1) : B[j] = S[j]
  <2>1. Len(F) >= 1
    BY <1>4, <1>12
  <2>2. /\ Len(B) = Len(F) /\ B[Len(F)] = [F[Len(F)] EXCEPT !.i = @ + 1]
        /\ \A j \in 1..(Len(F) - 1) : B[j] = F[j]
    BY <1>12, <2>1, AdvancedIs
  <2>3. [F[Len(F)] EXCEPT !.i = @ + 1] = h
    BY <1>12, <1>14
  <2>4. \A j \in 1..((m - 1) - 1) : j \in 1..(m - 1)
    BY <1>4
  <2> HIDE DEF h, B, m
  <2> QED BY <1>12, <2>2, <2>3, <2>4
<1>26. h.treei = f.treei /\ h.packedi = f.packedi /\ h.node = f.node /\ h.i = f.i + 1 /\ f.i \in Nat
  BY <1>6, NextOf
<1> HIDE DEF h, B
<1>27. Digits(trees, B) = num + 1
  <2> DEFINE e == S[(m - 1) - 1]
             l == LeavesBefore(trees[f.treei].wd_node, e.i)
  <2>1. num = l + f.i - 1
    BY <1>8, <1>17, <1>18 DEF AtGroup
  <2>2. B[(m - 1) - 1] = e
    <3>1. m - 1 > 1
      BY <1>2, <1>4, <1>18, FrameAt DEF f
    <3>2. (m - 1) - 1 \in 1..((m - 1) - 1)
      BY <1>4, <3>1
    <3> HIDE DEF m
    <3> QED BY <1>25, <3>2
  <2>3. Digits(trees, B) = l + (f.i + 1) - 1
    BY <1>18, <1>25, <1>26, <2>2 DEF Digits
  <2>4. l \in Nat
    <3>1. e.i \in 1..trees[f.treei].wd_node.size /\ trees[f.treei].wd_node.size \in Nat
      BY <1>8, <1>16, <1>18 DEF AtGroup, IsRoot
    <3>2. e.i \in 1..(trees[f.treei].wd_node.size + 1)
      BY <3>1
    <3> QED BY <1>16, <3>2, LeavesOf
  <2> HIDE DEF l, num
  <2> QED BY <1>26, <2>1, <2>3, <2>4
<1>28. Count(trees, B, K) = n
  <2>1. Count(trees, B, K) = Rank(trees, K) + (num + 1) * b
    BY <1>25, <1>26, <1>27 DEF Count
  <2>2. num \in Nat
    BY <1>20
  <2> HIDE DEF num, b, K
  <2>3. (num + 1) * b = num * b + b /\ num * b \in Nat
    BY <1>21, <2>2, TimesOneMore
  <2> DEFINE x == num * b
  <2>4. Count(trees, B, K) = Rank(trees, K) + (x + b) /\ n = Rank(trees, K) + x + b /\ x \in Nat
    BY <1>23, <2>1, <2>3
  <2> HIDE DEF x
  <2> QED BY <1>21, <2>4
<1>29. Front(H)[Len(B)] = K
  BY <1>13, <1>25
<1>30. F # << >> /\ Last(F) = f
  <2>1. F # << >>
    BY <1>4, <1>12
  <2> QED BY <1>12, <1>14, <2>1 DEF Last
<1>31. Walking(trees, B, K, n)
  <2>1. n = Count(trees, B, K)
    BY <1>28
  <2> HIDE DEF K
  <2> QED BY <1>24, <1>29, <2>1 DEF Walking
<1> QED BY <1>21, <1>30, <1>31 DEF B, F, f

\* The start: nothing is counted.
LEMMA WalkStart ==
  ASSUME NEW trees, AreTrees(trees), trees # << >>
  PROVE  Walking(trees, <<Frame(1, 1, trees[1].wd_node)>>, << << >> >>, 0)
         /\ Rank(trees, << << >> >>) = 0
<1> DEFINE root == trees[1].wd_node
           g == Frame(1, 1, root)
           S == <<g>>
           N == << << >> >>
           H == <<N>>
<1>1. 1 \in 1..Len(trees) /\ Len(trees) \in Nat
  <2>1. trees \in Seq(Trees)
    BY DEF AreTrees
  <2> QED BY <2>1, LenProperties, EmptySeq
<1>2. IsTree(trees[1]) /\ IsRoot(root) /\ trees[1].packedn \in Nat /\ trees[1].packedn >= 1
  BY <1>1, TreeAt
<1>3. /\ g = [treei |-> 1, packedi |-> 1, node |-> root, i |-> 1]
      /\ g.treei = 1 /\ g.packedi = 1 /\ g.node = root /\ g.i = 1
  BY DEF Frame
<1>4. AtPlace(trees, g)
  <2>1. root \in Nodes
    <3>1. PICK nodes \in NodeList : trees[1].wd_node = parseOpndTK(nodes) /\ Distinct(nodes)
      BY <1>2 DEF IsTree
    <3> QED BY <3>1 DEF Roots, Nodes
  <2>2. root.size \in Nat
    BY <1>2 DEF IsRoot
  <2> HIDE DEF root
  <2>3. g \in Frames
    BY <1>3, <2>1 DEF Frames
  <2>4. g.i \in 1..(g.node.size + 1) /\ 1 \in 1..trees[1].packedn
    BY <1>2, <1>3, <2>2
  <2> HIDE DEF g
  <2> QED BY <1>1, <1>3, <2>3, <2>4 DEF AtPlace, root
<1>5. N \in Lists /\ Len(N) = 1 /\ N[1] = << >> /\ Len(N[1]) = 0
  BY DEF Lists
<1> HIDE DEF N
<1>6. Counted(trees[1], << >>)
  BY <1>2 DEF Counted
<1>7. Filled(trees, N)
  BY <1>1, <1>5, <1>6 DEF Filled
<1>8. Rank(trees, N) = 0
  <2>1. /\ Rank(trees, N) = SumTo(Ranks(trees, N), 1) /\ Nats(Ranks(trees, N), 1)
        /\ Ranks(trees, N)[1] = OfOperand(trees, 1, << >>)
    BY <1>5, <1>7, RankOf
  <2>2. 1 \in Nat /\ 1 \in 1..1 /\ 1 - 1 = 0
    OBVIOUS
  <2>3. SumTo(Ranks(trees, N), 1) = SumTo(Ranks(trees, N), 1 - 1) + Ranks(trees, N)[1]
    BY <2>1, <2>2, SumSteps
  <2>4. SumTo(Ranks(trees, N), 0) = 0
    BY <2>1, <2>2, SumSteps
  <2>5. OfOperand(trees, 1, << >>) = 0
    BY <1>1, <1>6, OperandRank
  <2> QED BY <2>1, <2>2, <2>3, <2>4, <2>5
<1>9. Behind(trees, 1, 0) = Combinations(trees) /\ Behind(trees, 1, 1) \in Nat /\ Combinations(trees) \in Nat
  <2>1. 1 \in 0..trees[1].packedn /\ 0 \in 0..trees[1].packedn
    BY <1>2
  <2> QED BY <1>1, <2>1, BehindSteps
<1>10. Listed(trees, N, g)
  <2> HIDE DEF g
  <2>1. g.packedi - 1 = 0 /\ g.treei - 1 = 0
    BY <1>3
  <2> QED BY <1>3, <1>5, <1>7, <1>8, <1>9, <2>1 DEF Listed
<1>11. g \in Frames
  BY <1>4 DEF AtPlace
<1> HIDE DEF g
<1>12. S \in Seq(Frames) /\ Len(S) = 1 /\ S[1] = g
  BY <1>11
<1>13. H \in Seq(Lists) /\ Len(H) = 1 /\ H[1] = N
  BY <1>5
<1> HIDE DEF S, H
<1>14. CallsRight(trees, S)
  BY <1>3, <1>4, <1>12 DEF CallsRight
<1>15. History(trees, S, H)
  BY <1>10, <1>12, <1>13 DEF History, N
<1>16. Count(trees, S, N) = 0
  <2>1. Digits(trees, S) = LeavesBefore(root, 1)
    <3>1. ~root.isleaf
      BY <1>2 DEF IsRoot
    <3> QED BY <1>3, <1>12, <3>1 DEF Digits
  <2>2. LeavesBefore(root, 1) = 0
    BY <1>2, LeavesOf
  <2> HIDE DEF root
  <2>3. Count(trees, S, N) = 0 + 0 * Behind(trees, 1, 1)
    BY <1>3, <1>8, <1>12, <2>1, <2>2 DEF Count
  <2> QED BY <1>9, <2>3
<1>17. 0 = Count(trees, S, N) /\ H[Len(S)] = N
  BY <1>12, <1>13, <1>16
<1>18. Walking(trees, S, N, 0)
  BY <1>14, <1>15, <1>17 DEF Walking
<1> QED BY <1>8, <1>18 DEF S, N, g

\* The end: all combinations are counted.
LEMMA WalkEnd ==
  ASSUME NEW trees, AreTrees(trees), NEW S, NEW N, NEW n, Walking(trees, S, N, n),
         S[Len(S)].i > S[Len(S)].node.size, Len(S) = 1
  PROVE  n = Combinations(trees)
<1> DEFINE f == S[1]
           root == trees[1].wd_node
<1>1. PICK H : History(trees, S, H) /\ H[1] = N
  BY DEF Walking
<1>2. CallsRight(trees, S) /\ n = Count(trees, S, N)
  BY DEF Walking
<1>3. f.treei = 1 /\ f.packedi = 1 /\ f.node = root
  BY <1>2 DEF CallsRight
<1>4. f.node.size \in Nat /\ f.treei \in 1..Len(trees) /\ f.i \in 1..(f.node.size + 1) /\ f.i > f.node.size
  <2>1. 1 \in 1..Len(S)
    OBVIOUS
  <2> QED BY <1>2, <2>1, FrameAt
<1>5. 1 \in 1..Len(trees) /\ trees # << >>
  <2>1. 1 \in 1..Len(trees)
    BY <1>3, <1>4
  <2> QED BY <2>1
<1>6. IsRoot(root) /\ trees[1].packedn \in Nat /\ trees[1].packedn >= 1
  BY <1>5, TreeAt
<1>7. N = << << >> >>
  BY <1>1 DEF History
<1>8. Rank(trees, N) = 0
  BY <1>5, <1>7, WalkStart
<1>9. Digits(trees, S) = leaf_num(root)
  <2>1. ~root.isleaf
    BY <1>6 DEF IsRoot
  <2>2. Digits(trees, S) = LeavesBefore(root, f.i)
    BY <1>3, <2>1 DEF Digits
  <2>3. f.i = root.size + 1
    BY <1>3, <1>4
  <2> QED BY <2>2, <2>3 DEF leaf_num
<1>10. /\ Behind(trees, 1, 0) = Combinations(trees) /\ Combinations(trees) \in Nat
       /\ Behind(trees, 1, 1 - 1) = leaf_num(root) * Behind(trees, 1, 1)
  <2>1. 1 \in 1..trees[1].packedn /\ 0 \in 0..trees[1].packedn
    BY <1>6
  <2> QED BY <1>5, <2>1, BehindSteps
<1>11. n = 0 + leaf_num(root) * Behind(trees, 1, 1)
  BY <1>2, <1>3, <1>8, <1>9 DEF Count
<1>12. 1 - 1 = 0
  OBVIOUS
<1> QED BY <1>10, <1>11, <1>12

-----------------------------------------------------------------------------
(* The specification.                                                      *)

\* The trees of an instruction are trees.
LEMMA TreesOf ==
  ASSUME GroupsOnce, NEW t \in TKs
  PROVE  AreTrees(create_trv_state(t))
<1> DEFINE trees == parseInstTK(t)
           n == Len(t.opnds)
           more(k) == IF k > 0 THEN k ELSE 0
           opi == t.operands + more(adjust_operands_num(t.opcode) - t.operands)
                  + more(get_implied_operands_num(t.opcode))
<1>1. t.operands \in Nat /\ t.opnds \in Seq([packedn : Nat \ {0}, nodes : NodeList])
  BY TraverseAssumption
<1>2. n \in Nat /\ DOMAIN t.opnds = 1..n /\ \A i \in 1..n : t.opnds[i] \in [packedn : Nat \ {0}, nodes : NodeList]
  BY <1>1, LenProperties, ElementOfSeq
<1>3. \A i \in 1..n : [packedn |-> t.opnds[i].packedn, wd_node |-> parseOpndTK(t.opnds[i].nodes)] \in Trees
  <2> SUFFICES ASSUME NEW i \in 1..n
               PROVE  [packedn |-> t.opnds[i].packedn, wd_node |-> parseOpndTK(t.opnds[i].nodes)] \in Trees
    OBVIOUS
  <2>1. t.opnds[i].packedn \in Nat \ {0} /\ t.opnds[i].nodes \in NodeList
    BY <1>2
  <2>2. Distinct(t.opnds[i].nodes)
    BY <1>2 DEF GroupsOnce
  <2>3. parseOpndTK(t.opnds[i].nodes) \in Roots
    BY <2>1, <2>2 DEF Roots
  <2> QED BY <2>1, <2>3 DEF Trees
<1>4. trees \in Seq(Trees) /\ Len(trees) = n
  <2> DEFINE one(i) == [packedn |-> t.opnds[i].packedn, wd_node |-> parseOpndTK(t.opnds[i].nodes)]
  <2>1. trees = [i \in 1..n |-> one(i)]
    BY <1>2 DEF parseInstTK
  <2>2. \A i \in 1..n : one(i) \in Trees
    BY <1>3
  <2> HIDE DEF one, trees, n
  <2>3. trees \in Seq(Trees)
    BY <1>2, <2>1, <2>2, IsASeq
  <2> QED BY <1>2, <2>1, <2>3
<1> HIDE DEF trees
<1>5. Len(trees) = 1 => \A m \in Nat : [i \in 1..m |-> trees[1]] \in Seq(Trees)
  <2> SUFFICES ASSUME Len(trees) = 1, NEW m \in Nat PROVE [i \in 1..m |-> trees[1]] \in Seq(Trees)
    OBVIOUS
  <2>1. trees[1] \in Trees
    <3>1. 1 \in 1..Len(trees)
      OBVIOUS
    <3> QED BY <1>4, <3>1, ElementOfSeq
  <2> QED BY <2>1
<1>6. opi \in Nat
  <2> DEFINE a == adjust_operands_num(t.opcode)
             b == get_implied_operands_num(t.opcode)
  <2>1. a \in {2, 1, -1}
    BY Zenon DEF adjust_operands_num
  <2>2. b \in {1, -1}
    BY DEF get_implied_operands_num
  <2> HIDE DEF a, b
  <2>3. more(a - t.operands) \in Nat /\ more(b) \in Nat
    BY <1>1, <2>1, <2>2
  <2> HIDE DEF more
  <2> QED BY <1>1, <2>3 DEF a, b
<1>7. create_trv_state(t) = IF Len(trees) = 1 THEN [i \in 1..opi |-> trees[1]] ELSE trees
  BY DEF create_trv_state, trees
<1> HIDE DEF opi
<1> QED BY <1>4, <1>5, <1>6, <1>7 DEF AreTrees

\* The inductive invariant: while the traversal walks, the activations are those of the
\* places they are for, the lists those of their calls, and the index counts the
\* combinations that are finished.
IInv ==
  /\ tk \in TKs /\ pc \in {"draw", "start", "walk", "done"} /\ generated \in Nat /\ trv_index \in Nat
  /\ tk_trees = create_trv_state(tk)
  /\ pc # "walk" => stack = << >>
  /\ pc \in {"draw", "start"} => trv_index = 0
  /\ pc = "walk" => Walking(tk_trees, stack, trv_nodes, trv_index)
  /\ pc = "done" => trv_index = IF tk_trees = << >> THEN 0 ELSE Combinations(tk_trees)

\* It holds at the start.
LEMMA InvInit ==
  ASSUME Init
  PROVE  IInv
BY DEF Init, IInv

\* The last activation of a walk.
LEMMA TopOf ==
  ASSUME GroupsOnce, IInv, pc = "walk"
  PROVE  /\ AreTrees(tk_trees) /\ stack \in Seq(Frames) /\ Len(stack) \in Nat /\ Len(stack) >= 1 /\ stack # << >>
         /\ Top = stack[Len(stack)] /\ Top \in Frames /\ AtPlace(tk_trees, Top) /\ Top.node.size \in Nat
         /\ Top.treei \in 1..Len(tk_trees) /\ Top.packedi \in 1..tk_trees[Top.treei].packedn
         /\ Top.i \in 1..(Top.node.size + 1) /\ Top.node.isleaf \in BOOLEAN
         /\ Walking(tk_trees, stack, trv_nodes, trv_index) /\ CallsRight(tk_trees, stack)
<1>1. AreTrees(tk_trees) /\ Walking(tk_trees, stack, trv_nodes, trv_index)
  BY TreesOf DEF IInv
<1>2. CallsRight(tk_trees, stack)
  BY <1>1 DEF Walking
<1>3. stack \in Seq(Frames) /\ Len(stack) >= 1 /\ Len(stack) \in Nat /\ stack # << >>
  <2>1. stack \in Seq(Frames) /\ Len(stack) >= 1
    BY <1>2 DEF CallsRight
  <2> QED BY <2>1, LenProperties
<1>4. Top = stack[Len(stack)]
  BY DEF Top, Last
<1>5. Len(stack) \in 1..Len(stack)
  BY <1>3
<1> QED BY <1>1, <1>2, <1>3, <1>4, <1>5, FrameAt

\* The lists with the constant of a leaf.
LEMMA WithConstIs ==
  ASSUME GroupsOnce, IInv, AtLeaf
  PROVE  /\ WithConst = Added(trv_nodes, Top.node.sub[Top.i]) /\ Rank(tk_trees, WithConst) = trv_index
         /\ Listed(tk_trees, trv_nodes, Top)
<1>1. pc = "walk" /\ Top.i <= Top.node.size /\ Top.node.isleaf
  BY DEF AtLeaf, InLoop
<1>2. AreTrees(tk_trees) /\ Top = stack[Len(stack)] /\ Walking(tk_trees, stack, trv_nodes, trv_index)
  BY <1>1, TopOf
<1>3. /\ Listed(tk_trees, trv_nodes, Top)
      /\ Rank(tk_trees, Added(trv_nodes, Top.node.sub[Top.i])) = trv_index
  BY <1>1, <1>2, AtConst
<1>4. Len(trv_nodes) = Top.treei
  BY <1>3 DEF Listed
<1>5. WithConst = Added(trv_nodes, Top.node.sub[Top.i])
  BY <1>4 DEF WithConst, Added
<1> QED BY <1>3, <1>5

\* Each step keeps the invariant.
LEMMA InvStep ==
  ASSUME GroupsOnce, IInv, [Next]_vars
  PROVE  IInv'
<1>1. tk \in TKs /\ generated \in Nat /\ trv_index \in Nat /\ tk_trees = create_trv_state(tk) /\ AreTrees(tk_trees)
  BY TreesOf DEF IInv
<1>2. CASE request_val_node
  <2>1. /\ pc = "draw" /\ UNCHANGED <<tk, tk_trees, pc, trv_step, trv_index, stack, trv_nodes, generated, used>>
    BY <1>2 DEF request_val_node
  <2> QED BY <2>1 DEF IInv
<1>3. CASE walkTrvBlk
  <2>1. pc = "start" /\ trv_index = 0 /\ stack = << >>
    BY <1>3 DEF walkTrvBlk, IInv
  <2>2. UNCHANGED <<tk, tk_trees, trv_index, generated>>
    BY <1>3 DEF walkTrvBlk
  <2>3. CASE tk_trees = << >>
    <3>1. pc' = "done" /\ UNCHANGED stack
      BY <1>3, <2>3 DEF walkTrvBlk
    <3> QED BY <1>1, <2>1, <2>2, <2>3, <3>1 DEF IInv
  <2>4. CASE tk_trees # << >>
    <3>1. pc' = "walk" /\ trv_nodes' = << << >> >> /\ stack' = <<Frame(1, 1, tk_trees[1].wd_node)>>
      BY <1>3, <2>4 DEF walkTrvBlk
    <3>2. Walking(tk_trees, stack', trv_nodes', trv_index)
      BY <1>1, <2>1, <2>4, <3>1, WalkStart
    <3> QED BY <1>1, <2>1, <2>2, <3>1, <3>2 DEF IInv
  <2> QED BY <2>3, <2>4
<1>4. CASE IntoSubtree
  <2>1. /\ pc = "walk" /\ Top.i <= Top.node.size /\ ~Top.node.isleaf
        /\ stack' = Append(stack, Frame(Top.treei, Top.packedi, Top.node.sub[Top.i]))
        /\ UNCHANGED <<tk, tk_trees, pc, trv_index, trv_nodes, generated>>
    BY <1>4 DEF IntoSubtree, InLoop
  <2>2. Top = stack[Len(stack)] /\ Walking(tk_trees, stack, trv_nodes, trv_index)
    BY <2>1, TopOf
  <2>3. Walking(tk_trees, stack', trv_nodes, trv_index)
    BY <1>1, <2>1, <2>2, WalkIntoSubtree
  <2> QED BY <1>1, <2>1, <2>3 DEF IInv
<1>5. CASE Complete
  <2>1. AtLeaf /\ pc = "walk" /\ Top.i <= Top.node.size /\ Top.node.isleaf /\ Top.treei = Len(tk_trees)
        /\ Top.packedi = tk_trees[Top.treei].packedn
    BY <1>5 DEF Complete, AtLeaf, InLoop, Tree
  <2>2. trv_index' = trv_index + 1 /\ stack' = Advanced(stack) /\ UNCHANGED <<tk, tk_trees, pc, trv_nodes>>
    BY <1>5 DEF Complete
  <2>3. generated' \in Nat
    BY <1>1, <1>5 DEF Complete
  <2>4. Top = stack[Len(stack)] /\ Walking(tk_trees, stack, trv_nodes, trv_index)
    BY <2>1, TopOf
  <2>5. Walking(tk_trees, stack', trv_nodes, trv_index')
    BY <1>1, <2>1, <2>2, <2>4, WalkComplete
  <2> QED BY <1>1, <2>1, <2>2, <2>3, <2>5 DEF IInv
<1>6. CASE NextOperand
  <2>1. AtLeaf /\ pc = "walk" /\ Top.i <= Top.node.size /\ Top.node.isleaf /\ Top.treei # Len(tk_trees)
        /\ Top.packedi = tk_trees[Top.treei].packedn
    BY <1>6 DEF NextOperand, AtLeaf, InLoop, Tree
  <2>2. /\ trv_nodes' = Append(WithConst, << >>)
        /\ stack' = Append(stack, Frame(Top.treei + 1, 1, tk_trees[Top.treei + 1].wd_node))
        /\ UNCHANGED <<tk, tk_trees, pc, trv_index, generated>>
    BY <1>6 DEF NextOperand
  <2>3. /\ Top = stack[Len(stack)] /\ Walking(tk_trees, stack, trv_nodes, trv_index)
        /\ Top.treei \in 1..Len(tk_trees)
    BY <2>1, TopOf
  <2>4. trv_nodes' = After(tk_trees, trv_nodes, Top)
    BY <2>1, <2>2, WithConstIs DEF After
  <2>5. /\ Top.treei + 1 \in 1..Len(tk_trees) /\ Len(tk_trees) \in Nat
        /\ 1 \in 1..tk_trees[Top.treei + 1].packedn
    <3>1. Len(tk_trees) \in Nat
      BY <1>1, TreeAt
    <3>2. Top.treei + 1 \in 1..Len(tk_trees)
      BY <2>1, <2>3, <3>1
    <3>3. tk_trees[Top.treei + 1].packedn \in Nat /\ tk_trees[Top.treei + 1].packedn >= 1
      BY <1>1, <3>2, TreeAt
    <3> QED BY <3>1, <3>2, <3>3
  <2>6. Follows(tk_trees, Top, Frame(Top.treei + 1, 1, tk_trees[Top.treei + 1].wd_node))
    BY <2>1 DEF Follows, Frame
  <2>7. Walking(tk_trees, stack', trv_nodes', trv_index)
    BY <1>1, <2>1, <2>2, <2>3, <2>4, <2>5, <2>6, WalkNext
  <2> QED BY <1>1, <2>1, <2>2, <2>7 DEF IInv
<1>7. CASE NextElement
  <2>1. AtLeaf /\ pc = "walk" /\ Top.i <= Top.node.size /\ Top.node.isleaf
        /\ Top.packedi # tk_trees[Top.treei].packedn
    BY <1>7 DEF NextElement, AtLeaf, InLoop, Tree
  <2>2. /\ trv_nodes' = WithConst
        /\ stack' = Append(stack, Frame(Top.treei, Top.packedi + 1, tk_trees[Top.treei].wd_node))
        /\ UNCHANGED <<tk, tk_trees, pc, trv_index, generated>>
    BY <1>7 DEF NextElement, Tree
  <2>3. /\ Top = stack[Len(stack)] /\ Walking(tk_trees, stack, trv_nodes, trv_index)
        /\ Top.treei \in 1..Len(tk_trees) /\ Top.packedi \in 1..tk_trees[Top.treei].packedn
    BY <2>1, TopOf
  <2>4. trv_nodes' = After(tk_trees, trv_nodes, Top)
    BY <2>1, <2>2, WithConstIs DEF After
  <2>5. Top.packedi + 1 \in 1..tk_trees[Top.treei].packedn
    <3>1. tk_trees[Top.treei].packedn \in Nat
      BY <1>1, <2>3, TreeAt
    <3> QED BY <2>1, <2>3, <3>1
  <2>6. Follows(tk_trees, Top, Frame(Top.treei, Top.packedi + 1, tk_trees[Top.treei].wd_node))
    BY <2>1 DEF Follows, Frame
  <2>7. Walking(tk_trees, stack', trv_nodes', trv_index)
    BY <1>1, <2>1, <2>2, <2>3, <2>4, <2>5, <2>6, WalkNext
  <2> QED BY <1>1, <2>1, <2>2, <2>7 DEF IInv
<1>8. CASE Return
  <2>1. pc = "walk" /\ Top.i > Top.node.size /\ UNCHANGED <<tk, tk_trees, trv_index, generated>>
    BY <1>8 DEF Return
  <2>2. /\ Top = stack[Len(stack)] /\ Walking(tk_trees, stack, trv_nodes, trv_index)
        /\ stack \in Seq(Frames) /\ Len(stack) \in Nat /\ Len(stack) >= 1 /\ Top.node.isleaf \in BOOLEAN
        /\ Top.treei \in 1..Len(tk_trees)
    BY <2>1, TopOf
  <2>3. CASE Front(stack) = << >>
    <3>1. pc' = "done" /\ stack' = << >>
      BY <1>8, <2>3 DEF Return
    <3>2. Len(stack) = 1
      <4>1. Len(Front(stack)) = Len(stack) - 1
        BY <2>2, FrontIs
      <4>2. Len(Front(stack)) = 0
        BY <2>3
      <4> QED BY <2>2, <4>1, <4>2
    <3>3. trv_index = Combinations(tk_trees)
      BY <1>1, <2>1, <2>2, <3>2, WalkEnd
    <3>4. tk_trees # << >>
      BY <2>2
    <3> QED BY <1>1, <2>1, <3>1, <3>3, <3>4 DEF IInv
  <2>4. CASE Front(stack) # << >>
    <3>1. /\ stack' = Advanced(Front(stack)) /\ trv_nodes' = Unwound(trv_nodes, Last(Front(stack)))
          /\ pc' = pc
      BY <1>8, <2>4 DEF Return
    <3>2. Walking(tk_trees, stack', trv_nodes', trv_index)
      <4>1. CASE Top.node.isleaf
        <5>1. /\ Last(Front(stack)) = stack[Len(stack) - 1] /\ ~stack[Len(stack) - 1].node.isleaf
              /\ Walking(tk_trees, Advanced(Front(stack)), trv_nodes, trv_index)
          BY <1>1, <2>1, <2>2, <4>1, WalkReturnLeaf
        <5>2. trv_nodes' = trv_nodes
          BY <3>1, <5>1 DEF Unwound
        <5> QED BY <3>1, <5>1, <5>2
      <4>2. CASE ~Top.node.isleaf
        <5>1. Len(stack) > 1
          <6>1. Len(Front(stack)) = Len(stack) - 1 /\ Front(stack) \in Seq(Frames)
            BY <2>2, FrontIs
          <6>2. Len(Front(stack)) # 0
            BY <2>4, <6>1, EmptySeq
          <6> QED BY <2>2, <6>1, <6>2
        <5>2. /\ Last(Front(stack)) = stack[Len(stack) - 1]
              /\ Walking(tk_trees, Advanced(Front(stack)), Unwound(trv_nodes, stack[Len(stack) - 1]), trv_index)
          BY <1>1, <2>1, <2>2, <4>2, <5>1, WalkReturnRoot
        <5> QED BY <3>1, <5>2
      <4> QED BY <2>2, <4>1, <4>2
    <3> QED BY <1>1, <2>1, <3>1, <3>2 DEF IInv
  <2> QED BY <2>3, <2>4
<1>9. CASE UNCHANGED vars
  BY <1>9 DEF IInv, vars
<1> QED BY <1>2, <1>3, <1>4, <1>5, <1>6, <1>7, <1>8, <1>9 DEF Next

\* What the invariant says of the properties of the run.
LEMMA InvGivesInOrder ==
  ASSUME GroupsOnce, IInv
  PROVE  InOrder
<1>1. /\ tk \in TKs /\ pc \in {"draw", "start", "walk", "done"} /\ generated \in Nat /\ trv_index \in Nat
      /\ AreTrees(tk_trees)
  BY TreesOf DEF IInv
<1>2. Combinations(tk_trees) \in Nat
  <2>1. 1 \in 1..(Len(tk_trees) + 1)
    BY <1>1, TreeAt
  <2> QED BY <1>1, <2>1, FromSteps
<1>3. CASE pc = "walk"
  <2>1. /\ Walking(tk_trees, stack, trv_nodes, trv_index) /\ CallsRight(tk_trees, stack)
        /\ stack \in Seq(Frames) /\ Top = stack[Len(stack)]
    BY <1>3, TopOf
  <2>2. trv_index <= Combinations(tk_trees) /\ Listed(tk_trees, trv_nodes, Top)
    BY <1>1, <2>1, Bounded
  <2>3. \A j \in DOMAIN stack : stack[j].treei \in DOMAIN tk_trees /\ stack[j].i \in 1..(stack[j].node.size + 1)
    <3>1. DOMAIN stack = 1..Len(stack) /\ DOMAIN tk_trees = 1..Len(tk_trees)
      BY <1>1, <2>1, LenProperties, TreeAt
    <3> QED BY <1>1, <2>1, <3>1, FrameAt
  <2>4. TypeOK
    BY <1>1, <2>2, <2>3 DEF TypeOK, Listed
  <2>5. OneConstantPerElement
    BY <2>2 DEF OneConstantPerElement, Listed
  <2>6. CountsCombinations
    BY WithConstIs DEF CountsCombinations
  <2>7. AllSeen
    BY <1>3 DEF AllSeen
  <2> QED BY <2>4, <2>5, <2>6, <2>7 DEF InOrder
<1>4. CASE pc # "walk"
  <2>1. stack = << >> /\ trv_index <= Combinations(tk_trees)
    BY <1>1, <1>2, <1>4 DEF IInv
  <2>2. TypeOK
    BY <1>1, <1>4, <2>1 DEF TypeOK
  <2>3. OneConstantPerElement /\ CountsCombinations
    BY <1>4 DEF OneConstantPerElement, CountsCombinations, AtLeaf, InLoop
  <2>4. AllSeen
    BY DEF AllSeen, IInv
  <2> QED BY <2>2, <2>3, <2>4 DEF InOrder
<1> QED BY <1>3, <1>4

\* preorder_traverse_tk_trees counts through the combinations: the constants it collects
\* at a complete combination are the one with the number trv_index, each operand has one
\* constant for each of its elements, and at the end all combinations were seen.
THEOREM CountsInOrder == ASSUME GroupsOnce PROVE Spec => []InOrder
<1>1. Init => IInv
  BY InvInit
<1>2. IInv /\ [Next]_vars => IInv'
  BY InvStep
<1>3. IInv => InOrder
  BY InvGivesInOrder
<1> QED BY <1>1, <1>2, <1>3, PTL DEF Spec

-----------------------------------------------------------------------------
(* Drawing by weight.                                                      *)

\* A root whose weights add up.
Weighted(n) ==
  /\ n.isleaf = FALSE /\ n.size \in Nat /\ DOMAIN n.weights = 1..n.size /\ n.weights # << >>
  /\ Nats(n.weights, n.size) /\ SumTo(n.weights, n.size) = total_weight
  /\ \A s \in 1..n.size : n.sub[s].weights = << >> /\ n.sub[s].size \in Nat

\* The roots of the knowledge are weighted.
LEMMA WeightedRoot ==
  ASSUME WeightsAddUp, NEW t \in TKs, NEW i \in DOMAIN t.opnds
  PROVE  Weighted(parseOpndTK(t.opnds[i].nodes))
<1> DEFINE nodes == t.opnds[i].nodes
           n == parseOpndTK(nodes)
           m == Len(nodes)
<1>1. nodes \in NodeList
  <2>1. t.opnds \in Seq([packedn : Nat \ {0}, nodes : NodeList])
    BY TraverseAssumption
  <2>2. DOMAIN t.opnds = 1..Len(t.opnds)
    BY <2>1, LenProperties
  <2>3. t.opnds[i] \in [packedn : Nat \ {0}, nodes : NodeList]
    BY <2>1, <2>2, ElementOfSeq
  <2> QED BY <2>3
<1>2. SumTo(n.weights, m) = total_weight /\ total_weight \in Nat /\ total_weight # 0
  BY TraverseAssumption DEF WeightsAddUp
<1> HIDE DEF nodes
<1>3. /\ m \in Nat /\ n.isleaf = FALSE /\ n.size = m /\ DOMAIN n.weights = 1..m
      /\ \A j \in 1..m : n.weights[j] = nodes[j].weight /\ nodes[j].weight \in Nat
      /\ \A j \in 1..m : n.sub[j] = Leaf(nodes[j].name) /\ nodes[j].name \in DOMAIN Groups
  BY <1>1, SubOf
<1> HIDE DEF n, m
<1>4. \A j \in 1..m : n.sub[j].weights = << >> /\ n.sub[j].size \in Nat
  <2>1. \A g \in DOMAIN Groups : Leaf(g).weights = << >> /\ Leaf(g).size \in Nat
    BY TraverseAssumption DEF Leaf
  <2> QED BY <1>3, <2>1
<1>5. Nats(n.weights, m)
  BY <1>3 DEF Nats
<1>6. n.weights # << >>
  <2>1. SumTo(n.weights, 0) = 0
    BY <1>3, <1>5, SumSteps
  <2>2. m # 0
    BY <1>2, <2>1
  <2>3. 1 \in DOMAIN n.weights
    BY <1>3, <2>2
  <2> QED BY <2>3
<1> QED BY <1>2, <1>3, <1>4, <1>5, <1>6 DEF Weighted, n, nodes

\* The subtree drawn is the one whose share of the weights holds the random number.
LEMMA DrawnSubtree ==
  ASSUME NEW n, Weighted(n), NEW chi \in 0..(total_weight - 1)
  PROVE  /\ select_subtree(n, chi) \in 1..n.size
         /\ \A i \in 1..n.size :
              select_subtree(n, chi) = i <=> SumTo(n.weights, i - 1) <= chi /\ chi < SumTo(n.weights, i)
         /\ n.weights[select_subtree(n, chi)] > 0
<1> DEFINE acc(i) == SumTo(n.weights, i)
           m == n.size
           hit == {i \in 1..m : chi < acc(i)}
           s == select_subtree(n, chi)
<1>1. /\ m \in Nat /\ Nats(n.weights, m) /\ acc(m) = total_weight /\ n.weights # << >>
      /\ total_weight \in Nat /\ chi \in Nat /\ chi < total_weight
  BY TraverseAssumption DEF Weighted
<1>2. /\ acc(0) = 0 /\ \A k \in 0..m : acc(k) \in Nat
      /\ \A k \in 1..m : acc(k) = acc(k - 1) + n.weights[k] /\ n.weights[k] \in Nat
  BY <1>1, SumSteps DEF Nats
<1>3. \A j, k \in 0..m : j <= k => acc(j) <= acc(k)
  <2> SUFFICES ASSUME NEW j \in 0..m, NEW k \in 0..m, j <= k PROVE acc(j) <= acc(k)
    OBVIOUS
  <2>1. k \in Nat /\ Nats(n.weights, k) /\ j \in 0..k
    BY <1>1 DEF Nats
  <2> HIDE DEF m
  <2> QED BY <2>1, SumGrows
<1>4. s = IF hit = {} THEN m + 1 ELSE Min(hit)
  BY <1>1 DEF select_subtree
<1> HIDE DEF acc, m, s
<1>5. m \in hit
  <2>1. m # 0
    BY <1>1, <1>2
  <2> QED BY <1>1, <2>1
<1>6. s \in hit /\ \A y \in hit : s <= y
  <2>1. hit \subseteq Nat /\ hit # {}
    BY <1>1, <1>5
  <2>2. \E x \in hit : \A y \in hit : x <= y
    BY <2>1, LeastNat
  <2>3. s = CHOOSE x \in hit : \A y \in hit : x <= y
    BY <1>4, <2>1 DEF Min
  <2> HIDE DEF hit
  <2> QED BY <2>2, <2>3
<1>7. s \in 1..m /\ chi < acc(s)
  BY <1>6
<1>8. acc(s - 1) <= chi
  <2>1. CASE s = 1
    BY <1>1, <1>2, <2>1
  <2>2. CASE s # 1
    <3>1. s - 1 \in 1..m /\ s - 1 \in 0..m /\ ~(s <= s - 1)
      BY <1>1, <1>7, <2>2
    <3>2. s - 1 \notin hit
      BY <1>6, <3>1
    <3> QED BY <1>1, <1>2, <3>1, <3>2
  <2> QED BY <2>1, <2>2
<1>9. ASSUME NEW i \in 1..m, acc(i - 1) <= chi, chi < acc(i) PROVE s = i
  <2>1. i - 1 \in 0..m /\ s \in 0..m /\ i \in hit /\ s \in Nat /\ i \in Nat
    BY <1>1, <1>7, <1>9
  <2>2. s <= i
    BY <1>6, <2>1
  <2>3. ~(s <= i - 1)
    <3>1. s <= i - 1 => acc(s) <= acc(i - 1)
      BY <1>3, <2>1
    <3>2. acc(s) \in Nat /\ acc(i - 1) \in Nat
      BY <1>2, <2>1
    <3> QED BY <1>1, <1>7, <1>9, <3>1, <3>2
  <2> QED BY <2>1, <2>2, <2>3
<1>10. n.weights[s] > 0
  <2>1. acc(s) = acc(s - 1) + n.weights[s] /\ n.weights[s] \in Nat /\ acc(s - 1) \in Nat
    <3>1. s - 1 \in 0..m
      BY <1>1, <1>7
    <3> QED BY <1>2, <1>7, <3>1
  <2> QED BY <1>1, <1>7, <1>8, <2>1
<1> QED BY <1>7, <1>8, <1>9, <1>10 DEF acc, m, s

\* As many random numbers draw a subtree as it has weight.
LEMMA DrawnByWeight ==
  ASSUME NEW n, Weighted(n), NEW i \in 1..(n.size + 1)
  PROVE  Chance(n, i) = IF i <= n.size THEN n.weights[i] ELSE 0
<1> DEFINE m == n.size
           acc(k) == SumTo(n.weights, k)
           D == {chi \in Chances(n) : select_subtree(n, chi) = i}
<1>1. /\ m \in Nat /\ Nats(n.weights, m) /\ acc(m) = total_weight /\ n.weights # << >>
      /\ total_weight \in Nat
  BY TraverseAssumption DEF Weighted
<1>2. Chances(n) = 0..(total_weight - 1)
  BY <1>1 DEF Chances
<1>3. \A chi \in 0..(total_weight - 1) :
        /\ select_subtree(n, chi) \in 1..m
        /\ \A k \in 1..m : select_subtree(n, chi) = k <=> acc(k - 1) <= chi /\ chi < acc(k)
  BY DrawnSubtree
<1>4. /\ \A k \in 0..m : acc(k) \in Nat /\ acc(k) <= acc(m)
      /\ \A k \in 1..m : acc(k) = acc(k - 1) + n.weights[k] /\ n.weights[k] \in Nat
  BY <1>1, SumSteps, SumGrows DEF Nats
<1>0. Chance(n, i) = Cardinality(D)
  BY DEF Chance
<1> HIDE DEF acc, m
<1>5. CASE i <= m
  <2> DEFINE a == acc(i - 1)
             b == acc(i)
  <2>1. i \in 1..m /\ i - 1 \in 0..m /\ i \in 0..m
    BY <1>1, <1>5 DEF m
  <2>2. a \in Nat /\ b \in Nat /\ b <= total_weight /\ b = a + n.weights[i] /\ n.weights[i] \in Nat
    BY <1>1, <1>4, <2>1
  <2>3. \A chi \in 0..(total_weight - 1) : select_subtree(n, chi) = i <=> a <= chi /\ chi < b
    BY <1>3, <2>1
  <2> HIDE DEF a, b
  <2>4. D = a..(b - 1)
    <3>1. \A chi \in a..(b - 1) : chi \in 0..(total_weight - 1) /\ a <= chi /\ chi < b
      BY <1>1, <2>2
    <3>2. \A chi \in 0..(total_weight - 1) : a <= chi /\ chi < b => chi \in a..(b - 1)
      BY <1>1, <2>2
    <3> QED BY <1>2, <2>3, <3>1, <3>2
  <2> HIDE DEF D
  <2>5. Cardinality(a..(b - 1)) = IF a > b - 1 THEN 0 ELSE (b - 1) - a + 1
    <3>1. a \in Int /\ b - 1 \in Int
      BY <2>2
    <3> QED BY <3>1, FS_Interval
  <2>6. Cardinality(D) = n.weights[i]
    BY <2>2, <2>4, <2>5
  <2> QED BY <1>0, <1>5, <2>6 DEF m
<1>6. CASE ~(i <= m)
  <2>1. i = m + 1
    BY <1>1, <1>6 DEF m
  <2>2. D = {}
    BY <1>1, <1>2, <1>3, <2>1
  <2> HIDE DEF D
  <2>3. Cardinality(D) = 0
    BY <2>2, FS_EmptySet
  <2> QED BY <1>0, <1>6, <2>3 DEF m
<1> QED BY <1>5, <1>6

\* Each constant of a group is drawn by one random number.
LEMMA LeafChance ==
  ASSUME NEW g, g.weights = << >>, g.size \in Nat, NEW c \in 1..g.size
  PROVE  Chance(g, c) = 1
<1> DEFINE D == {chi \in Chances(g) : select_subtree(g, chi) = c}
           m == g.size
<1>1. Chances(g) = 0..(m - 1) /\ \A chi : select_subtree(g, chi) = 1 + (chi % m)
  BY DEF Chances, select_subtree
<1>2. m \in Nat /\ c \in 1..m
  OBVIOUS
<1>3. Chance(g, c) = Cardinality(D)
  BY DEF Chance
<1> HIDE DEF m
<1>4. \A chi \in 0..(m - 1) : chi % m = chi
  BY <1>2
<1>5. D = {c - 1}
  <2>1. c - 1 \in 0..(m - 1) /\ 1 + (c - 1) = c
    BY <1>2
  <2>2. \A chi \in 0..(m - 1) : 1 + chi = c <=> chi = c - 1
    BY <1>2
  <2> QED BY <1>1, <1>4, <2>1, <2>2
<1> QED BY <1>3, <1>5, FS_Singleton

\* The random numbers that give no constant are the shares of the empty groups.
LEMMA NullByWeight ==
  ASSUME NEW n, Weighted(n)
  PROVE  Cardinality({chi \in Chances(n) : GivesNull(n, chi)}) = WeightOfEmpty(n)
<1> DEFINE m == n.size
           acc(k) == SumTo(n.weights, k)
           w == [i \in 1..m |-> IF n.sub[i].size = 0 THEN n.weights[i] ELSE 0]
           D(k) == {chi \in 0..(acc(k) - 1) : GivesNull(n, chi)}
           T == {k \in 0..m : IsFiniteSet(D(k)) /\ Cardinality(D(k)) = SumTo(w, k)}
<1>1. /\ m \in Nat /\ Nats(n.weights, m) /\ acc(m) = total_weight /\ n.weights # << >>
      /\ total_weight \in Nat
  BY TraverseAssumption DEF Weighted
<1>2. Chances(n) = 0..(acc(m) - 1)
  BY <1>1 DEF Chances
<1>3. \A chi \in 0..(acc(m) - 1) : \A k \in 1..m :
        select_subtree(n, chi) = k <=> acc(k - 1) <= chi /\ chi < acc(k)
  BY <1>1, DrawnSubtree
<1>4. /\ acc(0) = 0 /\ \A k \in 0..m : acc(k) \in Nat /\ acc(k) <= acc(m)
      /\ \A k \in 1..m : acc(k) = acc(k - 1) + n.weights[k] /\ n.weights[k] \in Nat
  BY <1>1, SumSteps, SumGrows DEF Nats
<1>5. \A k \in 1..m : w[k] = IF n.sub[k].size = 0 THEN n.weights[k] ELSE 0
  OBVIOUS
<1>6. Nats(w, m)
  BY <1>4, <1>5 DEF Nats
<1>7. WeightOfEmpty(n) = SumTo(w, m)
  BY DEF WeightOfEmpty
<1> HIDE DEF acc, m, w
<1>8. /\ SumTo(w, 0) = 0 /\ \A k \in 0..m : SumTo(w, k) \in Nat
      /\ \A k \in 1..m : SumTo(w, k) = SumTo(w, k - 1) + w[k]
  BY <1>1, <1>6, SumSteps
<1>9. 0 \in T
  <2>1. D(0) = {}
    BY <1>4
  <2> HIDE DEF D
  <2>2. IsFiniteSet(D(0)) /\ Cardinality(D(0)) = 0
    BY <2>1, FS_EmptySet
  <2> QED BY <1>1, <1>8, <2>2
<1>10. ASSUME NEW k \in 0..(m - 1), k \in T PROVE k + 1 \in T
  <2> DEFINE j == k + 1
             a == acc(k)
             b == acc(j)
             empty == n.sub[j].size = 0
             E == IF empty THEN a..(b - 1) ELSE {}
  <2>1. j \in 1..m /\ j \in 0..m /\ j - 1 = k /\ k \in 0..m
    BY <1>1
  <2> HIDE DEF j
  <2>2. a \in Nat /\ b \in Nat /\ b = a + n.weights[j] /\ n.weights[j] \in Nat /\ a <= b /\ b <= acc(m) /\ acc(m) \in Nat
    BY <1>1, <1>4, <2>1
  <2>3. \A chi \in 0..(acc(m) - 1) : a <= chi /\ chi < b => select_subtree(n, chi) = j
    BY <1>3, <2>1
  <2> HIDE DEF a, b
  <2>4. \A chi \in a..(b - 1) : GivesNull(n, chi) <=> empty
    <3>1. \A chi \in a..(b - 1) : chi \in 0..(acc(m) - 1) /\ a <= chi /\ chi < b
      BY <2>2
    <3> QED BY <2>3, <3>1 DEF GivesNull
  <2> DEFINE Dk == {chi \in 0..(a - 1) : GivesNull(n, chi)}
             Dj == {chi \in 0..(b - 1) : GivesNull(n, chi)}
  <2>5. D(k) = Dk /\ D(j) = Dj
    BY DEF a, b
  <2>6. Dj = Dk \cup E
    <3>1. \A chi : chi \in 0..(b - 1) <=> chi \in 0..(a - 1) \/ chi \in a..(b - 1)
      BY <2>2
    <3> HIDE DEF empty
    <3> QED BY <2>4, <3>1
  <2>7. Dk \cap E = {}
    <3>1. (0..(a - 1)) \cap (a..(b - 1)) = {}
      BY <2>2
    <3> HIDE DEF empty
    <3> QED BY <3>1
  <2>8. IsFiniteSet(Dk) /\ Cardinality(Dk) = SumTo(w, k)
    BY <1>10, <2>5 DEF T
  <2>9. IsFiniteSet(E) /\ Cardinality(E) = w[j]
    <3>1. IsFiniteSet(a..(b - 1)) /\ Cardinality(a..(b - 1)) = IF a > b - 1 THEN 0 ELSE (b - 1) - a + 1
      <4>1. a \in Int /\ b - 1 \in Int
        BY <2>2
      <4> QED BY <4>1, FS_Interval
    <3>2. Cardinality(a..(b - 1)) = n.weights[j]
      BY <2>2, <3>1
    <3>3. w[j] = IF empty THEN n.weights[j] ELSE 0
      BY <1>5, <2>1
    <3> HIDE DEF empty
    <3>4. CASE empty
      BY <3>1, <3>2, <3>3, <3>4
    <3>5. CASE ~empty
      BY <3>3, <3>5, FS_EmptySet
    <3> QED BY <3>4, <3>5
  <2> HIDE DEF Dk, Dj, E, D
  <2>10. IsFiniteSet(Dj) /\ Cardinality(Dj) = Cardinality(Dk) + Cardinality(E) - Cardinality(Dk \cap E)
    BY <2>6, <2>8, <2>9, FS_Union
  <2>11. Cardinality(Dk \cap E) = 0
    BY <2>7, FS_EmptySet
  <2>12. SumTo(w, j) = SumTo(w, k) + w[j] /\ SumTo(w, k) \in Nat /\ w[j] \in Nat
    BY <1>6, <1>8, <2>1 DEF Nats
  <2>13. Cardinality(Dj) = SumTo(w, j)
    BY <2>8, <2>9, <2>10, <2>11, <2>12
  <2>14. j \in T
    BY <2>1, <2>5, <2>10, <2>13
  <2> QED BY <2>14 DEF j
<1> HIDE DEF T
<1>11. \A k \in 0..m : k \in T
  BY <1>1, <1>9, <1>10, IntervalInduction
<1>12. m \in T
  BY <1>1, <1>11
<1> QED BY <1>2, <1>7, <1>12 DEF T, D

\* The trees that serve the operands are those of the knowledge.
LEMMA ServedBy ==
  ASSUME NEW t \in TKs
  PROVE  /\ Len(parseInstTK(t)) \in Nat
         /\ \A j \in 1..Len(parseInstTK(t)) :
              \E i \in DOMAIN t.opnds : parseInstTK(t)[j].wd_node = parseOpndTK(t.opnds[i].nodes)
         /\ \A tree \in ToSet(create_trv_state(t)) :
              \E i \in DOMAIN t.opnds : tree.wd_node = parseOpndTK(t.opnds[i].nodes)
         /\ Len(parseInstTK(t)) # 1 => create_trv_state(t) = parseInstTK(t)
<1> DEFINE trees == parseInstTK(t)
           n == Len(t.opnds)
           more(k) == IF k > 0 THEN k ELSE 0
           opi == t.operands + more(adjust_operands_num(t.opcode) - t.operands)
                  + more(get_implied_operands_num(t.opcode))
<1>1. n \in Nat /\ DOMAIN t.opnds = 1..n
  <2>1. t.opnds \in Seq([packedn : Nat \ {0}, nodes : NodeList])
    BY TraverseAssumption
  <2> QED BY <2>1, LenProperties
<1>2. Len(trees) = n /\ DOMAIN trees = 1..n
  BY <1>1 DEF parseInstTK
<1>3. \A j \in 1..n : trees[j].wd_node = parseOpndTK(t.opnds[j].nodes)
  BY <1>1 DEF parseInstTK
<1>4. create_trv_state(t) = IF Len(trees) = 1 THEN [i \in 1..opi |-> trees[1]] ELSE trees
  BY DEF create_trv_state
<1> HIDE DEF trees, opi
<1>5. \A tree \in ToSet(create_trv_state(t)) : \E j \in 1..n : tree = trees[j]
  <2>1. CASE Len(trees) = 1
    <3>1. \A tree \in ToSet([i \in 1..opi |-> trees[1]]) : tree = trees[1]
      BY DEF ToSet
    <3>2. 1 \in 1..n
      BY <1>2, <2>1
    <3> QED BY <1>4, <2>1, <3>1, <3>2
  <2>2. CASE Len(trees) # 1
    <3>1. \A tree \in ToSet(trees) : \E j \in 1..n : tree = trees[j]
      BY <1>2 DEF ToSet
    <3> QED BY <1>4, <2>2, <3>1
  <2> QED BY <2>1, <2>2
<1>6. \A tree \in ToSet(create_trv_state(t)) :
        \E i \in DOMAIN t.opnds : tree.wd_node = parseOpndTK(t.opnds[i].nodes)
  <2> SUFFICES ASSUME NEW tree \in ToSet(create_trv_state(t))
               PROVE  \E i \in DOMAIN t.opnds : tree.wd_node = parseOpndTK(t.opnds[i].nodes)
    OBVIOUS
  <2>1. PICK j \in 1..n : tree = trees[j]
    BY <1>5
  <2>2. tree.wd_node = parseOpndTK(t.opnds[j].nodes)
    BY <1>3, <2>1
  <2> QED BY <1>1, <2>2
<1>7. \A j \in 1..Len(trees) : \E i \in DOMAIN t.opnds : trees[j].wd_node = parseOpndTK(t.opnds[i].nodes)
  BY <1>1, <1>2, <1>3
<1> QED BY <1>1, <1>2, <1>4, <1>6, <1>7 DEF trees

\* Drawing keeps to the knowledge.
DInv == tk \in TKs /\ tk_trees = create_trv_state(tk) /\ DrawsAConstant

\* What a step draws exists, or comes from an empty group.
LEMMA DrawStep ==
  ASSUME WeightsAddUp, DInv, [Next]_vars
  PROVE  DInv'
<1>1. CASE request_val_node
  <2>1. tk' = tk /\ tk_trees' = tk_trees
    BY <1>1 DEF request_val_node
  <2>2. PICK opi \in 1..Len(create_trv_state(tk)) :
          LET root == TreeOf(opi).wd_node
          IN \E s \in Selections(root) :
               \E c \in IF s \in 1..root.size THEN Selections(root.sub[s]) ELSE {0} : drawn' = <<opi, s, c>>
    BY <1>1 DEF request_val_node
  <2> DEFINE root == TreeOf(opi).wd_node
  <2>3. \E i \in DOMAIN tk.opnds : root = parseOpndTK(tk.opnds[i].nodes)
    <3> DEFINE trees == parseInstTK(tk)
    <3>1. tk \in TKs
      BY DEF DInv
    <3>2. /\ Len(trees) \in Nat
          /\ \A j \in 1..Len(trees) : \E i \in DOMAIN tk.opnds : trees[j].wd_node = parseOpndTK(tk.opnds[i].nodes)
          /\ Len(trees) # 1 => create_trv_state(tk) = trees
      BY <3>1, ServedBy
    <3>3. TreeOf(opi) = IF Len(trees) = 1 THEN trees[1] ELSE trees[opi]
      BY DEF TreeOf
    <3> HIDE DEF trees
    <3>4. CASE Len(trees) = 1
      <4>1. 1 \in 1..Len(trees)
        BY <3>4
      <4> QED BY <3>2, <3>3, <3>4, <4>1
    <3>5. CASE Len(trees) # 1
      BY <3>2, <3>3, <3>5
    <3> QED BY <3>4, <3>5
  <2>4. Weighted(root)
    <3>1. tk \in TKs
      BY DEF DInv
    <3> HIDE DEF root
    <3> QED BY <2>3, <3>1, WeightedRoot
  <2>5. PICK s \in Selections(root) :
          \E c \in IF s \in 1..root.size THEN Selections(root.sub[s]) ELSE {0} : drawn' = <<opi, s, c>>
    BY <2>2
  <2> DEFINE sub == root.sub[s]
  <2> HIDE DEF root
  <2>6. PICK chi \in 0..(total_weight - 1) : s = select_subtree(root, chi)
    <3>1. Chances(root) = 0..(total_weight - 1)
      BY <2>4 DEF Chances, Weighted
    <3>2. root.size # 0
      <4>1. DOMAIN root.weights = 1..root.size /\ Nats(root.weights, 0) /\ SumTo(root.weights, root.size) = total_weight
        BY <2>4 DEF Weighted, Nats
      <4>2. SumTo(root.weights, 0) = 0
        BY <4>1, SumSteps
      <4> QED BY <4>1, <4>2, TraverseAssumption
    <3> QED BY <2>5, <3>1, <3>2 DEF Selections
  <2>7. s \in 1..root.size /\ root.weights[s] > 0
    BY <2>4, <2>6, DrawnSubtree
  <2>8. root.size \in Nat /\ sub.weights = << >> /\ sub.size \in Nat
    BY <2>4, <2>7 DEF Weighted
  <2>9. PICK c \in Selections(sub) : drawn' = <<opi, s, c>>
    BY <2>5, <2>7
  <2> HIDE DEF sub
  <2>10. IF sub.size = 0 THEN c = 0 ELSE c \in 1..sub.size
    <3>1. CASE sub.size = 0
      BY <2>9, <3>1 DEF Selections
    <3>2. CASE sub.size # 0
      <4>1. PICK chi2 \in 0..(sub.size - 1) : c = 1 + (chi2 % sub.size)
        BY <2>8, <2>9, <3>2 DEF Selections, Chances, select_subtree
      <4>2. chi2 % sub.size \in 0..(sub.size - 1)
        BY <2>8, <3>2
      <4> QED BY <2>8, <3>2, <4>1, <4>2
    <3> QED BY <3>1, <3>2
  <2>13. drawn'[1] = opi /\ drawn'[2] = s /\ drawn'[3] = c
    BY <2>9
  <2>14. TreeOf(opi)' = TreeOf(opi)
    BY <2>1 DEF TreeOf
  <2>15. DrawsAConstant'
    <3>1. (TreeOf(drawn[1]).wd_node)' = root
      BY <2>1, <2>13 DEF TreeOf, root
    <3> QED BY <2>7, <2>10, <2>13, <3>1 DEF DrawsAConstant, sub
  <2> QED BY <2>1, <2>15 DEF DInv
<1>2. CASE UNCHANGED <<tk, tk_trees, drawn>>
  BY <1>2 DEF DInv, DrawsAConstant, TreeOf
<1>3. request_val_node \/ UNCHANGED <<tk, tk_trees, drawn>>
  BY DEF Next, vars, walkTrvBlk, IntoSubtree, Complete, NextOperand, NextElement, Return
<1> QED BY <1>1, <1>2, <1>3

\* In a state of the knowledge drawing follows the weights.
LEMMA DInvGivesFair ==
  ASSUME WeightsAddUp, DInv
  PROVE  DrawsFairly
<1>1. ASSUME NEW t \in ToSet(tk_trees) PROVE Weighted(t.wd_node)
  <2>1. \E i \in DOMAIN tk.opnds : t.wd_node = parseOpndTK(tk.opnds[i].nodes)
    BY <1>1, ServedBy DEF DInv
  <2> QED BY <2>1, WeightedRoot DEF DInv
<1>2. ASSUME NEW t \in ToSet(tk_trees)
      PROVE  \A i \in 1..t.wd_node.size : \A c \in 1..t.wd_node.sub[i].size : Chance(t.wd_node.sub[i], c) = 1
  <2>1. \A i \in 1..t.wd_node.size : t.wd_node.sub[i].weights = << >> /\ t.wd_node.sub[i].size \in Nat
    BY <1>1 DEF Weighted
  <2> QED BY <2>1, LeafChance
<1>3. \A t \in ToSet(tk_trees) : Cardinality({chi \in Chances(t.wd_node) : GivesNull(t.wd_node, chi)}) = WeightOfEmpty(t.wd_node)
  BY <1>1, NullByWeight
<1>4. DrawsByWeight
  BY <1>1, <1>2, <1>3, DrawnByWeight DEF DrawsByWeight
<1> QED BY <1>4 DEF DrawsFairly, DInv

\* request_val_node draws each group with the probability of its weight, never one
\* behind the last, each constant of it as often as another, and NULL from empty groups
\* only, with the probability of the weight they have together.
THEOREM DrawsByTheWeights == ASSUME WeightsAddUp PROVE Spec => []DrawsFairly
<1>1. Init => DInv
  BY DEF Init, DInv, DrawsAConstant
<1>2. DInv /\ [Next]_vars => DInv'
  BY DrawStep
<1>3. DInv => DrawsFairly
  BY DInvGivesFair
<1> QED BY <1>1, <1>2, <1>3, PTL DEF Spec
=============================================================================

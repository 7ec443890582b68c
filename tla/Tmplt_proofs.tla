---------------------------- MODULE Tmplt_proofs ----------------------------
(***************************************************************************)
(* What is proved of templates, for documents of any size: the variables   *)
(* that elements use and the values they find there, and that the walk of  *)
(* a template that keeps to the conventions does not crash.                *)
(*                                                                         *)
(* The second half: the walk of a template generates the elements of its   *)
(* tree in document order, those of a repeat or traverse block once per    *)
(* round, and all of them if it returns.  A walk function has the children *)
(* behind the one it is at, and its further rounds, left to do; what has   *)
(* been generated and what all active functions have left is at each step  *)
(* the tree unrolled.                                                      *)
(***************************************************************************)
EXTENDS Tmplt, Lemmas, FiniteSetTheorems, SequenceTheorems

-----------------------------------------------------------------------------
(* Climbing the tree.                                                      *)

\* The parents of blocks 1..N: blocks before them, or none.
Parents(par, N) == N \in Nat /\ DOMAIN par = 1..N /\ \A b \in 1..N : par[b] \in 0..(b - 1)

\* Block a is around block b, or b itself.
Above(par, a, b) == Innermost(par, b, {a}) = a

\* The search looks at a block and goes on to its parent.
LEMMA InnermostStep ==
  ASSUME NEW N, NEW par, Parents(par, N), NEW S
  PROVE  /\ Innermost(par, 0, S) = 0
         /\ \A b \in 1..N : Innermost(par, b, S) = IF b \in S THEN b ELSE Innermost(par, par[b], S)
<1> DEFINE D == {NULL} \cup DOMAIN par
           Is(f, m) == f = [b \in 0..m |-> IF b = NULL \/ b \in S THEN b ELSE f[par[b]]]
           Def(f) == f = [b \in D |-> IF b = NULL \/ b \in S THEN b ELSE f[par[b]]]
           f == CHOOSE f : Def(f)
<1>1. N \in Nat /\ D = 0..N /\ \A b \in 1..N : par[b] \in 0..(b - 1)
  BY DEF Parents, NULL
<1>2. Def(f)
  <2> DEFINE T == {m \in 0..N : \E g : Is(g, m)}
  <2>1. 0 \in T
    <3> DEFINE g == [b \in 0..0 |-> 0]
    <3>1. Is(g, 0)
      BY DEF NULL
    <3>2. 0 \in 0..N
      BY <1>1
    <3> HIDE DEF Is, g
    <3> QED BY <3>1, <3>2
  <2>2. ASSUME NEW m \in 0..(N - 1), m \in T PROVE m + 1 \in T
    <3>1. PICK g : Is(g, m)
      BY <2>2
    <3> DEFINE n == m + 1
               top == IF n \in S THEN n ELSE g[par[n]]
               h == [b \in 0..n |-> IF b = n THEN top ELSE g[b]]
    <3>2. m \in Nat /\ n \in 0..N /\ n \in 1..N /\ 0..n = (0..m) \cup {n} /\ n \notin 0..m
      BY <1>1
    <3>3. \A b \in 0..m : h[b] = g[b] /\ g[b] = IF b = NULL \/ b \in S THEN b ELSE g[par[b]]
      BY <3>1, <3>2
    <3>4. h[n] = top
      BY <3>2
    <3>5. DOMAIN h = 0..n /\ h = [b \in 0..n |-> h[b]]
      OBVIOUS
    <3> HIDE DEF h, n, Is
    <3>6. \A b \in 0..n : h[b] = IF b = NULL \/ b \in S THEN b ELSE h[par[b]]
      <4> TAKE b \in 0..n
      <4>1. CASE b = n
        <5>1. par[n] \in 0..m /\ n # NULL
          BY <3>2, <1>1 DEF n, NULL
        <5> QED BY <4>1, <5>1, <3>3, <3>4
      <4>2. CASE b # n /\ b # NULL
        <5>1. b \in 0..m /\ par[b] \in 0..m
          <6>1. b \in 0..m
            BY <4>2, <3>2
          <6>2. b \in 1..N /\ b <= m
            BY <6>1, <4>2, <1>1 DEF NULL
          <6>3. par[b] \in 0..(b - 1)
            BY <6>2, <1>1
          <6> QED BY <6>1, <6>2, <6>3
        <5> QED BY <4>2, <5>1, <3>3
      <4>3. CASE b # n /\ b = NULL
        <5>1. b \in 0..m
          BY <4>3, <3>2
        <5> QED BY <4>3, <5>1, <3>3
      <4> QED BY <4>1, <4>2, <4>3
    <3>7. h = [b \in 0..n |-> IF b = NULL \/ b \in S THEN b ELSE h[par[b]]]
      BY <3>5, <3>6, Zenon
    <3>8. Is(h, n)
      BY <3>7 DEF Is
    <3> QED BY <3>2, <3>8 DEF n
  <2>3. \A m \in 0..N : m \in T
    <3> HIDE DEF T
    <3> QED BY <1>1, <2>1, <2>2, IntervalInduction
  <2>4. PICK g : Is(g, N)
    BY <2>3, <1>1
  <2>5. Def(g)
    BY <2>4, <1>1
  <2> HIDE DEF Def
  <2> QED BY <2>5, Zenon
<1>3. \A b : Innermost(par, b, S) = f[b]
  BY Zenon DEF Innermost
<1> HIDE DEF f
<1>4. \A b \in D : f[b] = IF b = NULL \/ b \in S THEN b ELSE f[par[b]]
  BY <1>2
<1>5. f[0] = 0
  BY <1>1, <1>4 DEF NULL
<1>6. ASSUME NEW b \in 1..N PROVE f[b] = IF b \in S THEN b ELSE f[par[b]]
  <2>1. b \in D /\ b # NULL
    BY <1>1 DEF NULL
  <2> QED BY <2>1, <1>4
<1> QED BY <1>3, <1>5, <1>6

\* The search ends at a block it looks for, at or before the one it starts at.
LEMMA InnermostFinds ==
  ASSUME NEW N, NEW par, Parents(par, N), NEW S, NEW b \in 0..N
  PROVE  /\ Innermost(par, b, S) \in 0..b
         /\ Innermost(par, b, S) # 0 => Innermost(par, b, S) \in S
<1> DEFINE F(c) == Innermost(par, c, S)
           T == {c \in 0..N : F(c) \in 0..c /\ (F(c) # 0 => F(c) \in S)}
<1>1. N \in Nat /\ \A c \in 1..N : par[c] \in 0..(c - 1)
  BY DEF Parents
<1>2. F(0) = 0 /\ \A c \in 1..N : F(c) = IF c \in S THEN c ELSE F(par[c])
  BY InnermostStep
<1> HIDE DEF F
<1>3. ASSUME NEW n \in 0..N, \A k \in 0..(n - 1) : k \in T PROVE n \in T
  <2>1. CASE n = 0
    BY <2>1, <1>1, <1>2
  <2>2. CASE n # 0
    <3>1. n \in 1..N /\ par[n] \in 0..(n - 1)
      BY <2>2, <1>1
    <3>2. par[n] \in T
      BY <3>1, <1>3
    <3> QED BY <3>1, <3>2, <1>1, <1>2
  <2> QED BY <2>1, <2>2
<1>4. \A c \in 0..N : c \in T
  <2> HIDE DEF T
  <2> QED BY <1>1, <1>3, StrongInduction
<1> QED BY <1>4 DEF F

\* What is around a block: the block, and what is around its parent.
LEMMA AboveStep ==
  ASSUME NEW N, NEW par, Parents(par, N), NEW a \in 1..N
  PROVE  /\ ~Above(par, a, 0)
         /\ \A b \in 1..N : Above(par, a, b) <=> a = b \/ Above(par, a, par[b])
         /\ \A b \in 0..N : Above(par, a, b) => a <= b
<1>1. Innermost(par, 0, {a}) = 0 /\ \A b \in 1..N : Innermost(par, b, {a}) = IF b \in {a} THEN b ELSE Innermost(par, par[b], {a})
  BY InnermostStep
<1>2. \A b \in 0..N : Innermost(par, b, {a}) \in 0..b
  BY InnermostFinds
<1>3. N \in Nat
  BY DEF Parents
<1> QED BY <1>1, <1>2, <1>3 DEF Above

\* The search finds a block that is around the start, and fails only if there is none.
LEMMA InnermostAbove ==
  ASSUME NEW N, NEW par, Parents(par, N), NEW S, NEW b \in 0..N
  PROVE  /\ Innermost(par, b, S) # 0 => Above(par, Innermost(par, b, S), b)
         /\ \A a \in 1..N : a \in S /\ Above(par, a, b) => Innermost(par, b, S) # 0
<1> DEFINE F(c) == Innermost(par, c, S)
           T == {c \in 0..N : /\ F(c) # 0 => Above(par, F(c), c)
                              /\ \A a \in 1..N : a \in S /\ Above(par, a, c) => F(c) # 0}
<1>1. N \in Nat /\ \A c \in 1..N : par[c] \in 0..(c - 1)
  BY DEF Parents
<1>2. F(0) = 0 /\ \A c \in 1..N : F(c) = IF c \in S THEN c ELSE F(par[c])
  BY InnermostStep
<1>3. \A c \in 0..N : F(c) \in 0..c
  BY InnermostFinds
<1>4. \A a \in 1..N : /\ ~Above(par, a, 0)
                      /\ \A c \in 1..N : Above(par, a, c) <=> a = c \/ Above(par, a, par[c])
  BY AboveStep
<1> HIDE DEF F
<1>5. ASSUME NEW n \in 0..N, \A k \in 0..(n - 1) : k \in T PROVE n \in T
  <2>1. CASE n = 0
    BY <2>1, <1>1, <1>2, <1>4
  <2>2. CASE n # 0 /\ n \in S
    <3>1. n \in 1..N /\ F(n) = n
      BY <2>2, <1>1, <1>2
    <3> QED BY <3>1, <1>4
  <2>3. CASE n # 0 /\ n \notin S
    <3>1. n \in 1..N /\ par[n] \in 0..(n - 1) /\ par[n] \in 0..N
      BY <2>3, <1>1
    <3>2. par[n] \in T
      BY <3>1, <1>5
    <3>3. F(n) = F(par[n])
      BY <2>3, <3>1, <1>2
    <3>4. F(n) # 0 => Above(par, F(n), n)
      <4> SUFFICES ASSUME F(n) # 0 PROVE Above(par, F(n), n)
        OBVIOUS
      <4>1. Above(par, F(n), par[n])
        BY <3>2, <3>3
      <4>2. F(n) \in 1..N
        BY <3>1, <3>3, <1>1, <1>3
      <4> QED BY <4>1, <4>2, <3>1, <1>4
    <3>5. ASSUME NEW a \in 1..N, a \in S, Above(par, a, n) PROVE F(n) # 0
      <4>1. Above(par, a, par[n])
        BY <3>5, <3>1, <2>3, <1>4
      <4> QED BY <4>1, <3>2, <3>3, <3>5
    <3> QED BY <3>4, <3>5
  <2> QED BY <2>1, <2>2, <2>3
<1>6. \A c \in 0..N : c \in T
  <2> HIDE DEF T
  <2> QED BY <1>1, <1>5, StrongInduction
<1> QED BY <1>6 DEF F

\* What is around a block that is around another is around that one.
LEMMA AboveTrans ==
  ASSUME NEW N, NEW par, Parents(par, N), NEW a \in 1..N, NEW c \in 1..N, NEW b \in 0..N,
         Above(par, a, c), Above(par, c, b)
  PROVE  Above(par, a, b)
<1> DEFINE T == {n \in 0..N : Above(par, c, n) => Above(par, a, n)}
<1>1. N \in Nat /\ \A n \in 1..N : par[n] \in 0..(n - 1)
  BY DEF Parents
<1>2. \A x \in {a, c} : /\ ~Above(par, x, 0)
                        /\ \A n \in 1..N : Above(par, x, n) <=> x = n \/ Above(par, x, par[n])
  BY AboveStep
<1>3. ASSUME NEW n \in 0..N, \A k \in 0..(n - 1) : k \in T PROVE n \in T
  <2>1. CASE n = 0
    BY <2>1, <1>2
  <2>2. CASE n # 0
    <3>1. n \in 1..N /\ par[n] \in 0..(n - 1) /\ par[n] \in 0..N
      BY <2>2, <1>1
    <3>2. par[n] \in T
      BY <3>1, <1>3
    <3> QED BY <3>1, <3>2, <1>2
  <2> QED BY <2>1, <2>2
<1>4. \A n \in 0..N : n \in T
  <2> HIDE DEF T
  <2> QED BY <1>1, <1>3, StrongInduction
<1> QED BY <1>4

-----------------------------------------------------------------------------
(* The tree.                                                               *)

\* Parents come before their children and know them.
Tree(bs) ==
  /\ bs \in Seq(Blks) /\ Len(bs) \in 1..MaxBlocks
  /\ \A b \in 1..Len(bs) : bs[b].parent \in 0..(b - 1)
  /\ \A b \in 1..Len(bs) : \A i \in 1..Len(bs[b].subs) :
       bs[b].subs[i] \in 1..Len(bs) /\ bs[bs[b].subs[i]].parent = b

\* No variable has a value yet.
NoValues(bs) == \A b \in 1..Len(bs), n \in Names : bs[b].vars[n] \in {Undeclared, Invalid}

\* The blocks cs are bs, but for their variables, ...
KeptShape(cs, bs) ==
  /\ cs \in Seq(Blks) /\ Len(cs) = Len(bs)
  /\ \A b \in 1..Len(bs) :
       /\ cs[b].kind = bs[b].kind /\ cs[b].times = bs[b].times /\ cs[b].parent = bs[b].parent
       /\ cs[b].subs = bs[b].subs /\ cs[b].use = bs[b].use /\ cs[b].state = bs[b].state

\* ... and but for what their variables hold.
Kept(cs, bs) ==
  /\ KeptShape(cs, bs)
  /\ \A b \in 1..Len(bs), n \in Names : cs[b].vars[n] = Undeclared <=> bs[b].vars[n] = Undeclared

\* Block b is as it was, but for its variables, children or state.
Same(r, q) == r.kind = q.kind /\ r.times = q.times /\ r.parent = q.parent /\ r.use = q.use

\* The fields of a block.
LEMMA BlkFields ==
  ASSUME NEW r \in Blks
  PROVE  /\ r.kind \in Elements \cup {"sequence", "repeat", "transfer", "traverse", "select"}
         /\ r.times \in Nat /\ r.parent \in Nat /\ r.subs \in Seq(Nat) /\ r.vars \in [Names -> Int]
         /\ r.use \in Names \cup {NoName} /\ r.state \in Nat
BY DEF Blks

\* cs is bs, but for the variables w of b.
VarsSet(cs, bs, b, w) ==
  /\ cs \in Seq(Blks) /\ Len(cs) = Len(bs) /\ \A c \in 1..Len(bs) : c # b => cs[c] = bs[c]
  /\ Same(cs[b], bs[b]) /\ cs[b].subs = bs[b].subs /\ cs[b].state = bs[b].state /\ cs[b].vars = w

\* An assignment to the variables of a block.
LEMMA SetVars ==
  ASSUME NEW bs \in Seq(Blks), NEW b \in 1..Len(bs), NEW w \in [Names -> Int],
         NEW cs, cs = [bs EXCEPT ![b].vars = w]
  PROVE  VarsSet(cs, bs, b, w)
<1> DEFINE q == bs[b]
           r == [q EXCEPT !.vars = w]
<1>1. q \in Blks
  BY ElementOfSeq
<1>2. cs = [bs EXCEPT ![b] = r]
  BY Zenon
<1> HIDE DEF q
<1>3. r \in Blks /\ Same(r, q) /\ r.subs = q.subs /\ r.state = q.state /\ r.vars = w
  <2>1. r \in Blks
    BY <1>1 DEF Blks
  <2>2. r.kind = q.kind /\ r.times = q.times /\ r.parent = q.parent /\ r.use = q.use /\ r.subs = q.subs /\ r.state = q.state /\ r.vars = w
    BY <1>1 DEF Blks
  <2> QED BY <2>1, <2>2 DEF Same
<1> HIDE DEF r
<1>4. cs \in Seq(Blks) /\ Len(cs) = Len(bs) /\ cs[b] = r /\ \A c \in 1..Len(bs) : c # b => cs[c] = bs[c]
  BY <1>2, <1>3, ExceptSeq, SMTT(30)
<1> QED BY <1>3, <1>4 DEF q, VarsSet

\* cs is bs, but for the children w of b.
SubsSet(cs, bs, b, w) ==
  /\ cs \in Seq(Blks) /\ Len(cs) = Len(bs) /\ \A c \in 1..Len(bs) : c # b => cs[c] = bs[c]
  /\ Same(cs[b], bs[b]) /\ cs[b].subs = w /\ cs[b].state = bs[b].state /\ cs[b].vars = bs[b].vars

\* A new child.
LEMMA SetSubs ==
  ASSUME NEW bs \in Seq(Blks), NEW b \in 1..Len(bs), NEW w \in Seq(Nat),
         NEW cs, cs = [bs EXCEPT ![b].subs = w]
  PROVE  SubsSet(cs, bs, b, w)
<1> DEFINE q == bs[b]
           r == [q EXCEPT !.subs = w]
<1>1. q \in Blks
  BY ElementOfSeq
<1>2. cs = [bs EXCEPT ![b] = r]
  BY Zenon
<1> HIDE DEF q
<1>3. r \in Blks /\ Same(r, q) /\ r.subs = w /\ r.state = q.state /\ r.vars = q.vars
  <2>1. r \in Blks
    BY <1>1 DEF Blks
  <2>2. r.kind = q.kind /\ r.times = q.times /\ r.parent = q.parent /\ r.use = q.use /\ r.subs = w /\ r.state = q.state /\ r.vars = q.vars
    BY <1>1 DEF Blks
  <2> QED BY <2>1, <2>2 DEF Same
<1> HIDE DEF r
<1>4. cs \in Seq(Blks) /\ Len(cs) = Len(bs) /\ cs[b] = r /\ \A c \in 1..Len(bs) : c # b => cs[c] = bs[c]
  BY <1>2, <1>3, ExceptSeq, SMTT(30)
<1> QED BY <1>3, <1>4 DEF q, SubsSet

\* cs is bs, but for the state w of b.
StateSet(cs, bs, b, w) ==
  /\ cs \in Seq(Blks) /\ Len(cs) = Len(bs) /\ \A c \in 1..Len(bs) : c # b => cs[c] = bs[c]
  /\ Same(cs[b], bs[b]) /\ cs[b].subs = bs[b].subs /\ cs[b].state = w /\ cs[b].vars = bs[b].vars

\* The state of a traverse block.
LEMMA SetState ==
  ASSUME NEW bs \in Seq(Blks), NEW b \in 1..Len(bs), NEW w \in Nat,
         NEW cs, cs = [bs EXCEPT ![b].state = w]
  PROVE  StateSet(cs, bs, b, w)
<1> DEFINE q == bs[b]
           r == [q EXCEPT !.state = w]
<1>1. q \in Blks
  BY ElementOfSeq
<1>2. cs = [bs EXCEPT ![b] = r]
  BY Zenon
<1> HIDE DEF q
<1>3. r \in Blks /\ Same(r, q) /\ r.subs = q.subs /\ r.state = w /\ r.vars = q.vars
  <2>1. r \in Blks
    BY <1>1 DEF Blks
  <2>2. r.kind = q.kind /\ r.times = q.times /\ r.parent = q.parent /\ r.use = q.use /\ r.subs = q.subs /\ r.state = w /\ r.vars = q.vars
    BY <1>1 DEF Blks
  <2> QED BY <2>1, <2>2 DEF Same
<1> HIDE DEF r
<1>4. cs \in Seq(Blks) /\ Len(cs) = Len(bs) /\ cs[b] = r /\ \A c \in 1..Len(bs) : c # b => cs[c] = bs[c]
  BY <1>2, <1>3, ExceptSeq
<1> QED BY <1>3, <1>4 DEF q, StateSet

\* A tree whose variables change stays a tree.
LEMMA KeptTree ==
  ASSUME NEW bs, NEW cs, Tree(bs), KeptShape(cs, bs)
  PROVE  Tree(cs)
<1>1. cs \in Seq(Blks) /\ Len(cs) = Len(bs) /\ Len(bs) \in 1..MaxBlocks
  BY DEF Tree, Kept, KeptShape
<1>2. \A b \in 1..Len(bs) : cs[b].parent = bs[b].parent /\ cs[b].subs = bs[b].subs
  BY DEF Kept, KeptShape
<1>3. \A b \in 1..Len(cs) : cs[b].parent \in 0..(b - 1)
  BY <1>1, <1>2 DEF Tree
<1>4. ASSUME NEW b \in 1..Len(cs), NEW i \in 1..Len(cs[b].subs)
      PROVE  cs[b].subs[i] \in 1..Len(cs) /\ cs[cs[b].subs[i]].parent = b
  <2>1. b \in 1..Len(bs) /\ cs[b].subs = bs[b].subs
    BY <1>1, <1>2
  <2>2. i \in 1..Len(bs[b].subs)
    BY <2>1, <1>4
  <2>3. bs[b].subs[i] \in 1..Len(bs) /\ bs[bs[b].subs[i]].parent = b
    BY <2>1, <2>2 DEF Tree
  <2> QED BY <2>1, <2>3, <1>1, <1>2
<1> QED BY <1>1, <1>3, <1>4 DEF Tree

\* cs is the tree bs with the new block r as the last child of o.
Grown(cs, bs, o, r) ==
  /\ Tree(cs) /\ NoValues(cs) /\ Len(cs) = Len(bs) + 1 /\ cs[Len(bs) + 1] = r
  /\ \A b \in 1..Len(bs) : Same(cs[b], bs[b]) /\ cs[b].state = bs[b].state /\ cs[b].vars = bs[b].vars

\* A block's last child.
LEMMA GrownTree ==
  ASSUME NEW bs, Tree(bs), NoValues(bs), Len(bs) < MaxBlocks, NEW o \in 1..Len(bs), NEW r \in Blks,
         r.parent = o, r.subs = << >>, \A n \in Names : r.vars[n] = Undeclared,
         NEW ds, SubsSet(ds, bs, o, Append(bs[o].subs, Len(bs) + 1)), NEW cs, cs = Append(ds, r)
  PROVE  Grown(cs, bs, o, r)
<1> DEFINE L == Len(bs)
           w == Append(bs[o].subs, L + 1)
<1>1. bs \in Seq(Blks) /\ L \in Nat /\ L \in 1..MaxBlocks /\ MaxBlocks \in Nat
  BY LenProperties, TmpltAssumption DEF Tree
<1>2. bs[o].subs \in Seq(Nat)
  BY <1>1, ElementOfSeq, BlkFields
<1>3. /\ w \in Seq(Nat) /\ Len(w) = Len(bs[o].subs) + 1 /\ w[Len(w)] = L + 1
      /\ \A i \in 1..Len(bs[o].subs) : w[i] = bs[o].subs[i]
  BY <1>1, <1>2, AppendProperties
<1>5. /\ ds \in Seq(Blks) /\ Len(ds) = L /\ \A c \in 1..L : c # o => ds[c] = bs[c]
      /\ Same(ds[o], bs[o]) /\ ds[o].subs = w /\ ds[o].state = bs[o].state /\ ds[o].vars = bs[o].vars
  BY DEF SubsSet
<1> HIDE DEF w, L
<1>6. cs \in Seq(Blks) /\ Len(cs) = L + 1 /\ cs[L + 1] = r /\ \A c \in 1..L : cs[c] = ds[c]
  BY <1>5, AppendProperties, SMTT(30)
<1>7. \A b \in 1..L : Same(cs[b], bs[b]) /\ cs[b].state = bs[b].state /\ cs[b].vars = bs[b].vars
  BY <1>5, <1>6 DEF Same
<1>8. o \in 1..L /\ L + 1 \in 1..MaxBlocks /\ \A c \in 1..(L + 1) : c \in 1..L \/ c = L + 1
  BY <1>1 DEF L
<1>9. NoValues(cs)
  <2> SUFFICES ASSUME NEW b \in 1..(L + 1), NEW n \in Names PROVE cs[b].vars[n] \in {Undeclared, Invalid}
    BY <1>6 DEF NoValues
  <2>1. CASE b = L + 1
    BY <2>1, <1>6
  <2>2. CASE b \in 1..L
    BY <2>2, <1>7 DEF NoValues, L
  <2> QED BY <2>1, <2>2, <1>8
<1>10. \A b \in 1..(L + 1) : cs[b].parent \in 0..(b - 1)
  <2> TAKE b \in 1..(L + 1)
  <2>1. CASE b = L + 1
    BY <2>1, <1>1, <1>6, <1>8
  <2>2. CASE b \in 1..L
    BY <2>2, <1>7 DEF Tree, L, Same
  <2> QED BY <2>1, <2>2, <1>8
<1>11. ASSUME NEW b \in 1..(L + 1), NEW i \in 1..Len(cs[b].subs)
       PROVE  cs[b].subs[i] \in 1..(L + 1) /\ cs[cs[b].subs[i]].parent = b
  <2>1. CASE b = L + 1
    BY <2>1, <1>6, <1>11
  <2>2. CASE b \in 1..L /\ (b # o \/ i \in 1..Len(bs[o].subs))
    <3>1. i \in 1..Len(bs[b].subs) /\ cs[b].subs[i] = bs[b].subs[i]
      <4>1. CASE b # o
        BY <4>1, <2>2, <1>5, <1>6, <1>11
      <4>2. CASE b = o /\ i \in 1..Len(bs[o].subs)
        BY <4>2, <2>2, <1>3, <1>5, <1>6, <1>11
      <4> QED BY <4>1, <4>2, <2>2
    <3>2. bs[b].subs[i] \in 1..L /\ bs[bs[b].subs[i]].parent = b
      BY <3>1, <2>2 DEF Tree, L
    <3>3. bs[b].subs[i] \in 1..(L + 1)
      BY <3>2, <1>1
    <3> QED BY <3>1, <3>2, <3>3, <1>7 DEF Same
  <2>3. CASE b = o /\ ~(i \in 1..Len(bs[o].subs))
    <3>1. cs[b].subs = w
      BY <2>3, <1>5, <1>6, <1>8
    <3>2. Len(bs[o].subs) \in Nat
      BY <1>2, LenProperties
    <3>3. i = Len(w)
      BY <2>3, <3>1, <3>2, <1>3, <1>11
    <3> QED BY <2>3, <3>1, <3>3, <1>1, <1>3, <1>6
  <2> QED BY <2>1, <2>2, <2>3, <1>8
<1> QED BY <1>6, <1>7, <1>8, <1>9, <1>10, <1>11 DEF Tree, Grown, L

-----------------------------------------------------------------------------
(* The inductive invariant.                                                *)

ParentOf(bs) == [b \in 1..Len(bs) |-> bs[b].parent]
RoundsOf(bs, b) == IF bs[b].kind = "repeat" THEN bs[b].times
                   ELSE IF bs[b].kind = "traverse" THEN Combos ELSE 1

\* What the parser gives the blocks: a trv element names its own state.
Marks(bs) ==
  /\ bs[Root].kind = "sequence"
  /\ \A b \in 1..Len(bs) : /\ bs[b].state \in 0..Len(bs)
                           /\ b # Root => bs[b].parent # NULL
                           /\ bs[b].kind = "select" => bs[b].use = NoName
                           /\ bs[b].kind = "I" /\ bs[b].state # NULL => bs[b].state = b

Shape ==
  /\ phase \in {"parse", "walk", "done", "undefined", "unset", "crash"}
  /\ Tree(blks) /\ Marks(blks)
  /\ open \in 1..Len(blks) /\ trv_state \in 0..Len(blks) /\ curr_blk \in 0..Len(blks)
  /\ drawn \in Nat /\ round \in [1..MaxBlocks -> Nat]
  /\ phase = "parse" => stack = << >> /\ log = << >> /\ NoValues(blks)

\* The active walk functions: each walks a child of the block of the one below.
Frame(bs, st, f) ==
  /\ st[f].blk \in 1..Len(bs)
  /\ bs[st[f].blk].parent = IF f = 1 THEN NULL ELSE st[f - 1].blk
  /\ st[f].left \in 0..(RoundsOf(bs, st[f].blk) - 1)
  /\ st[f].i \in 1..(Len(bs[st[f].blk].subs) + 1)
Frames(bs, st) ==
  /\ st \in Seq([blk : Nat, i : Nat, left : Nat])
  /\ \A f \in 1..Len(st) : Frame(bs, st, f)

\* The block walked is around the current one, or is it; the parser is done.
Nested == stack # << >> => /\ open = Root /\ curr_blk # NULL
                           /\ Above(ParentOf(blks), Top.blk, curr_blk)

Entries == [elem : Nat, blk : Nat, val : Nat, round : Nat]
Use(bs, lg, k) == bs[lg[k].elem].use

\* An entry of the log with a variable: the variable holds the value as long
\* as the round lasts, and never again.
Used(bs, rd, dr, lg, k) ==
  LET b == lg[k].blk
      n == Use(bs, lg, k)
  IN /\ n \in Names /\ lg[k].val \in 1..dr /\ lg[k].round <= rd[b]
     /\ lg[k].round = rd[b] <=> bs[b].vars[n] = lg[k].val
Logged(bs, rd, dr, lg) ==
  /\ lg \in Seq(Entries)
  /\ \A k \in 1..Len(lg) : /\ lg[k].elem \in 1..Len(bs) /\ lg[k].blk \in 0..Len(bs)
                           /\ lg[k].blk # NULL => Used(bs, rd, dr, lg, k)

\* Entry j is of the same variable, value and round as the others say.
DrawnBy(bs, lg, j, b, n, v, r) ==
  /\ bs[lg[j].elem].kind = "I" /\ Use(bs, lg, j) = n
  /\ lg[j].blk = b /\ lg[j].val = v /\ lg[j].round = r

\* A value that a variable holds has been drawn for an element of this round.
Held(bs, rd, dr, lg) ==
  \A b \in 1..Len(bs), n \in Names :
    /\ bs[b].vars[n] \in Undeclared..dr
    /\ bs[b].vars[n] > 0 => \E j \in 1..Len(lg) : DrawnBy(bs, lg, j, b, n, bs[b].vars[n], rd[b])

Agree(bs, lg, j, k) ==
  lg[j].blk # NULL /\ lg[j].blk = lg[k].blk /\ Use(bs, lg, j) = Use(bs, lg, k)
    => (lg[j].val = lg[k].val <=> lg[j].round = lg[k].round)
Drawn(bs, lg, k) ==
  bs[lg[k].elem].kind = "C" /\ lg[k].blk # NULL =>
    \E j \in 1..(k - 1) : DrawnBy(bs, lg, j, lg[k].blk, Use(bs, lg, k), lg[k].val, lg[k].round)

Values(bs, rd, dr, lg) ==
  /\ Logged(bs, rd, dr, lg) /\ Held(bs, rd, dr, lg)
  /\ \A j, k \in 1..Len(lg) : Agree(bs, lg, j, k)
  /\ \A k \in 1..Len(lg) : Drawn(bs, lg, k)

\* A traverse block with no other inside; its trv elements.
Single(bs, t) == /\ bs[t].kind = "traverse"
                 /\ \A b \in 1..Len(bs) : bs[b].kind = "traverse" /\ Above(ParentOf(bs), t, b) => b = t
TrvIn(bs, t, e) == /\ e \in 1..Len(bs) /\ bs[e].kind = "I" /\ bs[e].state # NULL
                   /\ Above(ParentOf(bs), t, e)

\* A traverse block that holds trv elements is handed the state of one of
\* them, through the parser's static variable, when it is closed.
HandedOver(bs, o, ts) ==
  \A t, e \in 1..Len(bs) : Single(bs, t) /\ TrvIn(bs, t, e) =>
    IF Above(ParentOf(bs), t, o) THEN TrvIn(bs, t, ts) ELSE TrvIn(bs, t, bs[t].state)

IInv ==
  /\ Shape /\ Frames(blks, stack) /\ Nested /\ Values(blks, round, drawn, log)
  /\ HandedOver(blks, open, trv_state) /\ LexicalScope /\ NoCrash

-----------------------------------------------------------------------------
(* The values of variables.                                                *)

\* The fields of an entry of the log.
LEMMA EntryFields ==
  ASSUME NEW e \in Entries
  PROVE  e.elem \in Nat /\ e.blk \in Nat /\ e.val \in Nat /\ e.round \in Nat
BY DEF Entries

\* A log with one more entry.
LEMMA LogGrows ==
  ASSUME NEW lg \in Seq(Entries), NEW en \in Entries, NEW lh, lh = Append(lg, en)
  PROVE  /\ Len(lg) \in Nat /\ lh \in Seq(Entries) /\ Len(lh) = Len(lg) + 1 /\ lh[Len(lg) + 1] = en
         /\ \A k \in 1..Len(lg) : lh[k] = lg[k]
         /\ \A k \in 1..Len(lh) : k \in 1..Len(lg) \/ k = Len(lg) + 1
<1>1. Len(lg) \in Nat /\ lh \in Seq(Entries) /\ Len(lh) = Len(lg) + 1 /\ lh[Len(lg) + 1] = en
  BY LenProperties, AppendProperties
<1>2. \A k \in 1..Len(lg) : lh[k] = lg[k]
  BY AppendProperties
<1>3. \A k \in 1..Len(lh) : k \in 1..Len(lg) \/ k = Len(lg) + 1
  BY <1>1
<1> QED BY <1>1, <1>2, <1>3

\* The next round: the variables lose their values, and what was logged is past.
LEMMA ValuesPass ==
  ASSUME NEW bs, NEW cs, Tree(bs), Kept(cs, bs), NEW b \in 1..Len(bs),
         \A c \in 1..Len(bs) : c # b => cs[c].vars = bs[c].vars,
         \A n \in Names : cs[b].vars[n] \in {Undeclared, Invalid},
         NEW rd \in [1..MaxBlocks -> Nat], NEW re, re[b] = rd[b] + 1,
         \A c \in 1..Len(bs) : c # b => re[c] = rd[c],
         NEW dr \in Nat, NEW lg, Values(bs, rd, dr, lg)
  PROVE  Values(cs, re, dr, lg)
<1> DEFINE L == Len(bs)
<1>1. /\ Len(cs) = L /\ L \in Nat /\ MaxBlocks \in Nat /\ \A c \in 1..L : c \in 1..MaxBlocks
      /\ \A c \in 1..L : rd[c] \in Nat
  BY LenProperties, TmpltAssumption DEF Tree, Kept, KeptShape
<1>2. \A c \in 1..L : cs[c].kind = bs[c].kind /\ cs[c].use = bs[c].use
  BY DEF Kept, KeptShape
<1>3. lg \in Seq(Entries) /\ \A k \in 1..Len(lg) : lg[k].elem \in 1..L /\ lg[k].blk \in 0..L
  BY DEF Values, Logged
<1>4. \A k \in 1..Len(lg) : lg[k] \in Entries /\ lg[k].round \in Nat
  BY <1>3, ElementOfSeq, EntryFields
<1>5. \A k \in 1..Len(lg) : Use(cs, lg, k) = Use(bs, lg, k)
  BY <1>2, <1>3 DEF Use
<1>6. ASSUME NEW k \in 1..Len(lg), lg[k].blk # NULL PROVE Used(cs, re, dr, lg, k)
  <2> DEFINE c == lg[k].blk
             n == Use(bs, lg, k)
  <2>1. c \in 1..L /\ lg[k].round \in Nat
    BY <1>1, <1>3, <1>4, <1>6 DEF NULL
  <2>2. n \in Names /\ lg[k].val \in 1..dr /\ lg[k].round <= rd[c] /\ (lg[k].round = rd[c] <=> bs[c].vars[n] = lg[k].val)
    BY <1>6 DEF Values, Logged, Used
  <2> HIDE DEF c, n
  <2>3. lg[k].round <= re[c] /\ (lg[k].round = re[c] <=> cs[c].vars[n] = lg[k].val)
    <3>1. CASE c = b
      <4>1. cs[c].vars[n] \in {-1, 0} /\ lg[k].val # -1 /\ lg[k].val # 0
        BY <3>1, <2>2 DEF Undeclared, Invalid
      <4>2. re[c] = rd[c] + 1 /\ rd[c] \in Nat
        BY <3>1, <2>1, <1>1
      <4> QED BY <4>1, <4>2, <2>1, <2>2
    <3>2. CASE c # b
      <4>1. cs[c].vars = bs[c].vars /\ re[c] = rd[c]
        BY <3>2, <2>1
      <4> QED BY <4>1, <2>2
    <3> QED BY <3>1, <3>2
  <2> QED BY <2>2, <2>3, <1>5 DEF Used, c, n
<1>7. Logged(cs, re, dr, lg)
  BY <1>1, <1>3, <1>6 DEF Logged
<1>8. \A k \in 1..Len(lg) : bs[lg[k].elem].kind = cs[lg[k].elem].kind
  BY <1>2, <1>3
<1>9. ASSUME NEW c \in 1..L, NEW n \in Names
      PROVE  /\ cs[c].vars[n] \in Undeclared..dr
             /\ cs[c].vars[n] > 0 => \E j \in 1..Len(lg) : DrawnBy(cs, lg, j, c, n, cs[c].vars[n], re[c])
  <2>1. CASE c = b
    BY <2>1 DEF Undeclared, Invalid
  <2>2. CASE c # b
    <3>1. cs[c].vars = bs[c].vars /\ re[c] = rd[c]
      BY <2>2
    <3>2. /\ bs[c].vars[n] \in Undeclared..dr
          /\ bs[c].vars[n] > 0 => \E j \in 1..Len(lg) : DrawnBy(bs, lg, j, c, n, bs[c].vars[n], rd[c])
      BY DEF Values, Held
    <3> QED BY <3>1, <3>2, <1>5, <1>8 DEF DrawnBy
  <2> QED BY <2>1, <2>2
<1>10. Held(cs, re, dr, lg)
  BY <1>1, <1>9 DEF Held
<1>11. \A j, k \in 1..Len(lg) : Agree(cs, lg, j, k)
  BY <1>5 DEF Values, Agree
<1>12. ASSUME NEW k \in 1..Len(lg) PROVE Drawn(cs, lg, k)
  <2>1. Len(lg) \in Nat /\ \A j \in 1..(k - 1) : j \in 1..Len(lg)
    BY <1>3, LenProperties
  <2>2. Drawn(bs, lg, k)
    BY DEF Values
  <2> QED BY <2>1, <2>2, <1>5, <1>8 DEF Drawn, DrawnBy
<1> QED BY <1>7, <1>10, <1>11, <1>12 DEF Values

\* The blocks cs are bs, but the variable n of block b holds v.
Given(cs, bs, b, n, v) ==
  /\ Kept(cs, bs) /\ cs[b].vars[n] = v
  /\ \A c \in 1..Len(bs), m \in Names : c # b \/ m # n => cs[c].vars[m] = bs[c].vars[m]

\* An entry for that variable.
Uses(en, bs, rd, b, n, v) ==
  /\ en \in Entries /\ en.elem \in 1..Len(bs) /\ bs[en.elem].use = n
  /\ en.blk = b /\ en.val = v /\ en.round = rd[b]

\* An element is generated with the value v of the variable n of block b: the
\* value the variable holds, or a new one that it holds from now on.
LEMMA ValuesLogged ==
  ASSUME NEW bs, NEW cs, Tree(bs), NEW b \in 1..Len(bs), NEW n \in Names, NEW v, Given(cs, bs, b, n, v),
         NEW rd \in [1..MaxBlocks -> Nat], NEW dr \in Nat, NEW ds \in Nat, NEW lg,
         Values(bs, rd, dr, lg), NEW en, Uses(en, bs, rd, b, n, v), NEW lh, lh = Append(lg, en),
         \/ v \in 1..dr /\ ds = dr /\ bs[b].vars[n] = v
         \/ v = dr + 1 /\ ds = dr + 1 /\ bs[b].vars[n] = Invalid /\ bs[en.elem].kind = "I"
  PROVE  Values(cs, rd, ds, lh)
<1>0. /\ Kept(cs, bs) /\ cs[b].vars[n] = v
      /\ \A c \in 1..Len(bs), m \in Names : c # b \/ m # n => cs[c].vars[m] = bs[c].vars[m]
      /\ en \in Entries /\ en.elem \in 1..Len(bs) /\ bs[en.elem].use = n
      /\ en.blk = b /\ en.val = v /\ en.round = rd[b]
  BY DEF Given, Uses
<1> USE <1>0
<1> DEFINE L == Len(bs)
           K == Len(lg)
<1>1. /\ Len(cs) = L /\ L \in Nat /\ MaxBlocks \in Nat /\ \A c \in 1..L : c \in 1..MaxBlocks
      /\ \A c \in 1..L : rd[c] \in Nat
  BY LenProperties, TmpltAssumption, SMTT(30) DEF Tree, Kept, KeptShape
<1>2. \A c \in 1..L : cs[c].kind = bs[c].kind /\ cs[c].use = bs[c].use
  BY DEF Kept, KeptShape
<1>3. lg \in Seq(Entries) /\ \A k \in 1..K : lg[k].elem \in 1..L /\ lg[k].blk \in 0..L
  BY DEF Values, Logged
<1>4. /\ K \in Nat /\ lh \in Seq(Entries) /\ Len(lh) = K + 1 /\ lh[K + 1] = en
      /\ \A k \in 1..K : lh[k] = lg[k]
      /\ \A k \in 1..Len(lh) : k \in 1..K \/ k = K + 1
  BY <1>3, LogGrows
<1> HIDE DEF K, L
<1>5. \A k \in 1..K : Use(cs, lh, k) = Use(bs, lg, k) /\ cs[lh[k].elem].kind = bs[lg[k].elem].kind
  BY <1>2, <1>3, <1>4 DEF Use
<1>6. Use(cs, lh, K + 1) = n
  BY <1>2, <1>4 DEF Use, L
<1>7. v \in 1..ds /\ dr <= ds
  OBVIOUS
\* the entries of the variable and what it holds
<1>8. ASSUME NEW k \in 1..K, lg[k].blk # NULL
      PROVE  /\ lg[k].blk \in 1..L /\ Use(bs, lg, k) \in Names /\ lg[k].val \in 1..dr /\ lg[k].round <= rd[lg[k].blk]
             /\ lg[k].round = rd[lg[k].blk] <=> bs[lg[k].blk].vars[Use(bs, lg, k)] = lg[k].val
  <2>1. Used(bs, rd, dr, lg, k)
    BY <1>8 DEF Values, Logged, K
  <2>2. lg[k].blk \in 1..L
    BY <1>1, <1>3, <1>8, SMTT(30) DEF NULL
  <2> QED BY <2>1, <2>2 DEF Used
<1>9. ASSUME NEW k \in 1..K, lg[k].blk = b, Use(bs, lg, k) = n
      PROVE  lg[k].val = v <=> lg[k].round = rd[b]
  <2>1. lg[k].blk # NULL
    BY <1>1, <1>9 DEF NULL, L
  <2>2. lg[k].val \in 1..dr /\ (lg[k].round = rd[b] <=> bs[b].vars[n] = lg[k].val)
    BY <2>1, <1>8, <1>9
  <2> QED BY <2>2 DEF Invalid
<1>10. ASSUME NEW k \in 1..(K + 1), lh[k].blk # NULL PROVE Used(cs, rd, ds, lh, k)
  <2>1. CASE k = K + 1
    <3>1. en.round <= rd[b]
      BY <1>1 DEF L
    <3> QED BY <2>1, <3>1, <1>4, <1>6, <1>7 DEF Used
  <2>2. CASE k \in 1..K
    <3> DEFINE c == lg[k].blk
               m == Use(bs, lg, k)
    <3>1. lg[k].blk # NULL /\ lh[k] = lg[k]
      BY <2>2, <1>4, <1>10
    <3>2. c \in 1..L /\ m \in Names /\ lg[k].val \in 1..dr /\ lg[k].round <= rd[c] /\ (lg[k].round = rd[c] <=> bs[c].vars[m] = lg[k].val)
      BY <2>2, <3>1, <1>8
    <3>3. c = b /\ m = n => (lg[k].val = v <=> lg[k].round = rd[b])
      BY <2>2, <1>9
    <3> HIDE DEF c, m
    <3>4. lg[k].round = rd[c] <=> cs[c].vars[m] = lg[k].val
      <4>1. CASE c = b /\ m = n
        BY <4>1, <3>3
      <4>2. CASE c # b \/ m # n
        <5>1. cs[c].vars[m] = bs[c].vars[m]
          BY <4>2, <3>2 DEF L
        <5> QED BY <5>1, <3>2
      <4> QED BY <4>1, <4>2
    <3>5. lg[k].val \in 1..ds
      BY <3>2, <1>7
    <3> QED BY <2>2, <3>1, <3>2, <3>4, <3>5, <1>5 DEF Used, c, m
  <2> QED BY <2>1, <2>2, <1>4
<1>11. Logged(cs, rd, ds, lh)
  <2>1. \A k \in 1..Len(lh) : lh[k].elem \in 1..L /\ lh[k].blk \in 0..L
    <3>1. b \in 0..L
      BY <1>1 DEF L
    <3> QED BY <1>3, <1>4, <3>1 DEF L
  <2> QED BY <2>1, <1>1, <1>4, <1>10 DEF Logged
<1>12. \A j \in 1..K : \A c, m, w, r : DrawnBy(bs, lg, j, c, m, w, r) => DrawnBy(cs, lh, j, c, m, w, r)
  BY <1>4, <1>5 DEF DrawnBy
<1>13. \A j \in 1..K : j \in 1..(K + 1)
  BY <1>4
<1>14. Held(cs, rd, ds, lh)
  <2> SUFFICES ASSUME NEW c \in 1..L, NEW m \in Names
               PROVE  /\ cs[c].vars[m] \in Undeclared..ds
                      /\ cs[c].vars[m] > 0 => \E j \in 1..(K + 1) : DrawnBy(cs, lh, j, c, m, cs[c].vars[m], rd[c])
    BY <1>1, <1>4 DEF Held
  <2>1. /\ bs[c].vars[m] \in Undeclared..dr
        /\ bs[c].vars[m] > 0 => \E j \in 1..K : DrawnBy(bs, lg, j, c, m, bs[c].vars[m], rd[c])
    BY DEF Values, Held, L, K
  <2>2. CASE cs[c].vars[m] = bs[c].vars[m]
    <3>1. cs[c].vars[m] \in Undeclared..ds
      BY <2>1, <2>2, <1>7 DEF Undeclared
    <3> QED BY <2>1, <2>2, <3>1, <1>12, <1>13
  <2>3. CASE cs[c].vars[m] # bs[c].vars[m]
    <3>1. c = b /\ m = n
      BY <2>3 DEF L
    <3>2. bs[en.elem].kind = "I"
      BY <2>3, <3>1
    <3>3. cs[c].vars[m] \in Undeclared..ds
      BY <3>1, <1>7 DEF Undeclared
    <3>4. cs[en.elem].kind = "I"
      BY <3>2, <1>2 DEF L
    <3>5. DrawnBy(cs, lh, K + 1, b, n, v, rd[b])
      BY <3>4, <1>4, <1>6 DEF DrawnBy
    <3>6. K + 1 \in 1..(K + 1)
      BY <1>4
    <3> QED BY <3>1, <3>3, <3>5, <3>6
  <2> QED BY <2>2, <2>3
<1>15. ASSUME NEW j \in 1..(K + 1), NEW k \in 1..(K + 1) PROVE Agree(cs, lh, j, k)
  <2>1. CASE j \in 1..K /\ k \in 1..K
    <3>1. Agree(bs, lg, j, k)
      BY <2>1 DEF Values, K
    <3> QED BY <2>1, <3>1, <1>4, <1>5 DEF Agree
  <2>2. CASE j \in 1..K /\ k = K + 1
    BY <2>2, <1>4, <1>5, <1>6, <1>9 DEF Agree
  <2>3. CASE j = K + 1 /\ k \in 1..K
    BY <2>3, <1>4, <1>5, <1>6, <1>9 DEF Agree
  <2>4. CASE j = K + 1 /\ k = K + 1
    BY <2>4, <1>4 DEF Agree
  <2> QED BY <2>1, <2>2, <2>3, <2>4, <1>4
<1>16. ASSUME NEW k \in 1..(K + 1) PROVE Drawn(cs, lh, k)
  <2>1. CASE k \in 1..K
    <3>1. \A j \in 1..(k - 1) : j \in 1..K
      BY <2>1, <1>4
    <3>2. Drawn(bs, lg, k)
      BY <2>1 DEF Values, K
    <3> QED BY <2>1, <3>1, <3>2, <1>4, <1>5, <1>12 DEF Drawn
  <2>2. CASE k = K + 1
    <3> SUFFICES ASSUME cs[en.elem].kind = "C"
                 PROVE  \E j \in 1..K : DrawnBy(cs, lh, j, b, n, v, rd[b])
      <4>1. (K + 1) - 1 = K
        BY <1>4
      <4> QED BY <2>2, <4>1, <1>4, <1>6 DEF Drawn
    <3>1. bs[en.elem].kind = "C"
      BY <1>2 DEF L
    <3>2. v \in 1..dr /\ bs[b].vars[n] = v
      BY <3>1
    <3>3. \E j \in 1..K : DrawnBy(bs, lg, j, b, n, v, rd[b])
      BY <3>2 DEF Values, Held, K
    <3> QED BY <3>3, <1>12
  <2> QED BY <2>1, <2>2, <1>4
<1> QED BY <1>4, <1>11, <1>14, <1>15, <1>16 DEF Values

\* An element without a variable.
LEMMA ValuesElement ==
  ASSUME NEW bs, Tree(bs), NEW rd \in [1..MaxBlocks -> Nat], NEW dr \in Nat, NEW lg, Values(bs, rd, dr, lg),
         NEW en \in Entries, en.elem \in 1..Len(bs), en.blk = NULL, NEW lh, lh = Append(lg, en)
  PROVE  Values(bs, rd, dr, lh)
<1> DEFINE L == Len(bs)
           K == Len(lg)
<1>1. lg \in Seq(Entries) /\ \A k \in 1..K : lg[k].elem \in 1..L /\ lg[k].blk \in 0..L /\ (lg[k].blk # NULL => Used(bs, rd, dr, lg, k))
  BY DEF Values, Logged
<1>2. /\ K \in Nat /\ lh \in Seq(Entries) /\ Len(lh) = K + 1 /\ lh[K + 1] = en
      /\ \A k \in 1..K : lh[k] = lg[k]
      /\ \A k \in 1..Len(lh) : k \in 1..K \/ k = K + 1
  BY <1>1, LogGrows
<1>3. L \in Nat
  BY LenProperties DEF Tree
<1> HIDE DEF K, L
<1>4. \A k \in 1..K : Use(bs, lh, k) = Use(bs, lg, k) /\ bs[lh[k].elem].kind = bs[lg[k].elem].kind
  BY <1>2 DEF Use
<1>5. Logged(bs, rd, dr, lh)
  <2>1. \A k \in 1..Len(lh) : lh[k].elem \in 1..L /\ lh[k].blk \in 0..L
    BY <1>1, <1>2, <1>3 DEF NULL, L
  <2>2. \A k \in 1..Len(lh) : lh[k].blk # NULL => Used(bs, rd, dr, lh, k)
    BY <1>1, <1>2, <1>4 DEF Used
  <2> QED BY <2>1, <2>2, <1>2 DEF Logged, L
<1>6. \A j \in 1..K : \A c, m, w, r : DrawnBy(bs, lg, j, c, m, w, r) => DrawnBy(bs, lh, j, c, m, w, r)
  BY <1>2, <1>4 DEF DrawnBy
<1>7. \A j \in 1..K : j \in 1..Len(lh)
  BY <1>2
<1>8. Held(bs, rd, dr, lh)
  BY <1>6, <1>7 DEF Values, Held, K
<1>9. ASSUME NEW j \in 1..Len(lh), NEW k \in 1..Len(lh) PROVE Agree(bs, lh, j, k)
  <2>1. CASE j \in 1..K /\ k \in 1..K
    <3>1. Agree(bs, lg, j, k)
      BY <2>1 DEF Values, K
    <3> QED BY <2>1, <3>1, <1>2, <1>4 DEF Agree
  <2>2. CASE j = K + 1 \/ k = K + 1
    BY <2>2, <1>2 DEF Agree
  <2> QED BY <2>1, <2>2, <1>2
<1>10. ASSUME NEW k \in 1..Len(lh) PROVE Drawn(bs, lh, k)
  <2>1. CASE k \in 1..K
    <3>1. \A j \in 1..(k - 1) : j \in 1..K
      BY <2>1, <1>2
    <3>2. Drawn(bs, lg, k)
      BY <2>1 DEF Values, K
    <3> QED BY <2>1, <3>1, <3>2, <1>2, <1>4, <1>6 DEF Drawn
  <2>2. CASE k = K + 1
    BY <2>2, <1>2 DEF Drawn
  <2> QED BY <2>1, <2>2, <1>2
<1> QED BY <1>5, <1>8, <1>9, <1>10 DEF Values

-----------------------------------------------------------------------------
(* The tree as the walk changes it: only what variables hold.              *)

\* The parents of a tree's blocks.
LEMMA ParentOfTree ==
  ASSUME NEW bs, Tree(bs)
  PROVE  Parents(ParentOf(bs), Len(bs)) /\ \A b \in 1..Len(bs) : ParentOf(bs)[b] = bs[b].parent
BY LenProperties DEF Tree, Parents, ParentOf

\* Variables do not change who is whose parent, nor how often blocks are walked.
LEMMA KeptParents ==
  ASSUME NEW bs, NEW cs, KeptShape(cs, bs)
  PROVE  ParentOf(cs) = ParentOf(bs) /\ \A b \in 1..Len(bs) : RoundsOf(cs, b) = RoundsOf(bs, b)
BY DEF Kept, KeptShape, ParentOf, RoundsOf

\* A block is walked some number of times.
LEMMA RoundsNat ==
  ASSUME NEW bs, Tree(bs), NEW b \in 1..Len(bs)
  PROVE  RoundsOf(bs, b) \in Nat
<1>1. bs[b].times \in Nat
  BY ElementOfSeq, BlkFields DEF Tree
<1> QED BY <1>1, TmpltAssumption DEF RoundsOf

\* Variables that stay declared, or not, are all that changes.
LEMMA VarsKept ==
  ASSUME NEW bs, NEW cs, NEW b \in 1..Len(bs), NEW w, VarsSet(cs, bs, b, w),
         \A n \in Names : w[n] = Undeclared <=> bs[b].vars[n] = Undeclared
  PROVE  Kept(cs, bs) /\ \A c \in 1..Len(bs) : c # b => cs[c].vars = bs[c].vars
BY DEF VarsSet, Kept, KeptShape, Same

\* A round begins: the variables of its block have no values.
LEMMA InvalidKept ==
  ASSUME NEW bs, Tree(bs), NEW b \in 1..Len(bs), NEW cs, cs = blk_invalid_var_all(bs, b)
  PROVE  /\ Kept(cs, bs) /\ \A c \in 1..Len(bs) : c # b => cs[c].vars = bs[c].vars
         /\ \A n \in Names : cs[b].vars[n] \in {Undeclared, Invalid}
<1> DEFINE q == bs[b].vars
           w == [n \in Names |-> IF q[n] = Undeclared THEN q[n] ELSE Invalid]
<1>1. bs \in Seq(Blks) /\ q \in [Names -> Int]
  BY ElementOfSeq, BlkFields DEF Tree
<1>2. cs = [bs EXCEPT ![b].vars = w]
  BY Zenon DEF blk_invalid_var_all
<1> HIDE DEF q
<1>3. w \in [Names -> Int] /\ \A n \in Names : w[n] = IF q[n] = Undeclared THEN q[n] ELSE Invalid
  BY <1>1 DEF Undeclared, Invalid
<1> HIDE DEF w
<1>4. VarsSet(cs, bs, b, w)
  BY <1>1, <1>2, <1>3, SetVars
<1>5. \A n \in Names : w[n] = Undeclared <=> bs[b].vars[n] = Undeclared
  BY <1>3 DEF q, Undeclared, Invalid
<1>6. Kept(cs, bs) /\ \A c \in 1..Len(bs) : c # b => cs[c].vars = bs[c].vars
  BY <1>4, <1>5, VarsKept
<1>7. \A n \in Names : cs[b].vars[n] \in {Undeclared, Invalid}
  BY <1>3, <1>4 DEF VarsSet
<1> QED BY <1>6, <1>7

ValueSet(cs, bs, b, n, v) == cs = [bs EXCEPT ![b].vars[n] = v]

\* A variable gets a value.
LEMMA ValueKept ==
  ASSUME NEW bs, Tree(bs), NEW b \in 1..Len(bs), NEW n \in Names, NEW v \in Nat,
         bs[b].vars[n] # Undeclared, NEW cs, ValueSet(cs, bs, b, n, v)
  PROVE  Given(cs, bs, b, n, v)
<1> DEFINE q == bs[b].vars
           w == [q EXCEPT ![n] = v]
<1>1. bs \in Seq(Blks) /\ q \in [Names -> Int]
  BY ElementOfSeq, BlkFields DEF Tree
<1>2. cs = [bs EXCEPT ![b].vars = w]
  BY Zenon DEF ValueSet
<1> HIDE DEF q
<1>3. w \in [Names -> Int] /\ w[n] = v /\ \A m \in Names : m # n => w[m] = q[m]
  BY <1>1
<1> HIDE DEF w
<1>4. VarsSet(cs, bs, b, w)
  BY <1>1, <1>2, <1>3, SetVars
<1>5. \A m \in Names : w[m] = Undeclared <=> bs[b].vars[m] = Undeclared
  BY <1>3 DEF q, Undeclared
<1>6. Kept(cs, bs) /\ \A c \in 1..Len(bs) : c # b => cs[c].vars = bs[c].vars
  BY <1>4, <1>5, VarsKept
<1>7. cs[b].vars = w
  BY <1>4 DEF VarsSet
<1> QED BY <1>3, <1>6, <1>7 DEF q, Given

-----------------------------------------------------------------------------
(* The active walk functions.                                              *)

FrameType == [blk : Nat, i : Nat, left : Nat]

\* A sequence without its last element.
LEMMA FrontFacts ==
  ASSUME NEW S, NEW st \in Seq(S), st # << >>
  PROVE  /\ Len(st) \in Nat \ {0} /\ Front(st) \in Seq(S) /\ Len(Front(st)) = Len(st) - 1
         /\ \A f \in 1..(Len(st) - 1) : Front(st)[f] = st[f]
<1>1. Len(st) \in Nat \ {0}
  BY LenProperties, EmptySeq
<1> DEFINE m == Len(st) - 1
<1>2. m \in Nat /\ m \in Int /\ 1 \in Int /\ \A f \in 1..m : f \in 1..Len(st) /\ (1 + f) - 1 = f
  BY <1>1
<1>3. \A f \in 1..m : st[f] \in S
  BY <1>2, ElementOfSeq
<1> HIDE DEF m
<1>4. /\ SubSeq(st, 1, m) \in Seq(S) /\ Len(SubSeq(st, 1, m)) = (IF 1 <= m THEN (m - 1) + 1 ELSE 0)
      /\ \A f \in 1..((m - 1) + 1) : SubSeq(st, 1, m)[f] = st[(1 + f) - 1]
  BY <1>2, <1>3, SubSeqProperties
<1>5. (m - 1) + 1 = m /\ (IF 1 <= m THEN (m - 1) + 1 ELSE 0) = m
  BY <1>2
<1>6. SubSeq(st, 1, m) \in Seq(S) /\ Len(SubSeq(st, 1, m)) = m /\ \A f \in 1..m : SubSeq(st, 1, m)[f] = st[f]
  BY <1>2, <1>4, <1>5, Zenon
<1> QED BY <1>1, <1>6 DEF Front, m

\* A walk function returns.
LEMMA FramesPop ==
  ASSUME NEW bs, NEW st, Frames(bs, st), st # << >>
  PROVE  Frames(bs, Front(st))
<1>1. st \in Seq(FrameType) /\ \A f \in 1..Len(st) : Frame(bs, st, f)
  BY DEF Frames, FrameType
<1>2. /\ Len(st) \in Nat \ {0} /\ Front(st) \in Seq(FrameType) /\ Len(Front(st)) = Len(st) - 1
      /\ \A f \in 1..(Len(st) - 1) : Front(st)[f] = st[f]
  BY <1>1, FrontFacts
<1>3. ASSUME NEW f \in 1..(Len(st) - 1) PROVE Frame(bs, Front(st), f)
  <2>1. f \in 1..Len(st) /\ f \in Int /\ (f # 1 => f - 1 \in 1..(Len(st) - 1))
    BY <1>2
  <2>2. Frame(bs, st, f)
    BY <2>1, <1>1
  <2> QED BY <2>1, <2>2, <1>2 DEF Frame
<1> QED BY <1>2, <1>3 DEF Frames, FrameType

\* The last function is at child i, with l rounds left; a function that walks b begins.
Moved(su, st, i, l) == su = Append(Front(st), [blk |-> st[Len(st)].blk, i |-> i, left |-> l])
Pushed(su, st, b, l) == su = Append(st, [blk |-> b, i |-> 1, left |-> l])

\* A walk function goes on to another child, or to its next round.
LEMMA FramesMove ==
  ASSUME NEW bs, NEW st, Frames(bs, st), st # << >>,
         NEW i \in 1..(Len(bs[st[Len(st)].blk].subs) + 1), NEW l \in 0..(RoundsOf(bs, st[Len(st)].blk) - 1),
         Len(bs[st[Len(st)].blk].subs) \in Nat, RoundsOf(bs, st[Len(st)].blk) \in Nat,
         NEW su, Moved(su, st, i, l)
  PROVE  Frames(bs, su) /\ su # << >> /\ Len(su) = Len(st) /\ su[Len(su)].blk = st[Len(st)].blk
<1> DEFINE r == [blk |-> st[Len(st)].blk, i |-> i, left |-> l]
<1>0. su = Append(Front(st), r)
  BY DEF Moved
<1>1. st \in Seq(FrameType) /\ \A f \in 1..Len(st) : Frame(bs, st, f)
  BY DEF Frames, FrameType
<1>2. /\ Len(st) \in Nat \ {0} /\ Front(st) \in Seq(FrameType) /\ Len(Front(st)) = Len(st) - 1
      /\ \A f \in 1..(Len(st) - 1) : Front(st)[f] = st[f]
  BY <1>1, FrontFacts
<1>3. st[Len(st)] \in FrameType /\ Len(st) \in 1..Len(st)
  BY <1>1, <1>2, ElementOfSeq
<1>4. i \in Nat /\ l \in Nat
  OBVIOUS
<1>5. r \in FrameType /\ r.blk = st[Len(st)].blk /\ r.i = i /\ r.left = l
  BY <1>3, <1>4 DEF FrameType
<1> HIDE DEF FrameType, r
<1>6. su \in Seq(FrameType) /\ Len(su) = Len(st) /\ su[Len(st)] = r /\ \A f \in 1..(Len(st) - 1) : su[f] = st[f]
  <2>1. su \in Seq(FrameType) /\ Len(su) = Len(Front(st)) + 1 /\ su[Len(Front(st)) + 1] = r
    BY <1>0, <1>2, <1>5, AppendProperties
  <2>2. \A f \in 1..Len(Front(st)) : su[f] = Front(st)[f]
    BY <1>0, <1>2, <1>5, AppendProperties
  <2>3. Len(Front(st)) + 1 = Len(st) /\ 1..Len(Front(st)) = 1..(Len(st) - 1)
    BY <1>2
  <2>4. su \in Seq(FrameType) /\ Len(su) = Len(st) /\ su[Len(st)] = r
    BY <2>1, <2>3
  <2>5. \A f \in 1..(Len(st) - 1) : su[f] = st[f]
    BY <2>2, <2>3, <1>2
  <2> QED BY <2>4, <2>5
<1>7. ASSUME NEW f \in 1..Len(st) PROVE Frame(bs, su, f)
  <2>1. f \in Int /\ (f = 1 \/ f - 1 \in 1..(Len(st) - 1)) /\ (f = Len(st) \/ f \in 1..(Len(st) - 1))
    BY <1>2
  <2>2. Frame(bs, st, f) /\ su[f].blk = st[f].blk
    BY <2>1, <1>1, <1>5, <1>6
  <2>3. f # 1 => su[f - 1].blk = st[f - 1].blk
    BY <2>1, <1>6
  <2>4. su[f].i \in 1..(Len(bs[st[f].blk].subs) + 1) /\ su[f].left \in 0..(RoundsOf(bs, st[f].blk) - 1)
    <3>1. CASE f = Len(st)
      BY <3>1, <1>5, <1>6
    <3>2. CASE f \in 1..(Len(st) - 1)
      BY <3>2, <2>2, <1>6 DEF Frame
    <3> QED BY <3>1, <3>2, <2>1
  <2> QED BY <2>2, <2>3, <2>4 DEF Frame
<1>8. su # << >>
  BY <1>2, <1>6, EmptySeq
<1> QED BY <1>5, <1>6, <1>7, <1>8 DEF Frames, FrameType

\* A walk function begins.
LEMMA FramesPush ==
  ASSUME NEW bs, Tree(bs), NEW st, Frames(bs, st), NEW b \in 1..Len(bs),
         bs[b].parent = IF st = << >> THEN NULL ELSE st[Len(st)].blk, RoundsOf(bs, b) # 0,
         NEW su, Pushed(su, st, b, RoundsOf(bs, b) - 1)
  PROVE  Frames(bs, su) /\ su # << >> /\ su[Len(su)].blk = b
<1> DEFINE r == [blk |-> b, i |-> 1, left |-> RoundsOf(bs, b) - 1]
<1>0. su = Append(st, r)
  BY DEF Pushed
<1>1. st \in Seq(FrameType) /\ \A f \in 1..Len(st) : Frame(bs, st, f)
  BY DEF Frames, FrameType
<1>2. Len(st) \in Nat /\ RoundsOf(bs, b) \in Nat /\ Len(bs[b].subs) \in Nat /\ Len(bs) \in Nat
  <2>1. bs \in Seq(Blks) /\ bs[b].subs \in Seq(Nat)
    BY ElementOfSeq, BlkFields DEF Tree
  <2> QED BY <2>1, <1>1, RoundsNat, LenProperties
<1>3. r \in FrameType /\ r.blk = b /\ r.i = 1 /\ r.left = RoundsOf(bs, b) - 1
  BY <1>2 DEF FrameType
<1> HIDE DEF FrameType, r
<1>4. su \in Seq(FrameType) /\ Len(su) = Len(st) + 1 /\ su[Len(st) + 1] = r /\ \A f \in 1..Len(st) : su[f] = st[f]
  BY <1>0, <1>1, <1>3, AppendProperties
<1>5. st = << >> <=> Len(st) = 0
  BY <1>1, EmptySeq
<1>6. ASSUME NEW f \in 1..(Len(st) + 1) PROVE Frame(bs, su, f)
  <2>1. CASE f \in 1..Len(st)
    <3>1. f # 1 => f - 1 \in 1..Len(st)
      BY <2>1, <1>2
    <3>2. Frame(bs, st, f)
      BY <2>1, <1>1
    <3> QED BY <2>1, <3>1, <3>2, <1>4 DEF Frame
  <2>2. CASE f = Len(st) + 1
    <3>1. su[f].i \in 1..(Len(bs[b].subs) + 1) /\ su[f].left \in 0..(RoundsOf(bs, b) - 1)
      BY <2>2, <1>2, <1>3, <1>4
    <3>2. f # 1 => Len(st) \in 1..Len(st) /\ f - 1 = Len(st) /\ st # << >>
      BY <2>2, <1>2, <1>5
    <3>3. bs[b].parent = IF f = 1 THEN NULL ELSE su[f - 1].blk
      <4>1. CASE f = 1
        BY <4>1, <2>2, <1>2, <1>5
      <4>2. CASE f # 1
        BY <4>2, <3>2, <1>4
      <4> QED BY <4>1, <4>2
    <3> QED BY <2>2, <3>1, <3>3, <1>3, <1>4 DEF Frame
  <2> QED BY <2>1, <2>2, <1>2
<1>7. su # << >>
  BY <1>2, <1>4, EmptySeq
<1> QED BY <1>3, <1>4, <1>6, <1>7 DEF Frames, FrameType

\* The active functions do not depend on what variables hold.
LEMMA FramesKept ==
  ASSUME NEW bs, NEW cs, NEW st, Kept(cs, bs), Frames(bs, st)
  PROVE  Frames(cs, st)
<1>1. Len(cs) = Len(bs) /\ \A b \in 1..Len(bs) : RoundsOf(cs, b) = RoundsOf(bs, b) /\ cs[b].parent = bs[b].parent /\ cs[b].subs = bs[b].subs
  BY KeptParents DEF Kept, KeptShape
<1>2. ASSUME NEW f \in 1..Len(st) PROVE Frame(cs, st, f)
  <2>1. Frame(bs, st, f) /\ st[f].blk \in 1..Len(bs)
    BY DEF Frames, Frame
  <2> QED BY <2>1, <1>1 DEF Frame
<1> QED BY <1>2 DEF Frames

\* Every block around the one walked is being walked.
LEMMA AroundWalked ==
  ASSUME NEW bs, Tree(bs), NEW st, Frames(bs, st), NEW f \in 1..Len(st), NEW a \in 1..Len(bs),
         Above(ParentOf(bs), a, st[f].blk)
  PROVE  \E g \in 1..Len(st) : st[g].blk = a
<1> DEFINE T == {h \in 0..Len(st) : h # 0 /\ Above(ParentOf(bs), a, st[h].blk) => \E g \in 1..Len(st) : st[g].blk = a}
<1>1. Parents(ParentOf(bs), Len(bs)) /\ \A b \in 1..Len(bs) : ParentOf(bs)[b] = bs[b].parent
  BY ParentOfTree
<1>2. ~Above(ParentOf(bs), a, 0) /\ \A b \in 1..Len(bs) : Above(ParentOf(bs), a, b) <=> a = b \/ Above(ParentOf(bs), a, bs[b].parent)
  BY <1>1, AboveStep
<1>3. Len(st) \in Nat /\ \A h \in 1..Len(st) : Frame(bs, st, h)
  BY LenProperties DEF Frames
<1>4. 0 \in T
  BY <1>3
<1>5. ASSUME NEW h \in 0..(Len(st) - 1), h \in T PROVE h + 1 \in T
  <2>1. h + 1 \in 1..Len(st) /\ h + 1 \in 0..Len(st) /\ (h # 0 => h \in 1..Len(st)) /\ (h + 1) - 1 = h
    BY <1>3
  <2>2. Frame(bs, st, h + 1)
    BY <2>1, <1>3
  <2> SUFFICES ASSUME Above(ParentOf(bs), a, st[h + 1].blk), a # st[h + 1].blk
               PROVE  \E g \in 1..Len(st) : st[g].blk = a
    BY <2>1
  <2>3. Above(ParentOf(bs), a, bs[st[h + 1].blk].parent)
    BY <2>2, <1>2 DEF Frame
  <2>4. h # 0 /\ bs[st[h + 1].blk].parent = st[h].blk
    BY <2>1, <2>2, <2>3, <1>2 DEF Frame, NULL
  <2> QED BY <2>3, <2>4, <1>5
<1>6. \A h \in 0..Len(st) : h \in T
  <2> HIDE DEF T
  <2> QED BY <1>3, <1>4, <1>5, IntervalInduction
<1>7. f \in 0..Len(st) /\ f # 0
  BY <1>3
<1> QED BY <1>6, <1>7

-----------------------------------------------------------------------------
(* Scopes.                                                                 *)

\* What is found is inside everything else there was to find.
LEMMA InnermostBelow ==
  ASSUME NEW N, NEW par, Parents(par, N), NEW S, NEW a \in 1..N, a \in S
  PROVE  \A b \in 0..N : Above(par, a, b) => Above(par, a, Innermost(par, b, S))
<1> DEFINE F(c) == Innermost(par, c, S)
           T == {c \in 0..N : Above(par, a, c) => Above(par, a, F(c))}
<1>1. N \in Nat /\ \A c \in 1..N : par[c] \in 0..(c - 1)
  BY DEF Parents
<1>2. F(0) = 0 /\ \A c \in 1..N : F(c) = IF c \in S THEN c ELSE F(par[c])
  BY InnermostStep
<1>3. ~Above(par, a, 0) /\ \A c \in 1..N : Above(par, a, c) <=> a = c \/ Above(par, a, par[c])
  BY AboveStep
<1> HIDE DEF F
<1>4. ASSUME NEW n \in 0..N, \A k \in 0..(n - 1) : k \in T PROVE n \in T
  <2>1. CASE n = 0
    BY <2>1, <1>3
  <2>2. CASE n # 0
    <3>1. n \in 1..N /\ par[n] \in 0..(n - 1)
      BY <2>2, <1>1
    <3>2. par[n] \in T
      BY <3>1, <1>4
    <3>3. F(n) = IF n \in S THEN n ELSE F(par[n])
      BY <3>1, <1>2
    <3> QED BY <3>1, <3>2, <3>3, <1>3
  <2> QED BY <2>1, <2>2
<1>5. \A c \in 0..N : c \in T
  <2> HIDE DEF T
  <2> QED BY <1>1, <1>4, StrongInduction
<1> QED BY <1>5 DEF F

\* What is found from a block is found from the blocks inside it, unless
\* something else is found there.
LEMMA FoundInside ==
  ASSUME NEW N, NEW par, Parents(par, N), NEW S, NEW a \in 1..N, NEW c \in 1..N, Above(par, a, c)
  PROVE  Innermost(par, a, S) # 0 =>
           /\ Innermost(par, c, S) # 0
           /\ Above(par, Innermost(par, a, S), c) /\ Innermost(par, a, S) \in S
<1> DEFINE d == Innermost(par, a, S)
<1> SUFFICES ASSUME d # 0 PROVE Innermost(par, c, S) # 0 /\ Above(par, d, c) /\ d \in S
  OBVIOUS
<1>1. N \in Nat /\ a \in 0..N /\ c \in 0..N
  BY DEF Parents
<1>2. d \in 0..a /\ d \in S
  BY <1>1, InnermostFinds
<1>3. Above(par, d, a)
  BY <1>1, InnermostAbove
<1>4. d \in 1..N
  BY <1>1, <1>2
<1> HIDE DEF d
<1>5. Above(par, d, c)
  BY <1>1, <1>3, <1>4, AboveTrans
<1>6. \A x \in 1..N : x \in S /\ Above(par, x, c) => Innermost(par, c, S) # 0
  BY <1>1, InnermostAbove
<1> QED BY <1>2, <1>4, <1>5, <1>6

\* A set of blocks with at most one element.
LEMMA AtMostOne ==
  ASSUME NEW N \in Nat, NEW S, S \subseteq 1..N, Cardinality(S) <= 1, NEW x \in S, NEW y \in S
  PROVE  x = y
<1> SUFFICES ASSUME x # y PROVE FALSE
  OBVIOUS
<1>1. IsFiniteSet(S)
  <2>1. 1 \in Int /\ N \in Int
    OBVIOUS
  <2>2. IsFiniteSet(1..N)
    BY <2>1, FS_Interval
  <2> QED BY <2>2, FS_Subset
<1>2. Cardinality(S) \in Nat /\ IsFiniteSet(S \ {x}) /\ Cardinality(S \ {x}) = Cardinality(S) - 1
  BY <1>1, FS_CardinalityType, FS_RemoveElement
<1>3. Cardinality(S \ {x}) \in Nat /\ (Cardinality(S \ {x}) = 0 <=> S \ {x} = {})
  BY <1>2, FS_CardinalityType, FS_EmptySet
<1>4. S \ {x} = {}
  BY <1>2, <1>3
<1> QED BY <1>4

\* The parents, as the parser and the walk read them.
LEMMA ParentIs ==
  ASSUME Tree(blks)
  PROVE  DOMAIN blks = 1..Len(blks) /\ Parent = ParentOf(blks) /\ Parents(Parent, Len(blks))
<1>1. DOMAIN blks = 1..Len(blks)
  BY LenProperties DEF Tree
<1>2. Parent = ParentOf(blks)
  BY <1>1 DEF Parent, ParentOf
<1> QED BY <1>1, <1>2, ParentOfTree

\* The search finds a block that declares the name.
LEMMA SearchFinds ==
  ASSUME Tree(blks), NEW b \in 0..Len(blks), NEW n
  PROVE  /\ blk_search_var(b, n) \in 0..Len(blks)
         /\ blk_search_var(b, n) # NULL => blks[blk_search_var(b, n)].vars[n] # Undeclared
<1>1. Parents(Parent, Len(blks)) /\ Len(blks) \in Nat
  BY ParentIs, LenProperties DEF Tree
<1>2. /\ Innermost(Parent, b, Declaring(n)) \in 0..b
      /\ Innermost(Parent, b, Declaring(n)) # 0 => Innermost(Parent, b, Declaring(n)) \in Declaring(n)
  BY <1>1, InnermostFinds
<1> QED BY <1>1, <1>2 DEF blk_search_var, Declaring, NULL

\* The block walked and the current one see the same variables, if no name is
\* declared twice; and what the first sees, the second does not miss.
LEMMA SeesTheSame ==
  ASSUME Tree(blks), NEW a \in 1..Len(blks), NEW c \in 1..Len(blks), Above(ParentOf(blks), a, c), NEW n \in Names
  PROVE  /\ blk_search_var(c, n) = NULL => blk_search_var(a, n) = NULL
         /\ NoShadow /\ blk_search_var(a, n) # NULL => blk_search_var(c, n) = blk_search_var(a, n)
<1> DEFINE N == Len(blks)
           D == Declaring(n)
           x == Innermost(Parent, a, D)
           y == Innermost(Parent, c, D)
<1>1. N \in Nat /\ DOMAIN blks = 1..N /\ Parent = ParentOf(blks) /\ Parents(Parent, N) /\ Above(Parent, a, c)
  BY ParentIs, LenProperties DEF Tree
<1>2. x # 0 => y # 0 /\ Above(Parent, x, c) /\ x \in D
  BY <1>1, FoundInside
<1>3. c \in 0..N
  BY <1>1
<1>4. y # 0 => Above(Parent, y, c)
  BY <1>1, <1>3, InnermostAbove
<1>5. y # 0 => y \in D
  BY <1>1, <1>3, InnermostFinds
<1> HIDE DEF x, y
<1>6. ASSUME NoShadow, x # 0 PROVE y = x
  <2> DEFINE S == Around(c) \cap D
  <2>1. D \subseteq 1..N
    BY <1>1 DEF Declaring
  <2>2. \A z \in 1..N : Above(Parent, z, c) => z \in Around(c)
    BY <1>1 DEF Around, Above
  <2>3. x \in S /\ y \in S /\ S \subseteq 1..N
    BY <2>1, <2>2, <1>2, <1>4, <1>5, <1>6
  <2>4. Cardinality(S) <= 1
    BY <1>1, <1>6 DEF NoShadow
  <2> HIDE DEF S
  <2> QED BY <2>3, <2>4, <1>1, AtMostOne
<1> QED BY <1>2, <1>6 DEF blk_search_var, NULL, x, y

\* An element uses the variable that its place in the document means.
LexicalAt(elem, blk) ==
  NoShadow /\ blks[elem].use # NoName =>
    LET declared == blk_search_var(blks[elem].parent, blks[elem].use)
    IN declared = NULL \/ blk = declared

\* Scopes do not depend on what variables hold.
LEMMA ScopeKept ==
  ASSUME Tree(blks), Kept(blks', blks)
  PROVE  /\ NoShadow' <=> NoShadow
         /\ \A b : \A n \in Names : blk_search_var(b, n)' = blk_search_var(b, n)
<1>1. Len(blks') = Len(blks) /\ Tree(blks')
  BY KeptTree DEF Kept, KeptShape
<1>2. DOMAIN blks = 1..Len(blks) /\ Parent = ParentOf(blks)
  BY ParentIs
<1>3. DOMAIN blks' = 1..Len(blks) /\ Parent' = ParentOf(blks')
  <2>1. DOMAIN blks' = 1..Len(blks')
    BY <1>1, LenProperties DEF Tree
  <2> QED BY <2>1, <1>1 DEF Parent, ParentOf
<1>4. Parent' = Parent
  BY <1>2, <1>3, KeptParents DEF Kept
<1>5. \A n \in Names : Declaring(n)' = Declaring(n)
  BY <1>2, <1>3 DEF Declaring, Kept, KeptShape
<1>6. \A b : Around(b)' = Around(b)
  BY <1>2, <1>3, <1>4 DEF Around
<1>7. NoShadow' <=> NoShadow
  BY <1>2, <1>3, <1>5, <1>6 DEF NoShadow
<1>8. \A b : \A n \in Names : blk_search_var(b, n)' = blk_search_var(b, n)
  BY <1>4, <1>5 DEF blk_search_var
<1> QED BY <1>7, <1>8

\* Lexical scope does not depend on what variables hold.
LEMMA LexicalKept ==
  ASSUME Tree(blks), Kept(blks', blks), NEW elem \in 1..Len(blks), NEW blk
  PROVE  LexicalAt(elem, blk)' <=> LexicalAt(elem, blk)
<1>1. blks'[elem].use = blks[elem].use /\ blks'[elem].parent = blks[elem].parent
  BY DEF Kept, KeptShape
<1>2. blks[elem].parent \in 0..Len(blks) /\ blks[elem].use \in Names \cup {NoName}
  <2>1. blks \in Seq(Blks) /\ blks[elem].parent \in 0..(elem - 1) /\ Len(blks) \in Nat
    BY LenProperties DEF Tree
  <2>2. blks[elem] \in Blks
    BY <2>1, ElementOfSeq
  <2> QED BY <2>1, <2>2, BlkFields
<1>3. NoShadow' <=> NoShadow
  BY ScopeKept
<1>4. \A p : \A n \in Names : blk_search_var(p, n)' = blk_search_var(p, n)
  BY ScopeKept
<1> QED BY <1>1, <1>2, <1>3, <1>4 DEF LexicalAt

\* The traversals do not depend on what variables hold.
LEMMA HandedKept ==
  ASSUME NEW bs, NEW cs, Tree(bs), KeptShape(cs, bs), NEW o, NEW ts, HandedOver(bs, o, ts)
  PROVE  HandedOver(cs, o, ts)
<1>1. Len(cs) = Len(bs) /\ ParentOf(cs) = ParentOf(bs) /\ \A b \in 1..Len(bs) : cs[b].kind = bs[b].kind /\ cs[b].state = bs[b].state
  BY KeptParents DEF Kept, KeptShape
<1>2. \A t \in 1..Len(bs) : Single(cs, t) <=> Single(bs, t)
  BY <1>1 DEF Single
<1>3. \A t \in 1..Len(bs) : \A e : TrvIn(cs, t, e) <=> TrvIn(bs, t, e)
  BY <1>1 DEF TrvIn
<1> QED BY <1>1, <1>2, <1>3 DEF HandedOver

-----------------------------------------------------------------------------
(* The steps of the walk.                                                  *)

\* What LexicalScope says of the log.
LEMMA LexicalIs ==
  ASSUME Values(blks, round, drawn, log)
  PROVE  /\ DOMAIN log = 1..Len(log)
         /\ LexicalScope <=>
              /\ \A k \in 1..Len(log) : LexicalAt(log[k].elem, log[k].blk)
              /\ phase = "undefined" => blk_search_var(blks[Child].parent, blks[Child].use) = NULL
<1>1. DOMAIN log = 1..Len(log)
  BY LenProperties DEF Values, Logged
<1> QED BY <1>1 DEF LexicalScope, LexicalAt

\* The block walked and its children.
LEMMA TopFacts ==
  ASSUME IInv, stack # << >>
  PROVE  /\ Tree(blks) /\ Len(stack) \in Nat \ {0} /\ Top.blk \in 1..Len(blks) /\ curr_blk \in 1..Len(blks)
         /\ Above(ParentOf(blks), Top.blk, curr_blk) /\ open = Root
         /\ Len(blks) \in Nat /\ Len(blks[Top.blk].subs) \in Nat /\ RoundsOf(blks, Top.blk) \in Nat
         /\ Top.i \in 1..(Len(blks[Top.blk].subs) + 1) /\ Top.left \in 0..(RoundsOf(blks, Top.blk) - 1)
<1>1. Tree(blks) /\ Frames(blks, stack) /\ Nested /\ curr_blk \in 0..Len(blks)
  BY DEF IInv, Shape
<1>2. stack \in Seq(FrameType) /\ \A f \in 1..Len(stack) : Frame(blks, stack, f)
  BY <1>1 DEF Frames, FrameType
<1>3. Len(stack) \in Nat \ {0}
  BY <1>2, LenProperties, EmptySeq
<1>4. Frame(blks, stack, Len(stack))
  BY <1>2, <1>3
<1>5. Top.blk \in 1..Len(blks) /\ Top.i \in 1..(Len(blks[Top.blk].subs) + 1) /\ Top.left \in 0..(RoundsOf(blks, Top.blk) - 1)
  BY <1>4 DEF Frame, Top
<1>6. blks \in Seq(Blks) /\ blks[Top.blk].subs \in Seq(Nat)
  BY <1>1, <1>5, ElementOfSeq, BlkFields DEF Tree
<1>7. Len(blks) \in Nat /\ Len(blks[Top.blk].subs) \in Nat /\ RoundsOf(blks, Top.blk) \in Nat
  BY <1>1, <1>5, <1>6, LenProperties, RoundsNat
<1>8. curr_blk \in 1..Len(blks) /\ Above(ParentOf(blks), Top.blk, curr_blk) /\ open = Root
  BY <1>1, <1>7 DEF Nested, NULL
<1> QED BY <1>1, <1>3, <1>5, <1>7, <1>8

\* The child that is walked next.
LEMMA ChildFacts ==
  ASSUME IInv, HasChild
  PROVE  /\ stack # << >> /\ phase = "walk" /\ Child \in 1..Len(blks) /\ blks[Child].parent = Top.blk
         /\ blks[Child].use \in Names \cup {NoName}
         /\ Above(ParentOf(blks), Top.blk, Child)
         /\ Frames(blks, Advanced) /\ Advanced # << >> /\ Advanced[Len(Advanced)].blk = Top.blk
<1>1. stack # << >> /\ phase = "walk" /\ Top.i <= Len(blks[Top.blk].subs)
  BY DEF HasChild, Walking
<1>2. /\ Tree(blks) /\ Top.blk \in 1..Len(blks) /\ Len(blks[Top.blk].subs) \in Nat /\ RoundsOf(blks, Top.blk) \in Nat
      /\ Top.i \in 1..(Len(blks[Top.blk].subs) + 1) /\ Top.left \in 0..(RoundsOf(blks, Top.blk) - 1)
  BY <1>1, TopFacts
<1>3. Top.i \in 1..Len(blks[Top.blk].subs) /\ Top.i + 1 \in 1..(Len(blks[Top.blk].subs) + 1)
  BY <1>1, <1>2, SMTT(30)
<1>4. Child \in 1..Len(blks) /\ blks[Child].parent = Top.blk
  BY <1>2, <1>3 DEF Tree, Child
<1>5. Frames(blks, stack)
  BY DEF IInv
<1>6. Moved(Advanced, stack, Top.i + 1, Top.left)
  BY DEF Moved, Advanced, Top
<1>7. /\ Len(blks[stack[Len(stack)].blk].subs) \in Nat /\ RoundsOf(blks, stack[Len(stack)].blk) \in Nat
      /\ Top.i + 1 \in 1..(Len(blks[stack[Len(stack)].blk].subs) + 1)
      /\ Top.left \in 0..(RoundsOf(blks, stack[Len(stack)].blk) - 1)
  BY <1>2, <1>3 DEF Top
<1>8. Frames(blks, Advanced) /\ Advanced # << >> /\ Advanced[Len(Advanced)].blk = stack[Len(stack)].blk
  BY <1>1, <1>5, <1>6, <1>7, FramesMove
<1>9. Advanced[Len(Advanced)].blk = Top.blk
  BY <1>8 DEF Top
<1>10. Parents(ParentOf(blks), Len(blks)) /\ ParentOf(blks)[Child] = Top.blk
  BY <1>2, <1>4, ParentOfTree
<1>11. /\ \A b \in 1..Len(blks) : Above(ParentOf(blks), Top.blk, b) <=> Top.blk = b \/ Above(ParentOf(blks), Top.blk, ParentOf(blks)[b])
  BY <1>2, <1>10, AboveStep
<1>12. Above(ParentOf(blks), Top.blk, Child)
  BY <1>2, <1>4, <1>10, <1>11
<1>13. blks[Child].use \in Names \cup {NoName}
  BY <1>2, <1>4, ElementOfSeq, BlkFields DEF Tree
<1> QED BY <1>1, <1>4, <1>8, <1>9, <1>12, <1>13

\* What the walk leaves alone.
LEMMA WalkKeeps ==
  ASSUME IInv, Kept(blks', blks), UNCHANGED parser
  PROVE  /\ Tree(blks') /\ Marks(blks') /\ Len(blks') = Len(blks) /\ ParentOf(blks') = ParentOf(blks)
         /\ open' \in 1..Len(blks') /\ trv_state' \in 0..Len(blks')
         /\ HandedOver(blks', open', trv_state')
<1>1. Tree(blks) /\ Marks(blks) /\ open \in 1..Len(blks) /\ trv_state \in 0..Len(blks) /\ HandedOver(blks, open, trv_state)
  BY DEF IInv, Shape
<1>2. open' = open /\ trv_state' = trv_state
  BY DEF parser
<1>3. Tree(blks') /\ Len(blks') = Len(blks) /\ ParentOf(blks') = ParentOf(blks)
  BY <1>1, KeptTree, KeptParents DEF Kept, KeptShape
<1>4. Root \in 1..Len(blks)
  BY <1>1 DEF Tree, Root
<1>5. Marks(blks')
  BY <1>1, <1>4 DEF Marks, Kept, KeptShape
<1>6. HandedOver(blks', open, trv_state)
  BY <1>1, HandedKept DEF Kept
<1> QED BY <1>1, <1>2, <1>3, <1>5, <1>6

\* The log as it was.
LEMMA LexicalStays ==
  ASSUME IInv, Kept(blks', blks), log' = log
  PROVE  \A k \in 1..Len(log) : LexicalAt(log[k].elem, log[k].blk)'
<1>1. Tree(blks) /\ Values(blks, round, drawn, log) /\ LexicalScope
  BY DEF IInv, Shape
<1>2. \A k \in 1..Len(log) : LexicalAt(log[k].elem, log[k].blk) /\ log[k].elem \in 1..Len(blks)
  BY <1>1, LexicalIs DEF Values, Logged
<1>3. \A elem \in 1..Len(blks) : \A blk : LexicalAt(elem, blk)' <=> LexicalAt(elem, blk)
  BY <1>1, LexicalKept
<1> QED BY <1>2, <1>3

\* A walk function begins: the variables of its block lose their values.
LEMMA EnterStep ==
  ASSUME IInv, open = Root, NEW b \in 1..Len(blks), NEW below, Frames(blks, below),
         blks[b].parent = IF below = << >> THEN NULL ELSE below[Len(below)].blk,
         Enter(b, below), UNCHANGED <<parser, drawn, log>>, phase' = "walk"
  PROVE  IInv'
<1>1. /\ Tree(blks) /\ Values(blks, round, drawn, log) /\ drawn \in Nat /\ round \in [1..MaxBlocks -> Nat]
      /\ curr_blk' = b /\ open' = open /\ drawn' = drawn /\ log' = log /\ UNCHANGED parser
  BY DEF IInv, Shape, Enter, parser
<1>2. Len(blks) \in Nat /\ b \in 1..MaxBlocks /\ Rounds(b) = RoundsOf(blks, b)
  BY <1>1, LenProperties, TmpltAssumption DEF Tree, Rounds, RoundsOf
<1> DEFINE P == ParentOf(blks)
<1>3. Parents(P, Len(blks)) /\ P[b] = blks[b].parent
  BY <1>1, ParentOfTree
<1>4. /\ Kept(blks', blks) /\ Frames(blks', stack') /\ round' \in [1..MaxBlocks -> Nat]
      /\ Values(blks', round', drawn', log')
      /\ stack' # << >> => Above(P, Top.blk', b)
  <2>1. CASE Rounds(b) = 0
    <3>1. stack' = below /\ blks' = blks /\ round' = round
      BY <2>1 DEF Enter
    <3>2. Kept(blks', blks)
      BY <3>1, <1>1 DEF Kept, KeptShape, Tree
    <3>3. ASSUME below # << >> PROVE Above(P, below[Len(below)].blk, b)
      <4>1. Frame(blks, below, Len(below))
        <5>1. Len(below) \in Nat \ {0}
          BY <3>3, LenProperties, EmptySeq DEF Frames
        <5> QED BY <5>1 DEF Frames
      <4>2. below[Len(below)].blk \in 1..Len(blks)
        BY <4>1 DEF Frame
      <4>3. \A c \in 1..Len(blks) : Above(P, below[Len(below)].blk, c) <=> below[Len(below)].blk = c \/ Above(P, below[Len(below)].blk, P[c])
        BY <4>2, <1>3, AboveStep
      <4> QED BY <3>3, <4>2, <4>3, <1>3
    <3> QED BY <3>1, <3>2, <3>3, <1>1 DEF Top
  <2>2. CASE Rounds(b) # 0
    <3>1. blks' = blk_invalid_var_all(blks, b) /\ round' = [round EXCEPT ![b] = @ + 1] /\ Pushed(stack', below, b, RoundsOf(blks, b) - 1)
      BY <2>2, <1>2 DEF Enter, Pushed
    <3>2. /\ Kept(blks', blks) /\ \A c \in 1..Len(blks) : c # b => blks'[c].vars = blks[c].vars
          /\ \A n \in Names : blks'[b].vars[n] \in {Undeclared, Invalid}
      BY <3>1, <1>1, InvalidKept
    <3>3. Frames(blks, stack') /\ stack' # << >> /\ stack'[Len(stack')].blk = b
      <4>1. RoundsOf(blks, b) # 0
        BY <2>2, <1>2
      <4> QED BY <4>1, <3>1, <1>1, FramesPush
    <3>4. Frames(blks', stack')
      BY <3>2, <3>3, FramesKept
    <3>5. round' \in [1..MaxBlocks -> Nat] /\ round'[b] = round[b] + 1 /\ \A c \in 1..Len(blks) : c # b => round'[c] = round[c]
      <4>1. round' = [round EXCEPT ![b] = @ + 1] /\ \A c \in 1..Len(blks) : c \in 1..MaxBlocks
        BY <3>1, <1>1, <1>2, TmpltAssumption DEF Tree
      <4> QED BY <4>1, <1>1, <1>2
    <3>6. Values(blks', round', drawn, log)
      BY <3>2, <3>5, <1>1, ValuesPass
    <3>7. Above(P, b, b)
      BY <1>3, AboveStep
    <3> QED BY <3>2, <3>3, <3>4, <3>5, <3>6, <3>7, <1>1 DEF Top
  <2> QED BY <2>1, <2>2
<1>5. /\ Tree(blks') /\ Marks(blks') /\ Len(blks') = Len(blks) /\ ParentOf(blks') = P
      /\ open' \in 1..Len(blks') /\ trv_state' \in 0..Len(blks') /\ HandedOver(blks', open', trv_state')
  BY <1>1, <1>4, WalkKeeps
<1>6. b # NULL /\ b \in 0..Len(blks)
  BY <1>2 DEF NULL
<1>7. Shape'
  BY <1>1, <1>4, <1>5, <1>6 DEF Shape
<1>8. Nested'
  BY <1>1, <1>4, <1>5, <1>6 DEF Nested
<1>9. \A k \in 1..Len(log) : LexicalAt(log[k].elem, log[k].blk)'
  BY <1>1, <1>4, LexicalStays
<1>10. LexicalScope'
  <2>1. DOMAIN log' = 1..Len(log') /\ log' = log
    BY <1>1, LexicalIs
  <2> QED BY <2>1, <1>9 DEF LexicalScope, LexicalAt
<1>11. NoCrash'
  BY DEF NoCrash
<1> QED BY <1>4, <1>5, <1>7, <1>8, <1>10, <1>11 DEF IInv

\* walk_tmplt begins with the root, ...
LEMMA WalkTmpltStep ==
  ASSUME IInv, walk_tmplt
  PROVE  IInv'
<1>1. /\ Tree(blks) /\ open = Root /\ phase = "parse" /\ phase' = "walk" /\ Enter(Root, << >>)
      /\ UNCHANGED <<parser, drawn, log>>
  BY DEF IInv, Shape, walk_tmplt, Parsing
<1>2. Root \in 1..Len(blks) /\ blks[Root].parent = NULL
  BY <1>1 DEF Tree, Root, NULL
<1>3. Frames(blks, << >>)
  BY EmptySeq DEF Frames
<1> QED BY <1>1, <1>2, <1>3, EnterStep

\* A template that does not keep to the conventions.
Excused == \E b \in DOMAIN blks : ~OwnTraversal(b) \/ (blks[b].kind = "C" /\ ~InScope(b))

\* It is in the document, not in the walk.
LEMMA StaysExcused ==
  ASSUME blks' = blks, open' = open
  PROVE  Excused' <=> Excused
<1>1. Parent' = Parent
  BY DEF Parent
<1>2. \A n : Declaring(n)' = Declaring(n)
  BY DEF Declaring
<1>3. \A b, n : blk_search_var(b, n)' = blk_search_var(b, n)
  BY <1>1, <1>2 DEF blk_search_var
<1>4. \A b : Traversing(b)' = Traversing(b) /\ Around(b)' = Around(b)
  BY <1>1 DEF Traversing, Around
<1>5. \A b : TrvElems(b)' = TrvElems(b)
  BY <1>4 DEF TrvElems
<1>6. \A b : (InScope(b)' <=> InScope(b)) /\ (OwnTraversal(b)' <=> OwnTraversal(b))
  BY <1>3, <1>4, <1>5 DEF InScope, OwnTraversal
<1> QED BY <1>6 DEF Excused

\* ... and stops at an error: nothing but the phase changes.
LEMMA StopStep ==
  ASSUME IInv, HasChild, NEW how \in {"undefined", "unset", "crash"}, phase' = how,
         UNCHANGED <<blks, parser, walker>>,
         how = "undefined" => blk_search_var(blks[Child].parent, blks[Child].use) = NULL,
         how = "crash" => Excused
  PROVE  IInv'
<1>1. /\ blks' = blks /\ open' = open /\ trv_state' = trv_state /\ stack' = stack /\ curr_blk' = curr_blk
      /\ drawn' = drawn /\ round' = round /\ log' = log
  BY DEF parser, walker
<1>2. Values(blks, round, drawn, log) /\ LexicalScope
  BY DEF IInv
<1>3. Shape'
  BY <1>1 DEF IInv, Shape
<1>4. Frames(blks, stack)' /\ Nested' /\ Values(blks, round, drawn, log)' /\ HandedOver(blks, open, trv_state)'
  BY <1>1 DEF IInv, Nested, Top
<1>5. LexicalScope'
  <2>1. Kept(blks', blks)
    BY <1>1 DEF IInv, Shape, Kept, KeptShape, Tree
  <2>2. \A k \in 1..Len(log) : LexicalAt(log[k].elem, log[k].blk)'
    BY <2>1, <1>1, LexicalStays
  <2>3. DOMAIN log' = 1..Len(log)
    BY <1>1, <1>2, LexicalIs
  <2>4. phase' = "undefined" => blk_search_var(blks[Child].parent, blks[Child].use)' = NULL
    BY <1>1 DEF blk_search_var, Parent, Declaring, Child, Top
  <2> QED BY <2>2, <2>3, <2>4, <1>1 DEF LexicalScope, LexicalAt
<1>6. NoCrash'
  BY <1>1, StaysExcused DEF NoCrash, Excused
<1> QED BY <1>3, <1>4, <1>5, <1>6 DEF IInv

\* The next round of a block.
LEMMA NextRoundStep ==
  ASSUME IInv, NextRound
  PROVE  IInv'
<1>1. /\ stack # << >> /\ phase = "walk" /\ phase' = phase /\ Top.left > 0
      /\ blks' = blk_invalid_var_all(blks, Top.blk) /\ round' = [round EXCEPT ![Top.blk] = @ + 1]
      /\ Moved(stack', stack, 1, Top.left - 1)
      /\ UNCHANGED <<parser, curr_blk, drawn, log>>
  BY DEF NextRound, Walking, Moved, Top
<1>2. open' = open /\ trv_state' = trv_state /\ curr_blk' = curr_blk /\ drawn' = drawn /\ log' = log /\ UNCHANGED parser
  BY <1>1 DEF parser
<1> DEFINE b == Top.blk
           P == ParentOf(blks)
<1>3. /\ Tree(blks) /\ b \in 1..Len(blks) /\ Len(blks[b].subs) \in Nat /\ RoundsOf(blks, b) \in Nat
      /\ Top.left \in 0..(RoundsOf(blks, b) - 1) /\ Above(P, b, curr_blk) /\ open = Root /\ curr_blk \in 1..Len(blks)
      /\ Len(blks) \in Nat
  BY <1>1, TopFacts
<1>4. /\ Values(blks, round, drawn, log) /\ drawn \in Nat /\ round \in [1..MaxBlocks -> Nat] /\ Frames(blks, stack)
  BY DEF IInv, Shape
<1>5. b = stack[Len(stack)].blk
  BY DEF Top
<1> HIDE DEF b
<1>6. /\ Kept(blks', blks) /\ \A c \in 1..Len(blks) : c # b => blks'[c].vars = blks[c].vars
      /\ \A n \in Names : blks'[b].vars[n] \in {Undeclared, Invalid}
  BY <1>1, <1>3, InvalidKept DEF b
<1>7. round' \in [1..MaxBlocks -> Nat] /\ round'[b] = round[b] + 1 /\ \A c \in 1..Len(blks) : c # b => round'[c] = round[c]
  <2>1. round' = [round EXCEPT ![b] = @ + 1] /\ \A c \in 1..Len(blks) : c \in 1..MaxBlocks
    BY <1>1, <1>3, TmpltAssumption DEF Tree, b
  <2> QED BY <2>1, <1>3, <1>4
<1>8. Values(blks', round', drawn, log)
  BY <1>3, <1>4, <1>6, <1>7, ValuesPass
<1>9. Frames(blks, stack') /\ stack' # << >> /\ stack'[Len(stack')].blk = b
  <2>1. 1 \in 1..(Len(blks[b].subs) + 1) /\ Top.left - 1 \in 0..(RoundsOf(blks, b) - 1)
    BY <1>1, <1>3
  <2> QED BY <2>1, <1>1, <1>3, <1>4, <1>5, FramesMove
<1>10. Frames(blks', stack')
  BY <1>6, <1>9, FramesKept
<1>11. /\ Tree(blks') /\ Marks(blks') /\ Len(blks') = Len(blks) /\ ParentOf(blks') = P
       /\ open' \in 1..Len(blks') /\ trv_state' \in 0..Len(blks') /\ HandedOver(blks', open', trv_state')
  BY <1>2, <1>6, WalkKeeps
<1>12. Shape'
  BY <1>1, <1>2, <1>3, <1>7, <1>11, <1>4 DEF Shape
<1>13. Nested'
  BY <1>2, <1>3, <1>9, <1>11 DEF Nested, Top, NULL
<1>14. \A k \in 1..Len(log) : LexicalAt(log[k].elem, log[k].blk)'
  BY <1>2, <1>6, LexicalStays
<1>15. LexicalScope'
  <2>1. DOMAIN log' = 1..Len(log') /\ log' = log
    BY <1>2, <1>4, LexicalIs
  <2> QED BY <2>1, <1>1, <1>14 DEF LexicalScope, LexicalAt
<1>16. NoCrash'
  BY <1>1 DEF NoCrash
<1> QED BY <1>2, <1>8, <1>10, <1>11, <1>12, <1>13, <1>15, <1>16 DEF IInv

\* A walk function returns; the current block stays the one entered last.
LEMMA ReturnStep ==
  ASSUME IInv, Return
  PROVE  IInv'
<1>1. /\ stack # << >> /\ phase = "walk" /\ stack' = Front(stack)
      /\ phase' = IF Len(stack) = 1 THEN "done" ELSE phase
      /\ UNCHANGED <<blks, parser, curr_blk, drawn, round, log>>
  BY DEF Return, Walking
<1>2. /\ blks' = blks /\ open' = open /\ trv_state' = trv_state /\ curr_blk' = curr_blk /\ drawn' = drawn
      /\ round' = round /\ log' = log /\ phase' \in {"walk", "done"}
  BY <1>1 DEF parser
<1> DEFINE P == ParentOf(blks)
<1>3. /\ Tree(blks) /\ Top.blk \in 1..Len(blks) /\ Above(P, Top.blk, curr_blk) /\ open = Root /\ curr_blk \in 1..Len(blks)
      /\ Len(blks) \in Nat
  BY <1>1, TopFacts
<1>4. Values(blks, round, drawn, log) /\ LexicalScope /\ Frames(blks, stack)
  BY DEF IInv
<1>5. Frames(blks, Front(stack))
  BY <1>1, <1>4, FramesPop
<1>6. ASSUME Front(stack) # << >> PROVE Above(P, Front(stack)[Len(Front(stack))].blk, curr_blk)
  <2>1. stack \in Seq(FrameType) /\ \A f \in 1..Len(stack) : Frame(blks, stack, f)
    BY <1>4 DEF Frames, FrameType
  <2>2. /\ Len(stack) \in Nat \ {0} /\ Len(Front(stack)) = Len(stack) - 1 /\ Front(stack) \in Seq(FrameType)
        /\ \A f \in 1..(Len(stack) - 1) : Front(stack)[f] = stack[f]
    BY <1>1, <2>1, FrontFacts
  <2>3. Len(stack) # 1 /\ Len(stack) - 1 \in 1..(Len(stack) - 1) /\ Len(stack) \in 1..Len(stack) /\ Len(stack) - 1 \in 1..Len(stack)
    <3>1. Len(Front(stack)) # 0
      BY <1>6, <2>2, EmptySeq
    <3> QED BY <3>1, <2>2
  <2> DEFINE a == stack[Len(stack) - 1].blk
  <2>4. a \in 1..Len(blks) /\ blks[Top.blk].parent = a
    BY <2>1, <2>3 DEF Frame, Top
  <2>5. Front(stack)[Len(Front(stack))].blk = a
    BY <2>2, <2>3
  <2> HIDE DEF a
  <2>6. Parents(P, Len(blks)) /\ P[Top.blk] = a
    BY <1>3, <2>4, ParentOfTree
  <2>7. \A b \in 1..Len(blks) : Above(P, a, b) <=> a = b \/ Above(P, a, P[b])
    BY <2>4, <2>6, AboveStep
  <2>8. Above(P, a, Top.blk)
    BY <2>4, <2>6, <2>7, <1>3
  <2>9. curr_blk \in 0..Len(blks)
    BY <1>3
  <2> QED BY <2>4, <2>5, <2>6, <2>8, <2>9, <1>3, AboveTrans
<1>7. Shape'
  BY <1>1, <1>2 DEF IInv, Shape
<1>8. Nested'
  BY <1>1, <1>2, <1>3, <1>6 DEF Nested, Top, NULL
<1>9. Frames(blks, stack)' /\ Values(blks, round, drawn, log)' /\ HandedOver(blks, open, trv_state)'
  BY <1>1, <1>2, <1>5 DEF IInv
<1>10. LexicalScope'
  <2>1. Kept(blks', blks)
    BY <1>2, <1>3 DEF Kept, KeptShape, Tree
  <2>2. \A k \in 1..Len(log) : LexicalAt(log[k].elem, log[k].blk)'
    BY <2>1, <1>2, LexicalStays
  <2>3. DOMAIN log' = 1..Len(log') /\ log' = log
    BY <1>2, <1>4, LexicalIs
  <2> QED BY <2>2, <2>3, <1>2 DEF LexicalScope, LexicalAt
<1>11. NoCrash'
  BY <1>2 DEF NoCrash
<1> QED BY <1>7, <1>8, <1>9, <1>10, <1>11 DEF IInv

\* An element is generated, with the variable of blk and its value or with none.
LEMMA ElementStep ==
  ASSUME IInv, HasChild, Kept(blks', blks), stack' = Advanced, phase' = phase, UNCHANGED <<parser, round>>,
         curr_blk' \in {curr_blk, Child}, drawn' \in Nat, NEW blk, NEW val,
         Log(Entry(Child, blk, val)), Values(blks', round, drawn', log'), LexicalAt(Child, blk),
         Entry(Child, blk, val) \in Entries
  PROVE  IInv'
<1> DEFINE P == ParentOf(blks)
<1>1. /\ stack # << >> /\ phase = "walk" /\ Child \in 1..Len(blks)
      /\ Above(P, Top.blk, Child) /\ Frames(blks, Advanced) /\ Advanced # << >> /\ Advanced[Len(Advanced)].blk = Top.blk
  BY ChildFacts
<1>2. Tree(blks) /\ Above(P, Top.blk, curr_blk) /\ open = Root /\ curr_blk \in 1..Len(blks) /\ Len(blks) \in Nat
  BY <1>1, TopFacts
<1>3. open' = open /\ round' = round /\ UNCHANGED parser /\ phase' = "walk"
  BY <1>1 DEF parser
<1>4. Values(blks, round, drawn, log) /\ round \in [1..MaxBlocks -> Nat]
  BY DEF IInv, Shape
<1>5. /\ Tree(blks') /\ Marks(blks') /\ Len(blks') = Len(blks) /\ ParentOf(blks') = P
      /\ open' \in 1..Len(blks') /\ trv_state' \in 0..Len(blks') /\ HandedOver(blks', open', trv_state')
  BY <1>3, WalkKeeps
<1>6. Frames(blks', stack')
  BY <1>1, FramesKept
<1>7. curr_blk' \in 1..Len(blks) /\ Above(P, Top.blk, curr_blk')
  BY <1>1, <1>2
<1>8. Shape'
  BY <1>2, <1>3, <1>4, <1>5, <1>7 DEF Shape
<1>9. Nested'
  BY <1>1, <1>2, <1>3, <1>5, <1>7 DEF Nested, Top, NULL
<1>10. LexicalScope'
  <2> DEFINE en == Entry(Child, blk, val)
             K == Len(log)
  <2>1. en.elem = Child /\ en.blk = blk
    BY DEF Entry
  <2>2. log \in Seq(Entries) /\ log' = Append(log, en) /\ \A k \in 1..K : log[k].elem \in 1..Len(blks)
    BY <1>4 DEF Values, Logged, Log
  <2> HIDE DEF en, K
  <2>3. en \in Entries
    BY DEF en
  <2>4. /\ log' \in Seq(Entries) /\ Len(log') = Len(log) + 1 /\ log'[Len(log) + 1] = en
        /\ \A k \in 1..Len(log) : log'[k] = log[k]
        /\ \A k \in 1..Len(log') : k \in 1..Len(log) \/ k = Len(log) + 1
    BY <2>2, <2>3, LogGrows
  <2>5. \A elem \in 1..Len(blks) : \A c : LexicalAt(elem, c)' <=> LexicalAt(elem, c)
    BY <1>2, LexicalKept
  <2>6. LexicalScope
    BY DEF IInv
  <2>7. \A k \in 1..Len(log) : LexicalAt(log[k].elem, log[k].blk)
    BY <2>6, <1>4, LexicalIs
  <2>8. \A elem \in 1..Len(blks) : \A c : LexicalAt(elem, c) =>
          (NoShadow' /\ blks'[elem].use # NoName => LET declared == blk_search_var(blks[elem].parent, blks[elem].use)'
                                                   IN declared = NULL \/ c = declared)
    BY <2>5 DEF LexicalAt
  <2>9. DOMAIN log' = 1..Len(log')
    BY <2>4, LenProperties
  <2>10. ASSUME NEW k \in 1..Len(log')
         PROVE  LET e == blks'[log'[k].elem]
                    declared == blk_search_var(blks[log[k].elem].parent, blks[log[k].elem].use)'
                IN NoShadow' /\ e.use # NoName => declared = NULL \/ log'[k].blk = declared
    <3>1. CASE k \in 1..Len(log)
      BY <3>1, <2>2, <2>4, <2>7, <2>8 DEF K
    <3>2. CASE k = Len(log) + 1
      BY <3>2, <2>1, <2>4, <2>8, <1>1
    <3> QED BY <3>1, <3>2, <2>4
  <2> QED BY <2>9, <2>10, <1>3 DEF LexicalScope
<1>11. NoCrash'
  BY <1>3 DEF NoCrash
<1> QED BY <1>5, <1>6, <1>3, <1>8, <1>9, <1>10, <1>11 DEF IInv

\* A select generates one of its groups.
LEMMA SelectStep ==
  ASSUME IInv, walkSelBlk
  PROVE  IInv'
<1>1. /\ HasChild /\ curr_blk' = Child /\ stack' = Advanced /\ Log(Entry(Child, NULL, 0))
      /\ phase' = phase /\ blks' = blks /\ UNCHANGED <<parser, round>> /\ drawn' = drawn
      /\ blks[Child].kind = "select"
  BY DEF walkSelBlk
<1>2. Tree(blks) /\ Marks(blks) /\ Values(blks, round, drawn, log) /\ drawn \in Nat /\ round \in [1..MaxBlocks -> Nat]
  BY DEF IInv, Shape
<1>3. Child \in 1..Len(blks)
  BY <1>1, ChildFacts
<1>4. /\ Entry(Child, NULL, 0) \in Entries /\ Entry(Child, NULL, 0).elem = Child /\ Entry(Child, NULL, 0).blk = NULL
  BY <1>2, <1>3, LenProperties DEF Entry, Entries, Tree, NULL
<1>5. Values(blks', round, drawn', log')
  BY <1>1, <1>2, <1>3, <1>4, ValuesElement DEF Log
<1>6. LexicalAt(Child, NULL)
  BY <1>1, <1>2, <1>3 DEF Marks, LexicalAt
<1>7. Kept(blks', blks)
  BY <1>1, <1>2 DEF Kept, KeptShape, Tree
<1> QED BY <1>1, <1>2, <1>4, <1>5, <1>6, <1>7, ElementStep

\* What the current block sees of a name that an element uses.
LEMMA UseFacts ==
  ASSUME IInv, HasChild, blks[Child].use # NoName
  PROVE  LET blk == blk_search_var(curr_blk, blks[Child].use)
         IN /\ blks[Child].use \in Names
            /\ blk \in 0..Len(blks) /\ LexicalAt(Child, blk)
            /\ blk = NULL => blk_search_var(blks[Child].parent, blks[Child].use) = NULL
            /\ blk # NULL => /\ blks[blk].vars[blks[Child].use] \in 0..drawn
                             /\ \A val \in Nat : Entry(Child, blk, val) \in Entries
<1> DEFINE n == blks[Child].use
           blk == blk_search_var(curr_blk, n)
<1>1. stack # << >> /\ Child \in 1..Len(blks) /\ blks[Child].parent = Top.blk /\ n \in Names
  BY ChildFacts
<1>2. /\ Tree(blks) /\ Top.blk \in 1..Len(blks) /\ curr_blk \in 1..Len(blks) /\ Len(blks) \in Nat
      /\ Above(ParentOf(blks), Top.blk, curr_blk)
  BY <1>1, TopFacts
<1>3. Values(blks, round, drawn, log) /\ drawn \in Nat /\ round \in [1..MaxBlocks -> Nat]
  BY DEF IInv, Shape
<1>4. curr_blk \in 0..Len(blks)
  BY <1>2
<1>5. blk \in 0..Len(blks) /\ (blk # NULL => blks[blk].vars[n] # Undeclared)
  BY <1>2, <1>4, SearchFinds
<1>6. /\ blk = NULL => blk_search_var(Top.blk, n) = NULL
      /\ NoShadow /\ blk_search_var(Top.blk, n) # NULL => blk = blk_search_var(Top.blk, n)
  BY <1>1, <1>2, SeesTheSame
<1> HIDE DEF blk
<1>7. LexicalAt(Child, blk)
  BY <1>1, <1>6 DEF LexicalAt
<1>8. ASSUME blk # NULL PROVE blks[blk].vars[n] \in 0..drawn /\ round[blk] \in Nat
  <2>1. blk \in 1..Len(blks) /\ blk \in 1..MaxBlocks
    BY <1>8, <1>2, <1>5, TmpltAssumption DEF Tree, NULL
  <2>2. blks[blk].vars[n] \in Undeclared..drawn
    BY <2>1, <1>1, <1>3 DEF Values, Held
  <2> QED BY <2>1, <2>2, <1>3, <1>5, <1>8 DEF Undeclared
<1>9. ASSUME blk # NULL, NEW val \in Nat PROVE Entry(Child, blk, val) \in Entries
  <2>1. Child \in Nat /\ blk \in Nat /\ round[blk] \in Nat
    BY <1>1, <1>2, <1>5, <1>8, <1>9
  <2> QED BY <2>1, <1>9 DEF Entry, Entries
<1> QED BY <1>1, <1>5, <1>6, <1>7, <1>8, <1>9 DEF blk

\* An element with no variable.
LEMMA PlainStep ==
  ASSUME IInv, HasChild, blks[Child].use = NoName, stack' = Advanced, Log(Entry(Child, NULL, 0)),
         UNCHANGED <<phase, blks, parser, curr_blk, drawn, round>>
  PROVE  IInv'
<1>1. phase' = phase /\ blks' = blks /\ UNCHANGED <<parser, round>> /\ drawn' = drawn /\ curr_blk' = curr_blk
  OBVIOUS
<1>2. Tree(blks) /\ Values(blks, round, drawn, log) /\ drawn \in Nat /\ round \in [1..MaxBlocks -> Nat]
  BY DEF IInv, Shape
<1>3. Child \in 1..Len(blks)
  BY ChildFacts
<1>4. /\ Entry(Child, NULL, 0) \in Entries /\ Entry(Child, NULL, 0).elem = Child /\ Entry(Child, NULL, 0).blk = NULL
  BY <1>2, <1>3, LenProperties DEF Entry, Entries, Tree, NULL
<1>5. Values(blks', round, drawn', log')
  BY <1>1, <1>2, <1>3, <1>4, ValuesElement DEF Log
<1>6. LexicalAt(Child, NULL)
  BY DEF LexicalAt
<1>7. Kept(blks', blks)
  BY <1>1, <1>2 DEF Kept, KeptShape, Tree
<1> QED BY <1>1, <1>2, <1>4, <1>5, <1>6, <1>7, ElementStep

-----------------------------------------------------------------------------
(* Crashes.                                                                *)

\* A template that keeps to the conventions has no traverse block in another.
LEMMA SingleTraverse ==
  ASSUME Tree(blks), ~Excused, NEW t \in 1..Len(blks), blks[t].kind = "traverse"
  PROVE  /\ Single(blks, t)
         /\ \A e : TrvIn(blks, t, e) => e \in TrvElems(t)
<1> DEFINE N == Len(blks)
           P == ParentOf(blks)
           V == {b \in DOMAIN blks : blks[b].kind = "traverse"}
<1>1. N \in Nat /\ DOMAIN blks = 1..N /\ Parent = P /\ Parents(P, N) /\ \A b \in 1..N : P[b] = blks[b].parent /\ P[b] \in 0..N /\ b \in 0..N
  <2>1. \A b \in 1..N : blks[b].parent \in 0..(b - 1)
    BY DEF Tree
  <2> QED BY <2>1, ParentIs, ParentOfTree, LenProperties, SMTT(30) DEF Tree
<1>2. \A b \in 1..N : OwnTraversal(b)
  BY <1>1 DEF Excused
<1>3. \A a \in 1..N : \A b \in 1..N : Above(P, a, b) <=> a = b \/ Above(P, a, P[b])
  BY <1>1, AboveStep
<1>4. ASSUME NEW a \in 1..N, NEW b \in 1..N, blks[a].kind = "traverse", blks[b].kind = "traverse", Above(P, a, b)
      PROVE  a = b
  <2> SUFFICES ASSUME Above(P, a, P[b]) PROVE FALSE
    BY <1>3, <1>4
  <2>1. a \in V
    BY <1>1, <1>4
  <2>2. Innermost(P, P[b], V) # 0
    <3> HIDE DEF V
    <3> QED BY <1>1, <2>1, InnermostAbove
  <2>3. Traversing(blks[b].parent) = NULL
    BY <1>2, <1>4 DEF OwnTraversal
  <2> QED BY <2>2, <2>3, <1>1 DEF Traversing, NULL
<1>5. Single(blks, t)
  BY <1>4 DEF Single
<1>6. ASSUME NEW e, TrvIn(blks, t, e) PROVE e \in TrvElems(t)
  <2>1. e \in 1..N /\ blks[e].kind = "I" /\ blks[e].state # NULL /\ Above(P, t, e) /\ t \in V
    BY <1>1, <1>6 DEF TrvIn
  <2> DEFINE u == Innermost(P, e, V)
  <2>2. u # 0 /\ Above(P, t, u)
    <3> HIDE DEF V
    <3>1. \A a \in 1..N : a \in V /\ Above(P, a, e) => u # 0
      BY <1>1, <2>1, InnermostAbove
    <3>2. \A b \in 0..N : Above(P, t, b) => Above(P, t, Innermost(P, b, V))
      BY <1>1, <2>1, InnermostBelow
    <3> QED BY <3>1, <3>2, <1>1, <2>1
  <2>3. u \in 0..e /\ (u # 0 => u \in V)
    <3> HIDE DEF V
    <3> QED BY <1>1, <2>1, InnermostFinds
  <2> HIDE DEF u
  <2>4. u \in 1..N /\ blks[u].kind = "traverse"
    BY <2>2, <2>3, <1>1
  <2>5. u = t
    BY <2>2, <2>4, <1>4
  <2>6. Traversing(e) = t
    BY <2>5, <1>1 DEF Traversing, u
  <2> QED BY <2>1, <2>6, <1>1 DEF TrvElems
<1> QED BY <1>5, <1>6

\* A traverse block that the parser has closed has the state of a trv element it holds.
LEMMA HandedFacts ==
  ASSUME IInv, stack # << >>, ~Excused, NEW t \in 1..Len(blks), blks[t].kind = "traverse"
  PROVE  /\ t # Root /\ t \notin Around(open)
         /\ \A e : TrvIn(blks, t, e) => TrvIn(blks, t, blks[t].state)
<1>1. Tree(blks) /\ Marks(blks) /\ HandedOver(blks, open, trv_state)
  BY DEF IInv, Shape
<1>2. open = Root /\ Len(blks) \in Nat
  BY TopFacts
<1>3. t # Root
  BY <1>1 DEF Marks
<1>4. ~Above(ParentOf(blks), t, Root)
  <2>1. \A b \in 0..Len(blks) : Above(ParentOf(blks), t, b) => t <= b
    BY <1>1, ParentOfTree, AboveStep
  <2> QED BY <2>1, <1>2, <1>3 DEF Root
<1>5. t \notin Around(open)
  BY <1>1, <1>2, <1>4, ParentIs DEF Around, Above
<1>6. Single(blks, t)
  BY <1>1, SingleTraverse
<1>7. ASSUME NEW e, TrvIn(blks, t, e) PROVE TrvIn(blks, t, blks[t].state)
  <2>1. e \in 1..Len(blks)
    BY <1>7 DEF TrvIn
  <2> QED BY <2>1, <1>1, <1>2, <1>4, <1>6, <1>7 DEF HandedOver
<1> QED BY <1>3, <1>5, <1>7

\* The walk of a traverse block with no state crashes.
LEMMA BareExcused ==
  ASSUME IInv, HasChild, blks[Child].kind = "traverse", blks[Child].state = NULL
  PROVE  Excused
<1> SUFFICES ASSUME ~Excused PROVE FALSE
  OBVIOUS
<1> DEFINE t == Child
<1>1. stack # << >> /\ t \in 1..Len(blks) /\ Tree(blks)
  BY ChildFacts DEF IInv, Shape
<1>2. t \notin Around(open) /\ \A e : TrvIn(blks, t, e) => TrvIn(blks, t, blks[t].state)
  BY <1>1, HandedFacts
<1>3. DOMAIN blks = 1..Len(blks) /\ Parent = ParentOf(blks) /\ Parents(Parent, Len(blks)) /\ Len(blks) \in Nat
  BY <1>1, ParentIs, LenProperties DEF Tree
<1>4. TrvElems(t) # {}
  BY <1>1, <1>2, <1>3 DEF Excused, OwnTraversal
<1>5. PICK e \in TrvElems(t) : TRUE
  BY <1>4
<1>6. e \in 1..Len(blks) /\ blks[e].kind = "I" /\ blks[e].state # NULL /\ Traversing(e) = t
  BY <1>3, <1>5 DEF TrvElems
<1> DEFINE V == {b \in DOMAIN blks : blks[b].kind = "traverse"}
<1>7. Above(Parent, t, e)
  <2>1. Innermost(Parent, e, V) = t /\ t # 0 /\ e \in 0..Len(blks)
    BY <1>1, <1>3, <1>6 DEF Traversing
  <2> HIDE DEF V
  <2>2. Innermost(Parent, e, V) # 0 => Above(Parent, Innermost(Parent, e, V), e)
    BY <1>3, <2>1, InnermostAbove
  <2> QED BY <2>1, <2>2
<1>8. TrvIn(blks, t, e)
  BY <1>3, <1>6, <1>7 DEF TrvIn
<1>9. TrvIn(blks, t, blks[t].state)
  BY <1>2, <1>8
<1> QED BY <1>9, <1>1 DEF TrvIn, NULL

\* So does that of a trv element that finds no value nodes.
LEMMA LackingExcused ==
  ASSUME IInv, HasChild, blks[Child].kind = "I", blks[Child].state # NULL, ~HasNodes(blks[Child].state)
  PROVE  Excused
<1> SUFFICES ASSUME ~Excused PROVE FALSE
  OBVIOUS
<1> DEFINE e == Child
           N == Len(blks)
           V == {b \in DOMAIN blks : blks[b].kind = "traverse"}
           t == Innermost(Parent, e, V)
<1>1. stack # << >> /\ e \in 1..N /\ blks[e].parent = Top.blk /\ Tree(blks) /\ Marks(blks) /\ Frames(blks, stack)
  BY ChildFacts DEF IInv, Shape
<1>2. DOMAIN blks = 1..N /\ Parent = ParentOf(blks) /\ Parents(Parent, N) /\ N \in Nat /\ e \in 0..N
  <2>1. DOMAIN blks = 1..N /\ Parent = ParentOf(blks) /\ Parents(Parent, N) /\ N \in Nat
    BY <1>1, ParentIs, LenProperties DEF Tree
  <2> QED BY <2>1, <1>1
<1>3. blks[e].state = e
  BY <1>1 DEF Marks
<1>4. t # 0
  <2>1. OwnTraversal(e)
    BY <1>1, <1>2 DEF Excused
  <2>2. Traversing(e) # NULL
    BY <2>1 DEF OwnTraversal
  <2> QED BY <2>2 DEF Traversing, NULL
<1>5. t \in 0..e /\ t \in V /\ Above(Parent, t, e)
  <2> HIDE DEF V
  <2> QED BY <1>2, <1>4, InnermostFinds, InnermostAbove
<1>6. t \in 1..N /\ blks[t].kind = "traverse"
  BY <1>2, <1>4, <1>5
<1> HIDE DEF t
<1>7. TrvIn(blks, t, e)
  BY <1>1, <1>2, <1>5 DEF TrvIn
<1>8. TrvIn(blks, t, blks[t].state)
  BY <1>1, <1>6, <1>7, HandedFacts
<1>9. e \in TrvElems(t) /\ blks[t].state \in TrvElems(t)
  BY <1>1, <1>6, <1>7, <1>8, SingleTraverse
<1>10. blks[t].state = e
  <2>1. OwnTraversal(t)
    BY <1>2, <1>6 DEF Excused
  <2>2. Cardinality(TrvElems(t)) <= 1
    BY <2>1, <1>6 DEF OwnTraversal
  <2>3. TrvElems(t) \subseteq 1..N
    BY <1>2 DEF TrvElems
  <2> QED BY <2>2, <2>3, <1>2, <1>9, AtMostOne
<1>11. Above(Parent, t, Top.blk)
  <2>1. t # e
    BY <1>6
  <2>2. \A b \in 1..N : Above(Parent, t, b) <=> t = b \/ Above(Parent, t, Parent[b])
    BY <1>2, <1>6, AboveStep
  <2>3. Parent[e] = Top.blk
    BY <1>1, <1>2 DEF Parent
  <2> QED BY <2>1, <2>2, <2>3, <1>1, <1>5
<1>12. Len(stack) \in 1..Len(stack) /\ DOMAIN stack = 1..Len(stack)
  BY <1>1, TopFacts, LenProperties DEF Frames
<1>13. \E g \in 1..Len(stack) : stack[g].blk = t
  BY <1>1, <1>2, <1>6, <1>11, <1>12, AroundWalked DEF Top
<1> QED BY <1>3, <1>10, <1>12, <1>13 DEF HasNodes

\* And that of a check whose variable is not found.
LEMMA CheckExcused ==
  ASSUME IInv, HasChild, blks[Child].kind = "C", blks[Child].use # NoName,
         blk_search_var(curr_blk, blks[Child].use) = NULL
  PROVE  Excused
<1>1. Child \in DOMAIN blks
  BY ChildFacts, ParentIs DEF IInv, Shape
<1>2. ~InScope(Child)
  BY UseFacts DEF InScope
<1> QED BY <1>1, <1>2 DEF Excused

-----------------------------------------------------------------------------
(* The elements.                                                           *)

\* An element that draws a value, or uses the one its variable has.
LEMMA IElemStep ==
  ASSUME IInv, walkIElem
  PROVE  IInv'
<1> DEFINE n == blks[Child].use
           blk == blk_search_var(curr_blk, n)
           new == blks[blk].vars[n] = Invalid
           val == IF new THEN drawn + 1 ELSE blks[blk].vars[n]
           state == blks[Child].state
           plain == /\ n = NoName /\ stack' = Advanced /\ Log(Entry(Child, NULL, 0))
                    /\ UNCHANGED <<phase, blks, parser, curr_blk, drawn, round>>
           found == /\ n # NoName /\ blk # NULL /\ stack' = Advanced
                    /\ drawn' = IF new THEN drawn + 1 ELSE drawn
                    /\ Log(Entry(Child, blk, val))
                    /\ UNCHANGED <<phase, parser, curr_blk, round>>
<1>1. HasChild /\ blks[Child].kind = "I"
  BY Zenon DEF walkIElem
<1>2. \/ state # NULL /\ ~HasNodes(state) /\ Stop("crash")
      \/ n # NoName /\ blk = NULL /\ Stop("undefined")
      \/ plain
      \/ found /\ ValueSet(blks', blks, blk, n, val)
  BY Zenon DEF walkIElem, ValueSet
<1>3. /\ Tree(blks) /\ Child \in 1..Len(blks) /\ Values(blks, round, drawn, log)
      /\ drawn \in Nat /\ round \in [1..MaxBlocks -> Nat]
  BY <1>1, ChildFacts DEF IInv, Shape
<1>4. n # NoName => /\ n \in Names /\ blk \in 0..Len(blks) /\ LexicalAt(Child, blk)
                    /\ blk = NULL => blk_search_var(blks[Child].parent, n) = NULL
                    /\ blk # NULL => blks[blk].vars[n] \in 0..drawn /\ \A v \in Nat : Entry(Child, blk, v) \in Entries
  BY <1>1, UseFacts
<1> HIDE DEF blk
<1>5. CASE state # NULL /\ ~HasNodes(state) /\ Stop("crash")
  <2>1. Excused
    BY <1>1, <1>5, LackingExcused
  <2> QED BY <2>1, <1>1, <1>5, StopStep DEF Stop
<1>6. CASE n # NoName /\ blk = NULL /\ Stop("undefined")
  <2>1. blk_search_var(blks[Child].parent, blks[Child].use) = NULL
    BY <1>4, <1>6
  <2> QED BY <2>1, <1>1, <1>6, StopStep DEF Stop
<1>7. CASE plain
  BY <1>1, <1>7, PlainStep
<1>8. CASE found /\ ValueSet(blks', blks, blk, n, val)
  <2>1. found
    BY <1>8
  <2>2. /\ n \in Names /\ blk \in 1..Len(blks) /\ LexicalAt(Child, blk) /\ blks[blk].vars[n] \in 0..drawn
        /\ \A v \in Nat : Entry(Child, blk, v) \in Entries
    <3>1. Len(blks) \in Nat
      BY <1>3, LenProperties DEF Tree
    <3> QED BY <2>1, <3>1, <1>4 DEF NULL
  <2>3. val \in Nat /\ drawn' \in Nat
    BY <2>1, <2>2, <1>3
  <2> DEFINE en == Entry(Child, blk, val)
  <2>4. /\ en \in Entries /\ en.elem = Child /\ en.blk = blk /\ en.val = val /\ en.round = round[blk]
    BY <2>1, <2>2, <2>3 DEF Entry
  <2>5. \/ val \in 1..drawn /\ drawn' = drawn /\ blks[blk].vars[n] = val
        \/ val = drawn + 1 /\ drawn' = drawn + 1 /\ blks[blk].vars[n] = Invalid
    BY <2>1, <2>2, <1>3 DEF Invalid
  <2>6. log' = Append(log, en)
    BY <2>1 DEF Log
  <2>7. ValueSet(blks', blks, blk, n, val)
    BY <1>8
  <2> HIDE DEF val, en
  <2>8. blks[blk].vars[n] # Undeclared
    BY <2>2 DEF Undeclared
  <2>9. Given(blks', blks, blk, n, val) /\ Kept(blks', blks)
    <3>1. Given(blks', blks, blk, n, val)
      BY <2>2, <2>3, <2>7, <2>8, <1>3, ValueKept
    <3> QED BY <3>1 DEF Given
  <2>10. Values(blks', round, drawn', log')
    <3>1. Uses(en, blks, round, blk, n, val) /\ blks[en.elem].kind = "I"
      BY <2>4, <1>1, <1>3 DEF Uses
    <3> QED BY <3>1, <2>2, <2>3, <2>5, <2>6, <2>9, <1>3, ValuesLogged
  <2>11. /\ stack' = Advanced /\ phase' = phase /\ UNCHANGED <<parser, round>> /\ curr_blk' = curr_blk
         /\ Log(Entry(Child, blk, val))
    BY <2>1 DEF val
  <2> QED BY <2>2, <2>3, <2>4, <2>9, <2>10, <2>11, <1>1, ElementStep DEF en
<1> QED BY <1>2, <1>5, <1>6, <1>7, <1>8

\* A check uses the value its variable has.
LEMMA CElemStep ==
  ASSUME IInv, walkCElem
  PROVE  IInv'
<1> DEFINE n == blks[Child].use
           blk == blk_search_var(curr_blk, n)
           val == blks[blk].vars[n]
           rest == UNCHANGED <<phase, blks, parser, curr_blk, drawn, round>>
<1>1. HasChild /\ blks[Child].kind = "C"
  BY DEF walkCElem
<1>2. \/ n # NoName /\ blk = NULL /\ Stop("crash")
      \/ Stop("unset")
      \/ n = NoName /\ stack' = Advanced /\ Log(Entry(Child, NULL, 0)) /\ rest
      \/ n # NoName /\ blk # NULL /\ val > 0 /\ stack' = Advanced /\ Log(Entry(Child, blk, val)) /\ rest
  <2> HIDE DEF rest
  <2>1. 0 > 0 <=> FALSE
    OBVIOUS
  <2> QED BY <2>1, Zenon DEF walkCElem, rest, NULL
<1>3. /\ Tree(blks) /\ Child \in 1..Len(blks) /\ Values(blks, round, drawn, log)
      /\ drawn \in Nat /\ round \in [1..MaxBlocks -> Nat]
  BY <1>1, ChildFacts DEF IInv, Shape
<1>4. n # NoName => /\ n \in Names /\ blk \in 0..Len(blks) /\ LexicalAt(Child, blk)
                    /\ blk # NULL => blks[blk].vars[n] \in 0..drawn /\ \A v \in Nat : Entry(Child, blk, v) \in Entries
  BY <1>1, UseFacts
<1>5. CASE n # NoName /\ blk = NULL /\ Stop("crash")
  <2>1. Excused
    BY <1>1, <1>5, CheckExcused
  <2> QED BY <2>1, <1>1, <1>5, StopStep DEF Stop
<1>6. CASE Stop("unset")
  BY <1>1, <1>6, StopStep DEF Stop
<1>7. CASE n = NoName /\ stack' = Advanced /\ Log(Entry(Child, NULL, 0)) /\ rest
  BY <1>1, <1>7, PlainStep
<1> HIDE DEF blk
<1>8. CASE n # NoName /\ blk # NULL /\ val > 0 /\ stack' = Advanced /\ Log(Entry(Child, blk, val)) /\ rest
  <2>1. /\ n \in Names /\ blk \in 1..Len(blks) /\ LexicalAt(Child, blk)
        /\ \A v \in Nat : Entry(Child, blk, v) \in Entries
    <3>1. Len(blks) \in Nat
      BY <1>3, LenProperties DEF Tree
    <3> QED BY <3>1, <1>4, <1>8 DEF NULL
  <2>2. val \in Nat /\ val \in 1..drawn
    BY <1>3, <1>4, <1>8
  <2> DEFINE en == Entry(Child, blk, val)
  <2>3. /\ en \in Entries /\ en.elem = Child /\ en.blk = blk /\ en.val = val /\ en.round = round[blk]
    BY <1>8, <2>1, <2>2 DEF Entry
  <2>4. log' = Append(log, en) /\ Log(Entry(Child, blk, val)) /\ stack' = Advanced
    BY <1>8 DEF Log
  <2>5. blks' = blks /\ drawn' = drawn /\ phase' = phase /\ UNCHANGED <<parser, round>> /\ curr_blk' = curr_blk
    BY <1>8
  <2>6. Kept(blks', blks)
    BY <2>5, <1>3 DEF Kept, KeptShape, Tree
  <2>7. Given(blks', blks, blk, n, val) /\ Uses(en, blks, round, blk, n, val) /\ blks[blk].vars[n] = val
    BY <2>3, <2>5, <2>6, <1>3 DEF Given, Uses
  <2> HIDE DEF en, val
  <2>8. Values(blks', round, drawn', log')
    BY <2>1, <2>2, <2>4, <2>5, <2>7, <1>3, ValuesLogged
  <2> QED BY <2>1, <2>3, <2>4, <2>5, <2>6, <2>8, <1>1, <1>3, ElementStep DEF en, val
<1> QED BY <1>2, <1>5, <1>6, <1>7, <1>8

\* A nested block is entered, or has no traversal state.
LEMMA WalkBlkStep ==
  ASSUME IInv, WalkBlk
  PROVE  IInv'
<1>1. HasChild /\ UNCHANGED parser
  BY DEF WalkBlk
<1>2. /\ stack # << >> /\ phase = "walk" /\ Child \in 1..Len(blks) /\ blks[Child].parent = Top.blk
      /\ Frames(blks, Advanced) /\ Advanced # << >> /\ Advanced[Len(Advanced)].blk = Top.blk
  BY <1>1, ChildFacts
<1>3. open = Root
  BY <1>2, TopFacts
<1>4. CASE blks[Child].kind = "traverse" /\ blks[Child].state = NULL
  <2>1. Excused
    BY <1>1, <1>4, BareExcused
  <2>2. phase' = "crash" /\ UNCHANGED <<blks, parser, walker>>
    BY <1>1, <1>4 DEF WalkBlk
  <2> QED BY <2>1, <2>2, <1>1, StopStep
<1>5. CASE ~(blks[Child].kind = "traverse" /\ blks[Child].state = NULL)
  <2>1. Enter(Child, Advanced) /\ UNCHANGED <<parser, drawn, log>> /\ phase' = "walk"
    BY <1>1, <1>2, <1>5 DEF WalkBlk
  <2> QED BY <2>1, <1>2, <1>3, EnterStep
<1> QED BY <1>4, <1>5

-----------------------------------------------------------------------------
(* The parser.                                                             *)

\* What a step of the parser has to keep: nothing is walked yet.
LEMMA ParseKeeps ==
  ASSUME IInv, phase = "parse", phase' \in {"parse", "crash"}, UNCHANGED walker,
         Tree(blks'), Marks(blks'), NoValues(blks'), Len(blks') \in Nat, Len(blks) <= Len(blks'),
         open' \in 1..Len(blks'), trv_state' \in 0..Len(blks'), HandedOver(blks', open', trv_state')
  PROVE  IInv'
<1>1. /\ stack' = stack /\ curr_blk' = curr_blk /\ drawn' = drawn /\ round' = round /\ log' = log
      /\ stack = << >> /\ log = << >> /\ curr_blk \in 0..Len(blks) /\ drawn \in Nat
      /\ round \in [1..MaxBlocks -> Nat] /\ Tree(blks)
  BY DEF walker, IInv, Shape
<1>2. curr_blk \in 0..Len(blks')
  BY <1>1, LenProperties DEF Tree
<1>3. Shape'
  BY <1>1, <1>2 DEF Shape
<1>4. Len(log) = 0 /\ log \in Seq(Entries) /\ stack \in Seq([blk : Nat, i : Nat, left : Nat]) /\ Len(stack) = 0
      /\ DOMAIN log = {}
  BY <1>1, EmptySeq
<1>5. Frames(blks, stack)' /\ Nested' /\ NoCrash'
  BY <1>1, <1>4 DEF Frames, Nested, NoCrash
<1>6. Values(blks, round, drawn, log)'
  <2>1. \A b \in 1..Len(blks'), n \in Names : blks'[b].vars[n] \in Undeclared..drawn /\ ~(blks'[b].vars[n] > 0)
    BY <1>1 DEF NoValues, Undeclared, Invalid
  <2> QED BY <2>1, <1>1, <1>4 DEF Values, Logged, Held
<1>7. LexicalScope'
  BY <1>1, <1>4 DEF LexicalScope
<1> QED BY <1>3, <1>5, <1>6, <1>7 DEF IInv

\* A new child of a block is inside what is around the block.
LEMMA GrownAbove ==
  ASSUME NEW bs, Tree(bs), NEW o \in 1..Len(bs), NEW r, r.parent = o, NEW cs, Grown(cs, bs, o, r)
  PROVE  /\ Len(bs) \in Nat
         /\ \A a, b \in 1..Len(bs) : Above(ParentOf(cs), a, b) <=> Above(ParentOf(bs), a, b)
         /\ \A a \in 1..Len(bs) : Above(ParentOf(cs), a, Len(bs) + 1) <=> Above(ParentOf(bs), a, o)
         /\ \A a \in 1..Len(bs) : ~Above(ParentOf(cs), Len(bs) + 1, a)
<1> DEFINE L == Len(bs)
           P == ParentOf(bs)
           Q == ParentOf(cs)
<1>1. L \in Nat /\ Parents(P, L) /\ Parents(Q, L + 1)
  BY LenProperties, ParentOfTree DEF Tree, Grown
<1>2. Q[L + 1] = o /\ \A b \in 1..L : Q[b] = P[b]
  <2>1. \A b \in 1..(L + 1) : Q[b] = cs[b].parent
    BY <1>1, ParentOfTree DEF Grown
  <2>2. cs[L + 1] = r /\ \A b \in 1..L : cs[b].parent = bs[b].parent
    BY DEF Grown, Same
  <2>3. \A b \in 1..L : P[b] = bs[b].parent /\ b \in 1..(L + 1)
    BY <1>1, ParentOfTree
  <2> QED BY <2>1, <2>2, <2>3, <1>1
<1>3. \A b \in 1..L : P[b] \in 0..(b - 1)
  BY <1>1 DEF Parents
<1> HIDE DEF P, Q
<1>4. ASSUME NEW a \in 1..L PROVE \A b \in 0..L : Above(Q, a, b) <=> Above(P, a, b)
  <2>1. ~Above(P, a, 0) /\ \A b \in 1..L : Above(P, a, b) <=> a = b \/ Above(P, a, P[b])
    BY <1>1, AboveStep
  <2>2. ~Above(Q, a, 0) /\ \A b \in 1..(L + 1) : Above(Q, a, b) <=> a = b \/ Above(Q, a, Q[b])
    <3>1. a \in 1..(L + 1)
      BY <1>1
    <3> QED BY <3>1, <1>1, AboveStep
  <2> DEFINE T == {b \in 0..L : Above(Q, a, b) <=> Above(P, a, b)}
  <2>3. ASSUME NEW n \in 0..L, \A k \in 0..(n - 1) : k \in T PROVE n \in T
    <3>1. CASE n = 0
      BY <3>1, <2>1, <2>2
    <3>2. CASE n # 0
      <4>1. n \in 1..L /\ n \in 1..(L + 1) /\ P[n] \in 0..(n - 1)
        BY <3>2, <1>1, <1>3
      <4>2. P[n] \in T
        BY <4>1, <2>3
      <4> QED BY <4>1, <4>2, <2>1, <2>2, <1>2
    <3> QED BY <3>1, <3>2
  <2>4. \A n \in 0..L : n \in T
    <3> HIDE DEF T
    <3> QED BY <1>1, <2>3, StrongInduction
  <2> QED BY <2>4
<1>5. ASSUME NEW a \in 1..L PROVE (Above(Q, a, L + 1) <=> Above(P, a, o)) /\ ~Above(Q, L + 1, a)
  <2>1. a \in 1..(L + 1) /\ L + 1 \in 1..(L + 1) /\ o \in 0..L /\ a \in 0..(L + 1) /\ ~(L + 1 <= a) /\ a # L + 1
    BY <1>1
  <2>2. Above(Q, a, L + 1) <=> Above(Q, a, o)
    <3>1. \A b \in 1..(L + 1) : Above(Q, a, b) <=> a = b \/ Above(Q, a, Q[b])
      BY <1>1, <2>1, AboveStep
    <3> QED BY <3>1, <2>1, <1>2
  <2>3. ~Above(Q, L + 1, a)
    <3>1. \A b \in 0..(L + 1) : Above(Q, L + 1, b) => L + 1 <= b
      BY <1>1, <2>1, AboveStep
    <3> QED BY <3>1, <2>1
  <2> QED BY <2>1, <2>2, <2>3, <1>4
<1>6. \A a, b \in 1..L : Above(Q, a, b) <=> Above(P, a, b)
  BY <1>1, <1>4
<1> QED BY <1>1, <1>5, <1>6 DEF P, Q

\* What the parser holds behind a new child r of o: the open block p and its state us.
LeftBehind(bs, o, r, ts, p, us) ==
  /\ p = o \/ p = Len(bs) + 1
  /\ r.kind = "I" => p = o
  /\ us = IF r.kind = "I" /\ r.state # NULL THEN Len(bs) + 1 ELSE ts

\* A new block, which may be a trv element that leaves its state behind or
\* a block that is opened, keeps what is handed over.
LEMMA GrownHanded ==
  ASSUME NEW bs, Tree(bs), NEW o \in 1..Len(bs), NEW r, r.parent = o, NEW cs, Grown(cs, bs, o, r),
         NEW ts, HandedOver(bs, o, ts), NEW p, NEW us, LeftBehind(bs, o, r, ts, p, us)
  PROVE  HandedOver(cs, p, us)
<1>0. /\ p = o \/ p = Len(bs) + 1
      /\ r.kind = "I" => p = o
      /\ us = IF r.kind = "I" /\ r.state # NULL THEN Len(bs) + 1 ELSE ts
  BY DEF LeftBehind
<1> USE <1>0
<1> DEFINE L == Len(bs)
           P == ParentOf(bs)
           Q == ParentOf(cs)
<1>1. /\ L \in Nat /\ \A a, b \in 1..L : Above(Q, a, b) <=> Above(P, a, b)
      /\ \A a \in 1..L : Above(Q, a, L + 1) <=> Above(P, a, o)
      /\ \A a \in 1..L : ~Above(Q, L + 1, a)
  BY GrownAbove
<1>2. Len(cs) = L + 1 /\ cs[L + 1] = r /\ \A b \in 1..L : cs[b].kind = bs[b].kind /\ cs[b].state = bs[b].state
  BY DEF Grown, Same
<1>3. \A c \in 1..(L + 1) : c \in 1..L \/ c = L + 1
  BY <1>1
<1>4. \A t \in 1..L : Above(Q, t, p) <=> Above(P, t, o)
  BY <1>1
<1>5. \A t \in 1..L : \A e : TrvIn(bs, t, e) => TrvIn(cs, t, e)
  <2> TAKE t \in 1..L
  <2> TAKE e
  <2> HAVE TrvIn(bs, t, e)
  <2>1. e \in 1..L /\ e \in 1..(L + 1)
    BY <1>1 DEF TrvIn
  <2> QED BY <2>1, <1>1, <1>2 DEF TrvIn
<1> SUFFICES ASSUME NEW t \in 1..(L + 1), NEW e \in 1..(L + 1), Single(cs, t), TrvIn(cs, t, e)
             PROVE  IF Above(Q, t, p) THEN TrvIn(cs, t, us) ELSE TrvIn(cs, t, cs[t].state)
  BY <1>2 DEF HandedOver
<1>6. t \in 1..L
  <2> SUFFICES ASSUME t = L + 1 PROVE FALSE
    BY <1>3
  <2>1. e = L + 1
    BY <1>1, <1>3 DEF TrvIn
  <2> QED BY <2>1 DEF TrvIn, Single
<1>7. Single(bs, t)
  <2>1. \A b \in 1..L : b \in 1..(L + 1)
    BY <1>1
  <2> QED BY <2>1, <1>1, <1>2, <1>6 DEF Single
<1>8. CASE e = L + 1
  <2>1. r.kind = "I" /\ r.state # NULL /\ Above(P, t, o)
    BY <1>1, <1>2, <1>6, <1>8 DEF TrvIn
  <2>2. us = e /\ Above(Q, t, p)
    BY <2>1, <1>4, <1>6, <1>8
  <2> QED BY <2>2
<1>9. CASE e \in 1..L
  <2>1. TrvIn(bs, t, e)
    BY <1>1, <1>2, <1>6, <1>9 DEF TrvIn
  <2>2. IF Above(P, t, o) THEN TrvIn(bs, t, ts) ELSE TrvIn(bs, t, bs[t].state)
    BY <2>1, <1>6, <1>7, <1>9 DEF HandedOver
  <2>3. CASE Above(P, t, o) /\ r.kind = "I" /\ r.state # NULL
    <3>1. us = L + 1 /\ L + 1 \in 1..(L + 1) /\ Above(Q, t, L + 1) /\ Above(Q, t, p)
      BY <2>3, <1>1, <1>4, <1>6
    <3>2. TrvIn(cs, t, us)
      BY <3>1, <2>3, <1>2 DEF TrvIn
    <3> QED BY <3>1, <3>2
  <2>4. CASE Above(P, t, o) /\ ~(r.kind = "I" /\ r.state # NULL)
    BY <2>2, <2>4, <1>4, <1>5, <1>6
  <2>5. CASE ~Above(P, t, o)
    BY <2>2, <2>5, <1>2, <1>4, <1>5, <1>6
  <2> QED BY <2>3, <2>4, <2>5
<1> QED BY <1>3, <1>8, <1>9

\* A new block in the document.
LEMMA NewBlkStep ==
  ASSUME IInv, Room, NEW kind \in Elements \cup {"sequence", "repeat", "transfer", "traverse", "select"},
         NEW times \in Nat, NEW use \in Names \cup {NoName}, NEW state \in {NULL, New},
         blks' = WithBlk(kind, times, use, state),
         kind = "select" => use = NoName, state # NULL => kind = "I",
         open' \in {open, New}, kind = "I" => open' = open,
         trv_state' = IF kind = "I" /\ state # NULL THEN New ELSE trv_state,
         phase' \in {"parse", "crash"}, UNCHANGED walker
  PROVE  IInv'
<1> DEFINE L == Len(blks)
           w == Append(blks[open].subs, New)
           ds == [blks EXCEPT ![open].subs = w]
           r == [kind |-> kind, times |-> times, parent |-> open, subs |-> << >>,
                 vars |-> [n \in Names |-> Undeclared], use |-> use, state |-> state]
<1>1. /\ Tree(blks) /\ Marks(blks) /\ open \in 1..L /\ trv_state \in 0..L /\ NoValues(blks)
      /\ phase = "parse" /\ L < MaxBlocks /\ HandedOver(blks, open, trv_state)
  BY DEF IInv, Shape, Room, Parsing
<1>2. L \in Nat /\ New = L + 1 /\ blks \in Seq(Blks)
  BY <1>1, LenProperties DEF Tree, New
<1>3. r \in Blks /\ r.parent = open /\ r.subs = << >> /\ r.kind = kind /\ r.use = use /\ r.state = state
      /\ \A n \in Names : r.vars[n] = Undeclared
  <2>1. open \in Nat /\ << >> \in Seq(Nat) /\ [n \in Names |-> Undeclared] \in [Names -> Int] /\ state \in Nat
    BY <1>1, <1>2 DEF Undeclared, NULL
  <2> QED BY <2>1 DEF Blks
<1>4. blks' = Append(ds, r)
  BY Zenon DEF WithBlk
<1>5. w \in Seq(Nat)
  <2>1. blks[open] \in Blks
    BY <1>1, <1>2, ElementOfSeq
  <2>2. blks[open].subs \in Seq(Nat) /\ New \in Nat
    BY <2>1, <1>2, BlkFields
  <2> QED BY <2>2, AppendProperties
<1> HIDE DEF r
<1>6. SubsSet(ds, blks, open, w)
  <2> HIDE DEF w
  <2> QED BY <1>1, <1>2, <1>5, SetSubs
<1>7. Grown(blks', blks, open, r)
  <2>1. SubsSet(ds, blks, open, Append(blks[open].subs, Len(blks) + 1))
    BY <1>6, Zenon DEF New
  <2> HIDE DEF ds
  <2> QED BY <2>1, <1>1, <1>3, <1>4, GrownTree
<1>8. /\ Tree(blks') /\ NoValues(blks') /\ Len(blks') = L + 1 /\ blks'[L + 1] = r
      /\ \A b \in 1..L : Same(blks'[b], blks[b]) /\ blks'[b].state = blks[b].state
  BY <1>7 DEF Grown
<1>9. Marks(blks')
  <2>1. Root \in 1..L
    BY <1>1 DEF Tree, Root
  <2>2. ASSUME NEW b \in 1..(L + 1)
        PROVE  /\ blks'[b].state \in 0..(L + 1)
               /\ b # Root => blks'[b].parent # NULL
               /\ blks'[b].kind = "select" => blks'[b].use = NoName
               /\ blks'[b].kind = "I" /\ blks'[b].state # NULL => blks'[b].state = b
    <3>1. CASE b = L + 1
      <4>1. state \in 0..(L + 1) /\ (state # NULL => state = L + 1) /\ open # NULL
        BY <1>1, <1>2 DEF NULL
      <4> QED BY <3>1, <4>1, <1>3, <1>8
    <3>2. CASE b \in 1..L
      <4>1. /\ blks[b].state \in 0..L /\ (b # Root => blks[b].parent # NULL)
            /\ (blks[b].kind = "select" => blks[b].use = NoName)
            /\ (blks[b].kind = "I" /\ blks[b].state # NULL => blks[b].state = b)
        BY <3>2, <1>1 DEF Marks
      <4>2. blks[b].state \in 0..(L + 1)
        BY <4>1, <1>2
      <4> QED BY <3>2, <4>1, <4>2, <1>8 DEF Same
    <3> QED BY <3>1, <3>2, <1>2
  <2>3. blks'[Root].kind = "sequence"
    BY <2>1, <1>1, <1>8 DEF Marks, Same
  <2> QED BY <2>2, <2>3, <1>8 DEF Marks
<1>10. HandedOver(blks', open', trv_state')
  <2>1. open' = open \/ open' = Len(blks) + 1
    BY <1>2
  <2>2. trv_state' = IF r.kind = "I" /\ r.state # NULL THEN Len(blks) + 1 ELSE trv_state
    BY <1>2, <1>3
  <2>3. (r.kind = "I" => open' = open) /\ r.parent = open
    BY <1>3
  <2>4. LeftBehind(blks, open, r, trv_state, open', trv_state')
    BY <2>1, <2>2, <2>3 DEF LeftBehind
  <2> QED BY <2>3, <2>4, <1>1, <1>7, GrownHanded
<1>11. open' \in 1..(L + 1) /\ trv_state' \in 0..(L + 1)
  BY <1>1, <1>2
<1>12. Len(blks') \in Nat /\ Len(blks) <= Len(blks')
  BY <1>2, <1>8
<1> QED BY <1>1, <1>8, <1>9, <1>10, <1>11, <1>12, ParseKeeps

\* A variable is declared.
LEMMA ParseVStep ==
  ASSUME IInv, NEW name \in Names, parseV(name)
  PROVE  IInv'
<1> DEFINE q == blks[open].vars
           w == [q EXCEPT ![name] = Invalid]
<1>1. /\ Tree(blks) /\ Marks(blks) /\ open \in 1..Len(blks) /\ trv_state \in 0..Len(blks) /\ NoValues(blks)
      /\ phase = "parse" /\ phase' = "parse" /\ HandedOver(blks, open, trv_state)
      /\ open' = open /\ trv_state' = trv_state /\ UNCHANGED walker
  BY Zenon DEF IInv, Shape, parseV, Parsing, parser
<1>2. Len(blks) \in Nat /\ blks \in Seq(Blks) /\ q \in [Names -> Int]
  BY <1>1, LenProperties, ElementOfSeq, BlkFields DEF Tree
<1>3. blks' = [blks EXCEPT ![open].vars = w]
  BY Zenon DEF parseV
<1> HIDE DEF q
<1>4. w \in [Names -> Int] /\ w[name] = Invalid /\ \A m \in Names : m # name => w[m] = q[m]
  BY <1>2 DEF Invalid
<1> HIDE DEF w
<1>5. VarsSet(blks', blks, open, w)
  BY <1>1, <1>2, <1>3, <1>4, SetVars
<1>6. KeptShape(blks', blks)
  BY <1>5 DEF VarsSet, KeptShape, Same
<1>7. Tree(blks') /\ Len(blks') = Len(blks)
  BY <1>1, <1>6, KeptTree DEF KeptShape
<1>8. Marks(blks')
  <2>1. Root \in 1..Len(blks)
    BY <1>1 DEF Tree, Root
  <2> QED BY <2>1, <1>1, <1>6, SMTT(30) DEF Marks, KeptShape
<1>9. NoValues(blks')
  <2> SUFFICES ASSUME NEW b \in 1..Len(blks), NEW n \in Names PROVE blks'[b].vars[n] \in {Undeclared, Invalid}
    BY <1>7 DEF NoValues
  <2>1. blks[b].vars[n] \in {Undeclared, Invalid}
    BY <1>1 DEF NoValues
  <2>2. CASE b # open
    BY <2>1, <2>2, <1>5 DEF VarsSet
  <2>3. CASE b = open
    BY <2>1, <2>3, <1>4, <1>5 DEF VarsSet, q
  <2> QED BY <2>2, <2>3
<1>10. HandedOver(blks', open', trv_state')
  BY <1>1, <1>6, HandedKept
<1> QED BY <1>1, <1>2, <1>7, <1>8, <1>9, <1>10, ParseKeeps

\* A block is closed; a traverse block is handed the state.
LEMMA CloseStep ==
  ASSUME IInv, CloseBlk
  PROVE  IInv'
<1> DEFINE N == Len(blks)
           o == open
           P == ParentOf(blks)
<1>1. /\ Tree(blks) /\ Marks(blks) /\ o \in 1..N /\ trv_state \in 0..N /\ NoValues(blks) /\ o # Root
      /\ phase = "parse" /\ phase' = "parse" /\ HandedOver(blks, o, trv_state)
      /\ open' = blks[o].parent /\ UNCHANGED walker
  BY Zenon DEF IInv, Shape, CloseBlk, Parsing
<1>2. /\ blks[o].kind = "traverse" => blks' = [blks EXCEPT ![o].state = trv_state] /\ trv_state' = NULL
      /\ blks[o].kind # "traverse" => blks' = blks /\ trv_state' = trv_state
  BY Zenon DEF CloseBlk
<1>3. N \in Nat /\ blks \in Seq(Blks) /\ Parents(P, N) /\ P[o] = open' /\ Root \in 1..N
  BY <1>1, LenProperties, ParentOfTree, SMTT(30) DEF Tree, Root
<1>4. open' \in 1..N /\ open' \in 0..(o - 1)
  <2>1. open' # 0 /\ open' \in 0..(o - 1)
    BY <1>1 DEF Marks, NULL, Tree
  <2> QED BY <2>1, <1>1, <1>3
<1>5. \A t \in 1..N : (Above(P, t, o) <=> t = o \/ Above(P, t, open')) /\ (Above(P, t, open') => t <= open')
  <2>1. open' \in 0..N
    BY <1>3, <1>4
  <2> QED BY <2>1, <1>1, <1>3, AboveStep
<1>6. Above(P, o, o) /\ ~Above(P, o, open')
  BY <1>1, <1>3, <1>4, <1>5
<1>7. CASE blks[o].kind # "traverse"
  <2>1. blks' = blks /\ trv_state' = trv_state
    BY <1>2, <1>7
  <2>2. HandedOver(blks, open', trv_state)
    <3> SUFFICES ASSUME NEW t \in 1..N, NEW e \in 1..N, Single(blks, t), TrvIn(blks, t, e)
                 PROVE  IF Above(P, t, open') THEN TrvIn(blks, t, trv_state) ELSE TrvIn(blks, t, blks[t].state)
      BY DEF HandedOver
    <3>1. IF Above(P, t, o) THEN TrvIn(blks, t, trv_state) ELSE TrvIn(blks, t, blks[t].state)
      BY <1>1 DEF HandedOver
    <3>2. t # o
      BY <1>7 DEF Single
    <3> QED BY <3>1, <3>2, <1>5
  <2>3. Len(blks') \in Nat /\ Len(blks) <= Len(blks')
    BY <2>1, <1>3
  <2> QED BY <2>1, <2>2, <2>3, <1>1, <1>4, ParseKeeps
<1>8. CASE blks[o].kind = "traverse"
  <2>1. blks' = [blks EXCEPT ![o].state = trv_state] /\ trv_state' = NULL /\ trv_state \in Nat
    BY <1>1, <1>2, <1>8
  <2>2. StateSet(blks', blks, o, trv_state)
    BY <2>1, <1>1, <1>3, SetState
  <2>3. /\ blks' \in Seq(Blks) /\ Len(blks') = N /\ \A c \in 1..N : c # o => blks'[c] = blks[c]
        /\ Same(blks'[o], blks[o]) /\ blks'[o].subs = blks[o].subs /\ blks'[o].state = trv_state
        /\ blks'[o].vars = blks[o].vars
    BY <2>2 DEF StateSet
  <2>4. \A b \in 1..N : /\ blks'[b].kind = blks[b].kind /\ blks'[b].parent = blks[b].parent
                        /\ blks'[b].subs = blks[b].subs /\ blks'[b].use = blks[b].use /\ blks'[b].vars = blks[b].vars
    BY <2>3 DEF Same
  <2>5. Tree(blks')
    <3>1. \A b \in 1..N : blks'[b].parent \in 0..(b - 1)
      BY <2>4, <1>1 DEF Tree
    <3>2. ASSUME NEW b \in 1..N, NEW i \in 1..Len(blks'[b].subs)
          PROVE  blks'[b].subs[i] \in 1..N /\ blks'[blks'[b].subs[i]].parent = b
      <4>1. blks'[b].subs = blks[b].subs
        BY <2>4
      <4>2. i \in 1..Len(blks[b].subs)
        BY <4>1, <3>2
      <4>3. blks[b].subs[i] \in 1..N /\ blks[blks[b].subs[i]].parent = b
        BY <4>2, <1>1 DEF Tree
      <4> QED BY <4>1, <4>3, <2>4
    <3>3. N \in 1..MaxBlocks
      BY <1>1 DEF Tree
    <3> QED BY <3>1, <3>2, <3>3, <2>3 DEF Tree
  <2>6. ParentOf(blks') = P
    BY <2>3, <2>4 DEF ParentOf
  <2>7. NoValues(blks')
    BY <2>3, <2>4, <1>1 DEF NoValues
  <2>8. Marks(blks')
    BY <2>3, <2>4, <1>1, <1>3, <1>8 DEF Marks
  <2>9. \A t \in 1..N : (Single(blks', t) <=> Single(blks, t)) /\ \A e : TrvIn(blks', t, e) <=> TrvIn(blks, t, e)
    <3>1. \A t \in 1..N : Single(blks', t) <=> Single(blks, t)
      BY <2>3, <2>4, <2>6 DEF Single
    <3>2. \A e \in 1..N : blks[e].kind = "I" => blks'[e].state = blks[e].state
      BY <2>3, <1>8
    <3>3. \A t \in 1..N : \A e : TrvIn(blks', t, e) <=> TrvIn(blks, t, e)
      BY <3>2, <2>3, <2>4, <2>6 DEF TrvIn
    <3> QED BY <3>1, <3>3
  <2>10. HandedOver(blks', open', trv_state')
    <3> SUFFICES ASSUME NEW t \in 1..N, NEW e \in 1..N, Single(blks, t), TrvIn(blks, t, e)
                 PROVE  ~Above(P, t, open') /\ TrvIn(blks, t, blks'[t].state)
      BY <2>3, <2>6, <2>9 DEF HandedOver
    <3>1. IF Above(P, t, o) THEN TrvIn(blks, t, trv_state) ELSE TrvIn(blks, t, blks[t].state)
      BY <1>1 DEF HandedOver
    <3>2. CASE t = o
      BY <3>1, <3>2, <1>6, <2>3
    <3>3. CASE t # o
      <4>1. ~Above(P, t, o)
        BY <3>3, <1>1, <1>8 DEF Single
      <4> QED BY <3>1, <3>3, <4>1, <1>5, <2>3
    <3> QED BY <3>2, <3>3
  <2>11. trv_state' \in 0..Len(blks')
    BY <2>1, <2>3, <1>3 DEF NULL
  <2> QED BY <2>3, <2>5, <2>7, <2>8, <2>10, <2>11, <1>1, <1>3, <1>4, ParseKeeps
<1> QED BY <1>7, <1>8

\* One tag of the document.
LEMMA ParseStep ==
  ASSUME IInv, Parse
  PROVE  IInv'
<1>1. CASE \E n \in Names : parseV(n)
  BY <1>1, ParseVStep
<1>2. ASSUME NEW n \in Names \cup {NoName}, parseI(n) PROVE IInv'
  <2>1. Room /\ blks' = WithBlk("I", 1, n, NULL) /\ phase' = phase /\ open' = open /\ trv_state' = trv_state /\ UNCHANGED walker
    BY <1>2, Zenon DEF parseI, parser
  <2>2. phase' = "parse" /\ "I" \in Elements \cup {"sequence", "repeat", "transfer", "traverse", "select"} /\ 1 \in Nat
    BY <2>1 DEF Room, Parsing, Elements
  <2> QED BY <2>1, <2>2, NewBlkStep
<1>3. ASSUME NEW n \in Names \cup {NoName}, parseI_trv(n) PROVE IInv'
  <2>1. Room /\ blks' = WithBlk("I", 1, n, New) /\ phase' = phase /\ open' = open /\ trv_state' = New /\ UNCHANGED walker
    BY <1>3, Zenon DEF parseI_trv
  <2>2. phase' = "parse" /\ "I" \in Elements \cup {"sequence", "repeat", "transfer", "traverse", "select"} /\ 1 \in Nat
    BY <2>1 DEF Room, Parsing, Elements
  <2>3. New # NULL
    BY LenProperties DEF IInv, Shape, Tree, New, NULL
  <2> QED BY <2>1, <2>2, <2>3, NewBlkStep
<1>4. ASSUME NEW n \in Names \cup {NoName}, parseC(n) PROVE IInv'
  <2>1. Room /\ blks' = WithBlk("C", 1, n, NULL) /\ phase' = phase /\ open' = open /\ trv_state' = trv_state /\ UNCHANGED walker
    BY <1>4, Zenon DEF parseC, parser
  <2>2. phase' = "parse" /\ "C" \in Elements \cup {"sequence", "repeat", "transfer", "traverse", "select"} /\ 1 \in Nat
    BY <2>1 DEF Room, Parsing, Elements
  <2> QED BY <2>1, <2>2, NewBlkStep
<1>5. ASSUME NEW child \in {"G", "I"}, parseSelBlk(child) PROVE IInv'
  <2>1. Room /\ blks' = WithBlk("select", 1, NoName, NULL) /\ open' = open /\ trv_state' = trv_state /\ UNCHANGED walker
    BY <1>5, Zenon DEF parseSelBlk, parser
  <2>2. phase' \in {"parse", "crash"} /\ "select" \in Elements \cup {"sequence", "repeat", "transfer", "traverse", "select"} /\ 1 \in Nat
    BY <2>1, <1>5 DEF parseSelBlk, Room, Parsing, Elements
  <2> QED BY <2>1, <2>2, NewBlkStep
<1>6. ASSUME NEW kind \in {"sequence", "repeat", "transfer", "traverse"}, NEW times \in Nat, OpenBlk(kind, times) PROVE IInv'
  <2>1. Room /\ blks' = WithBlk(kind, times, NoName, NULL) /\ open' = New /\ trv_state' = trv_state /\ phase' = phase /\ UNCHANGED walker
    BY <1>6, Zenon DEF OpenBlk
  <2>2. phase' \in {"parse", "crash"} /\ kind \in Elements \cup {"sequence", "repeat", "transfer", "traverse", "select"} /\ kind # "I" /\ kind # "select"
    BY <2>1 DEF Room, Parsing, Elements
  <2> QED BY <2>1, <2>2, NewBlkStep
<1>7. CASE CloseBlk
  BY <1>7, CloseStep
<1>8. CASE \E kind \in Kinds \ {"select", "repeat"} : OpenBlk(kind, 1)
  <2>1. PICK kind \in Kinds \ {"select", "repeat"} : OpenBlk(kind, 1)
    BY <1>8
  <2>2. kind \in {"sequence", "repeat", "transfer", "traverse"} /\ 1 \in Nat
    BY TmpltAssumption
  <2> QED BY <2>1, <2>2, <1>6
<1>9. CASE \E times \in Times : OpenBlk("repeat", times)
  <2>1. PICK times \in Times : OpenBlk("repeat", times)
    BY <1>9
  <2>2. times \in Nat
    BY TmpltAssumption
  <2> QED BY <2>1, <2>2, <1>6
<1> QED BY <1>1, <1>2, <1>3, <1>4, <1>5, <1>7, <1>8, <1>9 DEF Parse

-----------------------------------------------------------------------------
(* The invariant, and what it shows.                                       *)

\* The invariant holds at first.
LEMMA InitIInv == Init => IInv
<1> SUFFICES ASSUME Init PROVE IInv
  OBVIOUS
<1> DEFINE r == [kind |-> "sequence", times |-> 1, parent |-> NULL, subs |-> << >>,
                 vars |-> [n \in Names |-> Undeclared], use |-> NoName, state |-> NULL]
<1>1. /\ phase = "parse" /\ blks = <<r>> /\ open = 1 /\ trv_state = 0 /\ stack = << >> /\ curr_blk = 0 /\ drawn = 0
      /\ round = [b \in 1..MaxBlocks |-> 0] /\ log = << >>
  BY DEF Init, NULL, Root
<1>2. /\ r \in Blks /\ r.kind = "sequence" /\ r.parent = 0 /\ r.subs = << >> /\ r.use = NoName /\ r.state = 0
      /\ \A n \in Names : r.vars[n] = Undeclared
  <2>1. << >> \in Seq(Nat) /\ [n \in Names |-> Undeclared] \in [Names -> Int] /\ 1 \in Nat /\ 0 \in Nat
    BY DEF Undeclared
  <2> QED BY <2>1 DEF Blks, NULL
<1> HIDE DEF r
<1>3. blks \in Seq(Blks) /\ Len(blks) = 1 /\ blks[1] = r /\ \A b \in 1..1 : b = 1
  BY <1>1, <1>2
<1>4. Len(r.subs) = 0 /\ 1 \in 1..MaxBlocks /\ 1..0 = {}
  BY <1>2, TmpltAssumption
<1>5. Tree(blks)
  BY <1>2, <1>3, <1>4 DEF Tree
<1>6. Marks(blks) /\ NoValues(blks)
  BY <1>2, <1>3 DEF Marks, NoValues, Root, NULL
<1>7. round \in [1..MaxBlocks -> Nat] /\ 0 \in Nat
  BY <1>1
<1>8. Shape
  BY <1>1, <1>3, <1>5, <1>6, <1>7 DEF Shape
<1>9. Len(log) = 0 /\ log \in Seq(Entries) /\ stack \in Seq([blk : Nat, i : Nat, left : Nat]) /\ Len(stack) = 0
      /\ DOMAIN log = {}
  BY <1>1, EmptySeq
<1>10. Frames(blks, stack) /\ Nested /\ NoCrash
  BY <1>1, <1>9 DEF Frames, Nested, NoCrash
<1>11. Values(blks, round, drawn, log)
  <2>1. \A b \in 1..Len(blks), n \in Names : blks[b].vars[n] \in Undeclared..drawn /\ ~(blks[b].vars[n] > 0)
    BY <1>1, <1>6 DEF NoValues, Undeclared, Invalid
  <2> QED BY <2>1, <1>9 DEF Values, Logged, Held
<1>12. LexicalScope
  BY <1>1, <1>9 DEF LexicalScope
<1>13. HandedOver(blks, open, trv_state)
  BY <1>2, <1>3 DEF HandedOver, TrvIn
<1> QED BY <1>8, <1>10, <1>11, <1>12, <1>13 DEF IInv

\* Every step keeps the invariant.
LEMMA NextIInv == IInv /\ [Next]_vars => IInv'
<1> SUFFICES ASSUME IInv, [Next]_vars PROVE IInv'
  OBVIOUS
<1>1. CASE Parse /\ Bound'
  BY <1>1, ParseStep
<1>2. CASE walk_tmplt
  BY <1>2, WalkTmpltStep
<1>3. CASE WalkBlk
  BY <1>3, WalkBlkStep
<1>4. CASE NextRound
  BY <1>4, NextRoundStep
<1>5. CASE Return
  BY <1>5, ReturnStep
<1>6. CASE walkSelBlk
  BY <1>6, SelectStep
<1>7. CASE walkIElem
  BY <1>7, IElemStep
<1>8. CASE walkCElem
  BY <1>8, CElemStep
<1>9. CASE UNCHANGED vars
  <2>1. /\ phase' = phase /\ blks' = blks /\ open' = open /\ trv_state' = trv_state /\ stack' = stack
        /\ curr_blk' = curr_blk /\ drawn' = drawn /\ round' = round /\ log' = log
    BY <1>9 DEF vars
  <2>2. Shape' /\ Frames(blks, stack)' /\ Nested' /\ Values(blks, round, drawn, log)' /\ HandedOver(blks, open, trv_state)'
    BY <2>1 DEF IInv, Shape, Nested, Top
  <2>3. NoCrash'
    BY <2>1, StaysExcused DEF IInv, NoCrash, Excused
  <2>4. LexicalScope'
    <3>1. Values(blks, round, drawn, log) /\ Kept(blks', blks) /\ LexicalScope
      BY <2>1 DEF IInv, Shape, Kept, KeptShape, Tree
    <3>2. \A k \in 1..Len(log) : LexicalAt(log[k].elem, log[k].blk)'
      BY <3>1, <2>1, LexicalStays
    <3>3. DOMAIN log' = 1..Len(log)
      BY <3>1, <2>1, LexicalIs
    <3>4. phase' = "undefined" => blk_search_var(blks[Child].parent, blks[Child].use)' = NULL
      BY <3>1, <2>1, LexicalIs DEF blk_search_var, Parent, Declaring, Child, Top
    <3> QED BY <3>2, <3>3, <3>4, <2>1 DEF LexicalScope, LexicalAt
  <2> QED BY <2>2, <2>3, <2>4 DEF IInv
<1> QED BY <1>1, <1>2, <1>3, <1>4, <1>5, <1>6, <1>7, <1>8, <1>9 DEF Next, Walk

\* The invariant holds at every step.
LEMMA AlwaysIInv == Spec => []IInv
BY InitIInv, NextIInv, PTL DEF Spec

\* The fields of the blocks, the pointers between them, and the nesting of the
\* active walk functions, are what TypeOK says at every step: no pointer leaves
\* the tree that the parser built.
THEOREM TreeStaysTyped == Spec => []TypeOK
<1>1. IInv => TypeOK
  <2> SUFFICES ASSUME IInv PROVE TypeOK
    OBVIOUS
  <2>1. Shape /\ Tree(blks) /\ Marks(blks) /\ Frames(blks, stack) /\ Held(blks, round, drawn, log)
    BY DEF IInv, Shape, Values
  <2>2. DOMAIN blks = 1..Len(blks) /\ Len(blks) \in Nat /\ DOMAIN stack = 1..Len(stack)
    BY <2>1, ParentIs, LenProperties DEF Tree, Frames
  <2>3. ASSUME NEW b \in 1..Len(blks)
        PROVE  /\ blks[b].parent \in 0..(b - 1)
               /\ blks[b].state \in 0..Len(blks)
               /\ \A n \in Names : blks[b].vars[n] \in Undeclared..drawn
               /\ \A c \in DOMAIN blks[b].subs : blks[b].subs[c] \in 1..Len(blks)
    <3>1. DOMAIN blks[b].subs = 1..Len(blks[b].subs)
      <4>1. blks[b] \in Blks
        BY <2>1, ElementOfSeq DEF Tree
      <4> QED BY <4>1, BlkFields, LenProperties
    <3> QED BY <3>1, <2>1 DEF Tree, Marks, Held
  <2>4. ASSUME NEW f \in 1..Len(stack)
        PROVE  /\ blks[stack[f].blk].parent = IF f = 1 THEN NULL ELSE stack[f - 1].blk
               /\ stack[f].left \in 0..(Rounds(stack[f].blk) - 1)
               /\ stack[f].i \in 1..(Len(blks[stack[f].blk].subs) + 1)
    BY <2>1 DEF Frames, Frame, Rounds, RoundsOf
  <2> QED BY <2>1, <2>2, <2>3, <2>4 DEF TypeOK, Shape, Tree
<1> QED BY <1>1, AlwaysIInv, PTL

\* The operands and checks of one round of a variable's block share its one
\* value, and a checked register was given its value in that round: gen_opnd
\* of a variable, and walkCElem, for every document and any nesting of rounds.
THEOREM VariablesHoldValues == Spec => []VariableValues
<1>1. IInv => VariableValues
  <2> SUFFICES ASSUME IInv PROVE VariableValues
    OBVIOUS
  <2>1. Values(blks, round, drawn, log)
    BY DEF IInv
  <2>2. DOMAIN log = 1..Len(log)
    BY <2>1, LexicalIs
  <2>3. OneValuePerRound
    BY <2>1, <2>2 DEF Values, Agree, Use, OneValuePerRound
  <2>4. ChecksDrawnValues
    <3> SUFFICES ASSUME NEW k \in 1..Len(log), blks[log[k].elem].kind = "C", log[k].blk # NULL
                 PROVE  \E j \in 1..(k - 1) : /\ blks[log[j].elem].kind = "I"
                                              /\ log[j].blk = log[k].blk /\ log[j].val = log[k].val
                                              /\ log[j].round = log[k].round
      BY <2>2 DEF ChecksDrawnValues
    <3> QED BY <2>1 DEF Values, Drawn, DrawnBy
  <2> QED BY <2>3, <2>4 DEF VariableValues
<1> QED BY <1>1, AlwaysIInv, PTL

\* An element uses the variable that its place in the document means, although
\* curr_blk is not restored when a nested block ends; "not defined" is said
\* only of names that no block around the element has.
THEOREM ScopeIsLexical == Spec => []LexicalScope
<1>1. IInv => LexicalScope
  BY DEF IInv
<1> QED BY <1>1, AlwaysIInv, PTL

\* The walk crashes on no template that keeps to the conventions of traverse
\* blocks and of names: the parser's static variable hands the right state over.
THEOREM WalkDoesNotCrash == Spec => []NoCrash
<1>1. IInv => NoCrash
  BY DEF IInv
<1> QED BY <1>1, AlwaysIInv, PTL

-----------------------------------------------------------------------------
(* Sequences of sequences, concatenated.                                   *)

\* Concatenation is associative.
LEMMA Assoc ==
  ASSUME NEW a \in Seq(Nat), NEW b \in Seq(Nat), NEW c \in Seq(Nat)
  PROVE  (a \o b) \o c = a \o (b \o c)
BY ConcatAssociative, SMT

\* The concatenation of the sequences up to each place.
Joined(t, f) ==
  /\ f[1] = t[1]
  /\ \A i \in 2..Len(t) : f[i] = f[i - 1] \o t[i]

\* The last of them is all the sequences, concatenated.
LEMMA FlattenJoins ==
  ASSUME NEW t, NEW n \in Nat, n # 0, n = Len(t)
  PROVE  \E f : Joined(t, f) /\ FlattenSeq(t) = f[n]
<1> DEFINE Is(g, m) == g = [i \in 1..m |-> IF i = 1 THEN t[i] ELSE g[i - 1] \o t[i]]
           Def(g) == g = [i \in 1..Len(t) |-> IF i = 1 THEN t[i] ELSE g[i - 1] \o t[i]]
           f == CHOOSE g : Def(g)
           T == {m \in 0..n : \E g : Is(g, m)}
<1>1. 0 \in T
  <2> DEFINE g == [i \in 1..0 |-> t]
  <2>1. Is(g, 0)
    OBVIOUS
  <2> HIDE DEF Is, g
  <2> QED BY <2>1
<1>2. ASSUME NEW m \in 0..(n - 1), m \in T PROVE m + 1 \in T
  <2>1. PICK g : Is(g, m)
    BY <1>2
  <2> DEFINE top == IF m + 1 = 1 THEN t[m + 1] ELSE g[m] \o t[m + 1]
             h == [i \in 1..(m + 1) |-> IF i = m + 1 THEN top ELSE g[i]]
  <2>2. \A i \in 1..m : g[i] = IF i = 1 THEN t[i] ELSE g[i - 1] \o t[i]
    BY <2>1
  <2>3. (\A i \in 1..m : h[i] = g[i]) /\ h[m + 1] = top /\ h = [i \in 1..(m + 1) |-> h[i]]
    <3>1. m + 1 \in 1..(m + 1) /\ \A i \in 1..m : i \in 1..(m + 1) /\ i # m + 1
      OBVIOUS
    <3> HIDE DEF top
    <3> QED BY <3>1
  <2> HIDE DEF Is, h
  <2>4. \A i \in 1..(m + 1) : h[i] = IF i = 1 THEN t[i] ELSE h[i - 1] \o t[i]
    <3> TAKE i \in 1..(m + 1)
    <3>1. CASE i = m + 1
      <4>1. (m + 1) - 1 = m /\ (m + 1 # 1 => m \in 1..m)
        OBVIOUS
      <4> QED BY <3>1, <4>1, <2>3
    <3>2. CASE i \in 1..m
      <4>1. i # 1 => i - 1 \in 1..m
        BY <3>2
      <4> QED BY <3>2, <4>1, <2>2, <2>3
    <3> QED BY <3>1, <3>2
  <2>5. h = [i \in 1..(m + 1) |-> IF i = 1 THEN t[i] ELSE h[i - 1] \o t[i]]
    BY <2>3, <2>4, Zenon
  <2>6. Is(h, m + 1)
    BY <2>5 DEF Is
  <2>7. m + 1 \in 0..n
    OBVIOUS
  <2> QED BY <2>6, <2>7
<1>3. \A m \in 0..n : m \in T
  <2> HIDE DEF T
  <2> QED BY <1>1, <1>2, IntervalInduction
<1>4. PICK g : Is(g, n)
  <2>1. n \in 0..n
    OBVIOUS
  <2> HIDE DEF Is
  <2> QED BY <1>3, <2>1
<1>5. Def(g)
  BY <1>4
<1>6. Def(f)
  <2> HIDE DEF Def
  <2> QED BY <1>5, Zenon
<1>7. FlattenSeq(t) = f[n]
  <2>1. FlattenSeq(t) = f[Len(t)]
    BY Zenon DEF FlattenSeq
  <2> QED BY <2>1
<1> HIDE DEF f
<1>8. \A i \in 1..n : f[i] = IF i = 1 THEN t[i] ELSE f[i - 1] \o t[i]
  BY <1>6
<1>9. Joined(t, f)
  <2>1. 1 \in 1..n /\ \A i \in 2..n : i \in 1..n /\ i # 1
    OBVIOUS
  <2> QED BY <1>8, <2>1 DEF Joined
<1> QED BY <1>7, <1>9

\* A sequence of sequences of blocks, concatenated.
LEMMA FlattenType ==
  ASSUME NEW t \in Seq(Seq(Nat))
  PROVE  FlattenSeq(t) \in Seq(Nat) /\ (Len(t) = 0 => FlattenSeq(t) = << >>)
<1> DEFINE n == Len(t)
<1>1. n \in Nat /\ \A i \in 1..n : t[i] \in Seq(Nat)
  BY LenProperties, ElementOfSeq
<1>2. CASE n = 0
  <2>1. FlattenSeq(t) = t /\ t = << >>
    BY <1>2, EmptySeq DEF FlattenSeq
  <2> QED BY <2>1
<1>3. CASE n # 0
  <2>1. PICK f : Joined(t, f) /\ FlattenSeq(t) = f[n]
    BY <1>1, <1>3, FlattenJoins
  <2> DEFINE T == {m \in 0..n : m # 0 => f[m] \in Seq(Nat)}
  <2> HIDE DEF n
  <2>2. f[1] = t[1] /\ \A i \in 2..n : f[i] = f[i - 1] \o t[i]
    BY <2>1 DEF Joined, n
  <2>3. 0 \in T
    BY <1>1
  <2>4. ASSUME NEW m \in 0..(n - 1), m \in T PROVE m + 1 \in T
    <3>1. m + 1 \in 1..n /\ m + 1 \in 0..n /\ (m # 0 => m + 1 \in 2..n) /\ (m + 1) - 1 = m
      BY <1>1
    <3>2. t[m + 1] \in Seq(Nat)
      BY <3>1, <1>1
    <3>3. CASE m = 0
      BY <3>1, <3>2, <3>3, <2>2
    <3>4. CASE m # 0
      <4>1. f[m + 1] = f[m] \o t[m + 1] /\ f[m] \in Seq(Nat)
        BY <3>1, <3>4, <2>2, <2>4
      <4>2. f[m + 1] \in Seq(Nat)
        BY <4>1, <3>2, ConcatProperties
      <4> QED BY <3>1, <4>2
    <3> QED BY <3>3, <3>4
  <2>5. \A m \in 0..n : m \in T
    <3> HIDE DEF T
    <3> QED BY <1>1, <2>3, <2>4, IntervalInduction
  <2>6. n \in 0..n
    BY <1>1
  <2> QED BY <2>1, <2>5, <2>6, <1>3 DEF n
<1> QED BY <1>2, <1>3

\* The first of the sequences comes first.
LEMMA FlattenFirst ==
  ASSUME NEW t \in Seq(Seq(Nat)), NEW u \in Seq(Seq(Nat)), Len(t) = Len(u) + 1,
         \A i \in 1..Len(u) : t[i + 1] = u[i]
  PROVE  t[1] \in Seq(Nat) /\ FlattenSeq(t) = t[1] \o FlattenSeq(u)
<1> DEFINE n == Len(u)
<1>1. n \in Nat /\ Len(t) = n + 1 /\ n + 1 \in Nat /\ n + 1 # 0
  BY LenProperties
<1>2. t[1] \in Seq(Nat) /\ \A i \in 1..n : u[i] \in Seq(Nat) /\ t[i + 1] = u[i]
  BY <1>1, ElementOfSeq
<1>3. PICK f : Joined(t, f) /\ FlattenSeq(t) = f[n + 1]
  BY <1>1, FlattenJoins
<1> HIDE DEF n
<1>4. f[1] = t[1] /\ \A i \in 2..(n + 1) : f[i] = f[i - 1] \o t[i]
  BY <1>1, <1>3 DEF Joined
<1>5. CASE n = 0
  <2>1. FlattenSeq(u) = << >>
    BY <1>5, FlattenType DEF n
  <2>2. FlattenSeq(t) = t[1] /\ t[1] \o << >> = t[1]
    BY <1>2, <1>3, <1>4, <1>5, ConcatEmptySeq
  <2> QED BY <2>1, <2>2, <1>2
<1>6. CASE n # 0
  <2>1. PICK g : Joined(u, g) /\ FlattenSeq(u) = g[n]
    BY <1>1, <1>6, FlattenJoins DEF n
  <2>2. g[1] = u[1] /\ \A i \in 2..n : g[i] = g[i - 1] \o u[i]
    BY <2>1 DEF Joined, n
  <2> DEFINE T == {m \in 0..n : m # 0 => g[m] \in Seq(Nat) /\ f[m + 1] = t[1] \o g[m]}
  <2>3. 0 \in T
    BY <1>1
  <2>4. ASSUME NEW m \in 0..(n - 1), m \in T PROVE m + 1 \in T
    <3>1. /\ m + 1 \in 1..n /\ m + 1 \in 0..n /\ (m # 0 => m + 1 \in 2..n) /\ (m + 1) - 1 = m
          /\ (m + 1) + 1 \in 2..(n + 1) /\ ((m + 1) + 1) - 1 = m + 1
      BY <1>1
    <3>2. u[m + 1] \in Seq(Nat) /\ t[(m + 1) + 1] = u[m + 1]
      BY <3>1, <1>2
    <3>3. f[(m + 1) + 1] = f[m + 1] \o u[m + 1]
      <4>1. f[(m + 1) + 1] = f[((m + 1) + 1) - 1] \o t[(m + 1) + 1]
        BY <3>1, <1>4
      <4> QED BY <4>1, <3>1, <3>2
    <3>4. CASE m = 0
      <4>1. f[(0 + 1) + 1] = f[0 + 1] \o u[0 + 1]
        BY <3>3, <3>4, Zenon
      <4>2. f[(0 + 1) + 1] = t[1] \o g[0 + 1] /\ g[0 + 1] \in Seq(Nat)
        <5>1. 0 + 1 = 1 /\ (0 + 1) + 1 = 2
          OBVIOUS
        <5>2. u[1] \in Seq(Nat) /\ f[2] = f[1] \o u[1]
          BY <4>1, <3>2, <3>4, <5>1, Zenon
        <5> QED BY <5>1, <5>2, <2>2, <1>4, Zenon
      <4> QED BY <4>2, <3>1, <3>4
    <3>5. CASE m # 0
      <4>1. g[m + 1] = g[m] \o u[m + 1] /\ g[m] \in Seq(Nat) /\ f[m + 1] = t[1] \o g[m]
        BY <3>1, <3>5, <2>2, <2>4
      <4>2. g[m + 1] \in Seq(Nat)
        BY <4>1, <3>2, ConcatProperties
      <4>3. (t[1] \o g[m]) \o u[m + 1] = t[1] \o (g[m] \o u[m + 1])
        <5> DEFINE a == t[1]
                   b == g[m]
                   c == u[m + 1]
        <5>1. a \in Seq(Nat) /\ b \in Seq(Nat) /\ c \in Seq(Nat)
          BY <4>1, <3>2, <1>2
        <5> HIDE DEF a, b, c
        <5>2. (a \o b) \o c = a \o (b \o c)
          BY <5>1, Assoc
        <5> QED BY <5>2 DEF a, b, c
      <4> QED BY <3>1, <3>3, <4>1, <4>2, <4>3
    <3> QED BY <3>4, <3>5
  <2>5. \A m \in 0..n : m \in T
    <3> HIDE DEF T
    <3> QED BY <1>1, <2>3, <2>4, IntervalInduction
  <2>6. n \in 0..n
    BY <1>1
  <2> QED BY <2>1, <2>5, <2>6, <1>2, <1>3, <1>6
<1> QED BY <1>5, <1>6

-----------------------------------------------------------------------------
(* What a block generates.                                                 *)

Leaf(bs, b) == bs[b].kind \in Elements \cup {"select"}
Copies(s, k) == FlattenSeq([j \in 1..k |-> s])

\* The children of b from the i-th on, one after the other, where of[c] is
\* what block c generates.
Kids(bs, of, b) == [i \in DOMAIN bs[b].subs |-> of[bs[b].subs[i]]]
Once(bs, of, b) == FlattenSeq(Kids(bs, of, b))
KidsFrom(bs, of, b, i) == [j \in 1..(Len(bs[b].subs) + 1 - i) |-> of[bs[b].subs[i + j - 1]]]
Behind(bs, of, b, i) == FlattenSeq(KidsFrom(bs, of, b, i))

Generated(bs, of, b) == IF Leaf(bs, b) THEN <<b>> ELSE Copies(Once(bs, of, b), RoundsOf(bs, b))
Generates(bs, of) == of = [b \in DOMAIN bs |-> Generated(bs, of, b)]
Unrolling(bs) == CHOOSE of : Generates(bs, of)

\* What the active walk functions have left to do.
Rest(bs, of, fr) == Behind(bs, of, fr.blk, fr.i) \o Copies(Once(bs, of, fr.blk), fr.left)
Remaining(bs, of, st) == FlattenSeq([j \in 1..Len(st) |-> Rest(bs, of, st[Len(st) + 1 - j])])

Elems(lg) == [k \in DOMAIN lg |-> lg[k].elem]

\* The elements generated, and those that are left, are the tree unrolled.
Covers(of, lg, bs, st) == Elems(lg) \o Remaining(bs, of, st) = of[Root]

\* Repetitions of a sequence.
LEMMA CopiesFacts ==
  ASSUME NEW s \in Seq(Nat)
  PROVE  /\ Copies(s, 0) = << >>
         /\ \A k \in Nat : Copies(s, k) \in Seq(Nat) /\ Copies(s, k + 1) = s \o Copies(s, k)
<1>1. Copies(s, 0) = << >>
  <2>1. [j \in 1..0 |-> s] \in Seq(Seq(Nat)) /\ Len([j \in 1..0 |-> s]) = 0
    OBVIOUS
  <2> QED BY <2>1, FlattenType DEF Copies
<1>2. ASSUME NEW k \in Nat PROVE Copies(s, k) \in Seq(Nat) /\ Copies(s, k + 1) = s \o Copies(s, k)
  <2> DEFINE t == [j \in 1..(k + 1) |-> s]
             u == [j \in 1..k |-> s]
  <2>1. t \in Seq(Seq(Nat)) /\ u \in Seq(Seq(Nat)) /\ Len(t) = k + 1 /\ Len(u) = k
    OBVIOUS
  <2>2. t[1] = s /\ \A i \in 1..k : t[i + 1] = u[i]
    OBVIOUS
  <2>3. Copies(s, k + 1) = FlattenSeq(t) /\ Copies(s, k) = FlattenSeq(u)
    BY DEF Copies
  <2> HIDE DEF t, u
  <2>4. FlattenSeq(t) = t[1] \o FlattenSeq(u) /\ FlattenSeq(u) \in Seq(Nat)
    BY <2>1, <2>2, FlattenFirst, FlattenType
  <2> QED BY <2>2, <2>3, <2>4
<1> QED BY <1>1, <1>2

\* A tree whose children come after their parents.
LEMMA SubsAfter ==
  ASSUME NEW bs, Tree(bs), NEW b \in 1..Len(bs)
  PROVE  /\ Len(bs) \in Nat /\ DOMAIN bs = 1..Len(bs)
         /\ bs[b].subs \in Seq(Nat) /\ Len(bs[b].subs) \in Nat /\ DOMAIN bs[b].subs = 1..Len(bs[b].subs)
         /\ RoundsOf(bs, b) \in Nat
         /\ \A i \in 1..Len(bs[b].subs) : bs[b].subs[i] \in (b + 1)..Len(bs)
<1>1. bs \in Seq(Blks) /\ bs[b].subs \in Seq(Nat) /\ RoundsOf(bs, b) \in Nat
  BY ElementOfSeq, BlkFields, RoundsNat DEF Tree
<1>2. /\ Len(bs) \in Nat /\ DOMAIN bs = 1..Len(bs)
      /\ Len(bs[b].subs) \in Nat /\ DOMAIN bs[b].subs = 1..Len(bs[b].subs)
  BY <1>1, LenProperties
<1>3. ASSUME NEW i \in 1..Len(bs[b].subs) PROVE bs[b].subs[i] \in (b + 1)..Len(bs)
  <2>1. bs[b].subs[i] \in 1..Len(bs) /\ bs[bs[b].subs[i]].parent = b
    BY DEF Tree
  <2>2. b \in 0..(bs[b].subs[i] - 1)
    BY <2>1 DEF Tree
  <2> QED BY <2>1, <2>2, <1>2
<1> QED BY <1>1, <1>2, <1>3

\* What a block generates depends on what its children do.
LEMMA GeneratedFrom ==
  ASSUME NEW bs, Tree(bs), NEW b \in 1..Len(bs), NEW f, NEW g,
         \A c \in (b + 1)..Len(bs) : f[c] = g[c]
  PROVE  Generated(bs, f, b) = Generated(bs, g, b)
<1>1. \A i \in DOMAIN bs[b].subs : f[bs[b].subs[i]] = g[bs[b].subs[i]]
  BY SubsAfter
<1>2. Kids(bs, f, b) = Kids(bs, g, b)
  BY <1>1 DEF Kids
<1> QED BY <1>2 DEF Generated, Once

\* ... and is a sequence of blocks.
LEMMA GeneratedType ==
  ASSUME NEW bs, Tree(bs), NEW b \in 1..Len(bs), NEW f,
         \A c \in (b + 1)..Len(bs) : f[c] \in Seq(Nat)
  PROVE  /\ Kids(bs, f, b) \in Seq(Seq(Nat)) /\ Len(Kids(bs, f, b)) = Len(bs[b].subs)
         /\ Once(bs, f, b) \in Seq(Nat) /\ Generated(bs, f, b) \in Seq(Nat)
<1>1. \A i \in 1..Len(bs[b].subs) : f[bs[b].subs[i]] \in Seq(Nat)
  BY SubsAfter
<1>2. Len(bs[b].subs) \in Nat /\ DOMAIN bs[b].subs = 1..Len(bs[b].subs)
  BY SubsAfter
<1>3. Kids(bs, f, b) \in Seq(Seq(Nat)) /\ Len(Kids(bs, f, b)) = Len(bs[b].subs)
  BY <1>1, <1>2 DEF Kids
<1>4. Once(bs, f, b) \in Seq(Nat)
  BY <1>3, FlattenType DEF Once
<1>5. RoundsOf(bs, b) \in Nat /\ b \in Nat
  BY SubsAfter
<1>6. Copies(Once(bs, f, b), RoundsOf(bs, b)) \in Seq(Nat)
  BY <1>4, <1>5, CopiesFacts
<1>7. <<b>> \in Seq(Nat)
  BY <1>5
<1> QED BY <1>3, <1>4, <1>6, <1>7 DEF Generated

\* What each block generates is defined by the tree: from the last block to
\* the first, the children of a block are known before it.
LEMMA UnrollingExists ==
  ASSUME NEW bs, Tree(bs)
  PROVE  \E of : Generates(bs, of)
<1> DEFINE N == Len(bs)
           For(g, m) == \A b \in (N - m + 1)..N : g[b] = Generated(bs, g, b)
           T == {m \in 0..N : \E g : For(g, m)}
<1>1. N \in Nat /\ DOMAIN bs = 1..N
  BY LenProperties DEF Tree
<1> HIDE DEF N
<1>2. 0 \in T
  <2>1. (N - 0 + 1)..N = {} /\ 0 \in 0..N
    BY <1>1
  <2> QED BY <2>1
<1>3. ASSUME NEW m \in 0..(N - 1), m \in T PROVE m + 1 \in T
  <2>1. PICK g : For(g, m)
    BY <1>3
  <2> DEFINE a == N - m
             h == [b \in 1..N |-> IF b = a THEN Generated(bs, g, a) ELSE g[b]]
  <2>2. /\ a \in 1..N /\ N - (m + 1) + 1 = a /\ N - m + 1 = a + 1 /\ m + 1 \in 0..N
        /\ \A b \in a..N : b \in 1..N /\ (b = a \/ b \in (a + 1)..N)
        /\ \A b \in a..N : \A c \in (b + 1)..N : c \in (a + 1)..N /\ c # a /\ c \in 1..N
    BY <1>1
  <2> HIDE DEF a
  <2>3. h[a] = Generated(bs, g, a) /\ \A c \in (a + 1)..N : c \in 1..N /\ c # a => h[c] = g[c]
    BY <2>2
  <2> HIDE DEF h
  <2>4. ASSUME NEW b \in a..N PROVE h[b] = Generated(bs, h, b)
    <3>1. b \in 1..N /\ \A c \in (b + 1)..N : h[c] = g[c]
      BY <2>2, <2>3
    <3>2. Generated(bs, h, b) = Generated(bs, g, b)
      BY <3>1, GeneratedFrom DEF N
    <3>3. CASE b = a
      BY <3>2, <3>3, <2>3
    <3>4. CASE b \in (a + 1)..N
      <4>1. h[b] = g[b] /\ g[b] = Generated(bs, g, b)
        <5>1. a \in a..N /\ b \in 1..N /\ b # a
          BY <2>2, <3>4, <1>1
        <5> QED BY <5>1, <3>4, <2>1, <2>2, <2>3
      <4> QED BY <4>1, <3>2
    <3> QED BY <3>3, <3>4, <2>2
  <2>5. For(h, m + 1)
    BY <2>2, <2>4
  <2> QED BY <2>2, <2>5
<1>4. \A m \in 0..N : m \in T
  <2> HIDE DEF T
  <2> QED BY <1>1, <1>2, <1>3, IntervalInduction
<1>5. PICK g : For(g, N)
  <2>1. N \in 0..N
    BY <1>1
  <2> QED BY <2>1, <1>4
<1> DEFINE of == [b \in DOMAIN bs |-> g[b]]
<1>6. \A b \in 1..N : of[b] = g[b] /\ g[b] = Generated(bs, g, b)
  <2>1. \A b \in 1..N : b \in (N - N + 1)..N
    BY <1>1
  <2> QED BY <2>1, <1>1, <1>5
<1>7. of = [b \in DOMAIN bs |-> of[b]]
  OBVIOUS
<1> HIDE DEF of
<1>8. ASSUME NEW b \in 1..N PROVE of[b] = Generated(bs, of, b)
  <2>1. \A c \in (b + 1)..N : c \in 1..N
    BY <1>1
  <2>2. \A c \in (b + 1)..N : of[c] = g[c]
    BY <2>1, <1>6
  <2>3. Generated(bs, of, b) = Generated(bs, g, b)
    BY <2>2, GeneratedFrom DEF N
  <2> QED BY <2>3, <1>6
<1>9. Generates(bs, of)
  BY <1>1, <1>7, <1>8, Zenon DEF Generates
<1> QED BY <1>9

\* What blocks generate are sequences of blocks.
LEMMA UnrollingFacts ==
  ASSUME NEW bs, Tree(bs), NEW of, of = Unrolling(bs)
  PROVE  \A b \in 1..Len(bs) :
           /\ of[b] = Generated(bs, of, b) /\ of[b] \in Seq(Nat)
           /\ Kids(bs, of, b) \in Seq(Seq(Nat)) /\ Len(Kids(bs, of, b)) = Len(bs[b].subs)
           /\ Once(bs, of, b) \in Seq(Nat)
<1> DEFINE N == Len(bs)
<1>1. N \in Nat /\ DOMAIN bs = 1..N
  BY LenProperties DEF Tree
<1>2. Generates(bs, of)
  <2>1. \E f : Generates(bs, f)
    BY UnrollingExists
  <2> QED BY <2>1, Zenon DEF Unrolling
<1>3. \A b \in 1..N : of[b] = Generated(bs, of, b)
  BY <1>1, <1>2 DEF Generates
<1> DEFINE T == {m \in 0..N : \A b \in (N - m + 1)..N : of[b] \in Seq(Nat)}
<1> HIDE DEF N
<1>4. 0 \in T
  <2>1. (N - 0 + 1)..N = {} /\ 0 \in 0..N
    BY <1>1
  <2> QED BY <2>1
<1>5. ASSUME NEW m \in 0..(N - 1), m \in T PROVE m + 1 \in T
  <2> DEFINE a == N - m
  <2>1. /\ a \in 1..N /\ N - (m + 1) + 1 = a /\ N - m + 1 = a + 1 /\ m + 1 \in 0..N
        /\ \A b \in a..N : b = a \/ b \in (a + 1)..N
    BY <1>1
  <2> HIDE DEF a
  <2>2. \A c \in (a + 1)..N : of[c] \in Seq(Nat)
    BY <2>1, <1>5
  <2>3. of[a] \in Seq(Nat)
    <3>1. Generated(bs, of, a) \in Seq(Nat)
      BY <2>1, <2>2, GeneratedType DEF N
    <3> QED BY <3>1, <2>1, <1>3
  <2>4. \A b \in a..N : of[b] \in Seq(Nat)
    BY <2>1, <2>2, <2>3
  <2> QED BY <2>1, <2>4
<1>6. \A m \in 0..N : m \in T
  <2> HIDE DEF T
  <2> QED BY <1>1, <1>4, <1>5, IntervalInduction
<1>7. \A b \in 1..N : of[b] \in Seq(Nat)
  <2>1. N \in 0..N /\ \A b \in 1..N : b \in (N - N + 1)..N
    BY <1>1
  <2> QED BY <2>1, <1>6
<1>8. ASSUME NEW b \in 1..N
      PROVE  /\ Kids(bs, of, b) \in Seq(Seq(Nat)) /\ Len(Kids(bs, of, b)) = Len(bs[b].subs)
             /\ Once(bs, of, b) \in Seq(Nat)
  <2>1. \A c \in (b + 1)..N : of[c] \in Seq(Nat)
    BY <1>1, <1>7
  <2> QED BY <2>1, GeneratedType DEF N
<1> QED BY <1>3, <1>7, <1>8 DEF N

\* It is the tree that is unrolled.
LEMMA UnrolledIs ==
  ASSUME Tree(blks)
  PROVE  Unrolled = Unrolling(blks)[Root]
BY Zenon DEF Unrolled, Unrolling, Generates, Generated, Leaf, Copies, Once, Kids, Rounds, RoundsOf

\* What variables hold does not change it.
LEMMA UnrollingKept ==
  ASSUME NEW bs, Tree(bs), NEW cs, KeptShape(cs, bs)
  PROVE  /\ Unrolling(cs) = Unrolling(bs)
         /\ \A of : \A b \in 1..Len(bs) : \A i : Behind(cs, of, b, i) = Behind(bs, of, b, i)
         /\ \A of : \A b \in 1..Len(bs) : Once(cs, of, b) = Once(bs, of, b)
<1>1. Len(bs) \in Nat /\ DOMAIN bs = 1..Len(bs) /\ DOMAIN cs = 1..Len(bs)
  BY LenProperties DEF Tree, KeptShape
<1>2. ASSUME NEW of, NEW b \in 1..Len(bs)
      PROVE  /\ Generated(cs, of, b) = Generated(bs, of, b) /\ Once(cs, of, b) = Once(bs, of, b)
             /\ \A i : Behind(cs, of, b, i) = Behind(bs, of, b, i)
  <2>1. cs[b].kind = bs[b].kind /\ cs[b].times = bs[b].times /\ cs[b].subs = bs[b].subs
    BY DEF KeptShape
  <2>2. Kids(cs, of, b) = Kids(bs, of, b) /\ \A i : KidsFrom(cs, of, b, i) = KidsFrom(bs, of, b, i)
    BY <2>1 DEF Kids, KidsFrom
  <2>3. RoundsOf(cs, b) = RoundsOf(bs, b) /\ (Leaf(cs, b) <=> Leaf(bs, b))
    BY <2>1 DEF RoundsOf, Leaf
  <2> QED BY <2>2, <2>3 DEF Generated, Once, Behind
<1>3. \A of : Generates(cs, of) <=> Generates(bs, of)
  <2> TAKE of
  <2>1. [b \in DOMAIN cs |-> Generated(cs, of, b)] = [b \in DOMAIN bs |-> Generated(bs, of, b)]
    BY <1>1, <1>2
  <2> QED BY <2>1 DEF Generates
<1>4. Unrolling(cs) = Unrolling(bs)
  BY <1>3, Zenon DEF Unrolling
<1> QED BY <1>2, <1>4

\* A block that is at child i has that child and those behind it left.
LEMMA BehindFacts ==
  ASSUME NEW bs, Tree(bs), NEW of, of = Unrolling(bs), NEW b \in 1..Len(bs)
  PROVE  /\ Behind(bs, of, b, 1) = Once(bs, of, b)
         /\ Behind(bs, of, b, Len(bs[b].subs) + 1) = << >>
         /\ \A i \in 1..(Len(bs[b].subs) + 1) : Behind(bs, of, b, i) \in Seq(Nat)
         /\ \A i \in 1..Len(bs[b].subs) : /\ of[bs[b].subs[i]] \in Seq(Nat)
                                          /\ Behind(bs, of, b, i) = of[bs[b].subs[i]] \o Behind(bs, of, b, i + 1)
<1> DEFINE L == Len(bs[b].subs)
<1>1. L \in Nat /\ DOMAIN bs[b].subs = 1..L /\ b \in Nat
  BY SubsAfter
<1>2. \A i \in 1..L : of[bs[b].subs[i]] \in Seq(Nat)
  <2>1. \A i \in 1..L : bs[b].subs[i] \in 1..Len(bs)
    BY DEF Tree
  <2> QED BY <2>1, UnrollingFacts
<1> HIDE DEF L
<1>3. ASSUME NEW i \in 1..(L + 1)
      PROVE  KidsFrom(bs, of, b, i) \in Seq(Seq(Nat)) /\ Len(KidsFrom(bs, of, b, i)) = L + 1 - i
  <2>1. L + 1 - i \in Nat /\ \A j \in 1..(L + 1 - i) : i + j - 1 \in 1..L
    BY <1>1
  <2> QED BY <2>1, <1>2 DEF KidsFrom, L
<1>4. \A i \in 1..(L + 1) : Behind(bs, of, b, i) \in Seq(Nat)
  BY <1>3, FlattenType DEF Behind
<1>5. Behind(bs, of, b, L + 1) = << >>
  <2>1. L + 1 \in 1..(L + 1) /\ L + 1 - (L + 1) = 0
    BY <1>1
  <2> QED BY <2>1, <1>3, FlattenType DEF Behind
<1>6. Behind(bs, of, b, 1) = Once(bs, of, b)
  <2>1. L + 1 - 1 = L /\ \A j \in 1..L : 1 + j - 1 = j
    BY <1>1
  <2>2. KidsFrom(bs, of, b, 1) = Kids(bs, of, b)
    BY <2>1, <1>1 DEF KidsFrom, Kids, L
  <2> QED BY <2>2 DEF Behind, Once
<1>7. ASSUME NEW i \in 1..L
      PROVE  Behind(bs, of, b, i) = of[bs[b].subs[i]] \o Behind(bs, of, b, i + 1)
  <2> DEFINE t == KidsFrom(bs, of, b, i)
             u == KidsFrom(bs, of, b, i + 1)
  <2>1. i \in 1..(L + 1) /\ i + 1 \in 1..(L + 1) /\ (L + 1 - (i + 1)) + 1 = L + 1 - i
    BY <1>1
  <2>2. t \in Seq(Seq(Nat)) /\ u \in Seq(Seq(Nat)) /\ Len(t) = Len(u) + 1 /\ Len(u) = L + 1 - (i + 1)
    BY <2>1, <1>3
  <2>3. 1 \in 1..(L + 1 - i) /\ i + 1 - 1 = i
    BY <1>1
  <2>4. t[1] = of[bs[b].subs[i]]
    BY <2>3 DEF KidsFrom, L
  <2>5. \A j \in 1..(L + 1 - (i + 1)) : j + 1 \in 1..(L + 1 - i) /\ i + (j + 1) - 1 = (i + 1) + j - 1
    BY <1>1
  <2>6. \A j \in 1..Len(u) : t[j + 1] = u[j]
    BY <2>2, <2>5 DEF KidsFrom, L
  <2> HIDE DEF t, u
  <2>7. FlattenSeq(t) = t[1] \o FlattenSeq(u)
    BY <2>2, <2>6, FlattenFirst
  <2> QED BY <2>4, <2>7 DEF Behind, t, u
<1> QED BY <1>2, <1>4, <1>5, <1>6, <1>7 DEF L

\* What a walk function has left: child by child, and round by round.
LEMMA RestFacts ==
  ASSUME NEW bs, Tree(bs), NEW of, of = Unrolling(bs), NEW fr, fr.blk \in 1..Len(bs),
         fr.i \in 1..(Len(bs[fr.blk].subs) + 1), fr.left \in Nat
  PROVE  /\ Rest(bs, of, fr) \in Seq(Nat)
         /\ fr.i <= Len(bs[fr.blk].subs) =>
              \A fs : fs.blk = fr.blk /\ fs.i = fr.i + 1 /\ fs.left = fr.left =>
                Rest(bs, of, fr) = of[bs[fr.blk].subs[fr.i]] \o Rest(bs, of, fs)
         /\ fr.i > Len(bs[fr.blk].subs) /\ fr.left > 0 =>
              \A fs : fs.blk = fr.blk /\ fs.i = 1 /\ fs.left = fr.left - 1 =>
                Rest(bs, of, fr) = Rest(bs, of, fs)
         /\ fr.i > Len(bs[fr.blk].subs) /\ fr.left = 0 => Rest(bs, of, fr) = << >>
<1> DEFINE b == fr.blk
           L == Len(bs[b].subs)
           once == Once(bs, of, b)
<1>1. L \in Nat /\ once \in Seq(Nat)
  BY SubsAfter, UnrollingFacts
<1>2. /\ Behind(bs, of, b, 1) = once /\ Behind(bs, of, b, L + 1) = << >>
      /\ \A i \in 1..(L + 1) : Behind(bs, of, b, i) \in Seq(Nat)
      /\ \A i \in 1..L : /\ of[bs[b].subs[i]] \in Seq(Nat)
                         /\ Behind(bs, of, b, i) = of[bs[b].subs[i]] \o Behind(bs, of, b, i + 1)
  BY BehindFacts
<1>3. Copies(once, 0) = << >> /\ \A k \in Nat : Copies(once, k) \in Seq(Nat) /\ Copies(once, k + 1) = once \o Copies(once, k)
  BY <1>1, CopiesFacts
<1>4. \A fs : fs.blk = b => Rest(bs, of, fs) = Behind(bs, of, b, fs.i) \o Copies(once, fs.left)
  BY DEF Rest
<1>5. fr.i \in 1..(L + 1) /\ fr.left \in Nat
  OBVIOUS
<1> HIDE DEF b, L, once
<1>6. Rest(bs, of, fr) = Behind(bs, of, b, fr.i) \o Copies(once, fr.left)
  BY <1>4 DEF b
<1>7. Rest(bs, of, fr) \in Seq(Nat)
  BY <1>2, <1>3, <1>5, <1>6, ConcatProperties
<1>8. ASSUME fr.i <= L, NEW fs, fs.blk = b, fs.i = fr.i + 1, fs.left = fr.left
      PROVE  Rest(bs, of, fr) = of[bs[b].subs[fr.i]] \o Rest(bs, of, fs)
  <2> DEFINE x == of[bs[b].subs[fr.i]]
             y == Behind(bs, of, b, fr.i + 1)
             z == Copies(once, fr.left)
  <2>1. fr.i \in 1..L /\ fr.i + 1 \in 1..(L + 1)
    BY <1>1, <1>5, <1>8
  <2>2. x \in Seq(Nat) /\ y \in Seq(Nat) /\ z \in Seq(Nat)
    BY <2>1, <1>2, <1>3, <1>5
  <2>3. Rest(bs, of, fr) = (x \o y) \o z
    BY <2>1, <1>2, <1>6
  <2>4. Rest(bs, of, fs) = y \o z
    BY <1>4, <1>8
  <2> HIDE DEF x, y, z
  <2>5. (x \o y) \o z = x \o (y \o z)
    BY <2>2, Assoc
  <2> QED BY <2>3, <2>4, <2>5 DEF x
<1>9. ASSUME fr.i > L, fr.left > 0, NEW fs, fs.blk = b, fs.i = 1, fs.left = fr.left - 1
      PROVE  Rest(bs, of, fr) = Rest(bs, of, fs)
  <2>1. fr.i = L + 1 /\ fr.left - 1 \in Nat /\ (fr.left - 1) + 1 = fr.left
    BY <1>1, <1>5, <1>9
  <2>2. Copies(once, fr.left) = once \o Copies(once, fr.left - 1) /\ Copies(once, fr.left) \in Seq(Nat)
    BY <2>1, <1>3, <1>5
  <2>3. << >> \o Copies(once, fr.left) = Copies(once, fr.left)
    BY <2>2, ConcatEmptySeq
  <2>4. Rest(bs, of, fs) = once \o Copies(once, fr.left - 1)
    BY <1>2, <1>4, <1>9
  <2> QED BY <2>1, <2>2, <2>3, <2>4, <1>2, <1>6
<1>10. ASSUME fr.i > L, fr.left = 0 PROVE Rest(bs, of, fr) = << >>
  <2>1. fr.i = L + 1
    BY <1>1, <1>5, <1>10
  <2>2. << >> \o << >> = << >>
    <3>1. << >> \in Seq(Nat)
      OBVIOUS
    <3> QED BY <3>1, ConcatEmptySeq
  <2> QED BY <2>1, <2>2, <1>2, <1>3, <1>6, <1>10
<1> QED BY <1>7, <1>8, <1>9, <1>10 DEF b, L

\* ... and a function that begins has all of its block left.
LEMMA RestBegins ==
  ASSUME NEW bs, Tree(bs), NEW of, of = Unrolling(bs), NEW b \in 1..Len(bs), ~Leaf(bs, b)
  PROVE  /\ RoundsOf(bs, b) = 0 => of[b] = << >>
         /\ RoundsOf(bs, b) # 0 =>
              \A fs : fs.blk = b /\ fs.i = 1 /\ fs.left = RoundsOf(bs, b) - 1 => Rest(bs, of, fs) = of[b]
<1> DEFINE once == Once(bs, of, b)
           k == RoundsOf(bs, b)
<1>1. once \in Seq(Nat) /\ of[b] = Copies(once, k) /\ k \in Nat
  BY SubsAfter, UnrollingFacts DEF Generated
<1>2. Behind(bs, of, b, 1) = once
  BY BehindFacts
<1>3. \A fs : fs.blk = b => Rest(bs, of, fs) = Behind(bs, of, b, fs.i) \o Copies(once, fs.left)
  BY DEF Rest
<1> HIDE DEF once, k
<1>4. Copies(once, 0) = << >> /\ \A j \in Nat : Copies(once, j + 1) = once \o Copies(once, j)
  BY <1>1, CopiesFacts
<1>5. k # 0 => k - 1 \in Nat /\ (k - 1) + 1 = k
  BY <1>1
<1>6. k # 0 => of[b] = once \o Copies(once, k - 1)
  BY <1>1, <1>4, <1>5
<1> QED BY <1>1, <1>2, <1>3, <1>4, <1>6 DEF k

-----------------------------------------------------------------------------
(* What all active walk functions have left.                               *)

\* It is made of sequences of blocks.
LEMMA RestsTyped ==
  ASSUME NEW bs, Tree(bs), NEW of, of = Unrolling(bs), NEW st, Frames(bs, st)
  PROVE  /\ Len(st) \in Nat
         /\ \A f \in 1..Len(st) :
              /\ st[f].blk \in 1..Len(bs) /\ st[f].i \in 1..(Len(bs[st[f].blk].subs) + 1) /\ st[f].left \in Nat
              /\ Rest(bs, of, st[f]) \in Seq(Nat)
         /\ Remaining(bs, of, st) \in Seq(Nat)
         /\ Len(st) = 0 => Remaining(bs, of, st) = << >>
<1>1. Len(st) \in Nat
  BY LenProperties DEF Frames
<1>2. ASSUME NEW f \in 1..Len(st)
      PROVE  /\ st[f].blk \in 1..Len(bs) /\ st[f].i \in 1..(Len(bs[st[f].blk].subs) + 1) /\ st[f].left \in Nat
             /\ Rest(bs, of, st[f]) \in Seq(Nat)
  <2>1. /\ st[f].blk \in 1..Len(bs) /\ st[f].i \in 1..(Len(bs[st[f].blk].subs) + 1)
        /\ st[f].left \in 0..(RoundsOf(bs, st[f].blk) - 1)
    BY DEF Frames, Frame
  <2>2. RoundsOf(bs, st[f].blk) \in Nat
    BY <2>1, SubsAfter
  <2>3. st[f].left \in Nat
    BY <2>1, <2>2
  <2> QED BY <2>1, <2>3, RestFacts
<1> DEFINE t == [j \in 1..Len(st) |-> Rest(bs, of, st[Len(st) + 1 - j])]
<1>3. t \in Seq(Seq(Nat)) /\ Len(t) = Len(st)
  <2>1. \A j \in 1..Len(st) : Len(st) + 1 - j \in 1..Len(st)
    BY <1>1
  <2>2. \A j \in 1..Len(st) : Rest(bs, of, st[Len(st) + 1 - j]) \in Seq(Nat)
    BY <2>1, <1>2
  <2> QED BY <2>2, <1>1
<1> HIDE DEF t
<1>4. FlattenSeq(t) \in Seq(Nat) /\ (Len(t) = 0 => FlattenSeq(t) = << >>)
  BY <1>3, FlattenType
<1>5. FlattenSeq(t) = Remaining(bs, of, st)
  BY DEF t, Remaining
<1> QED BY <1>1, <1>2, <1>3, <1>4, <1>5

\* What the last function has left comes first.
LEMMA RemainingTop ==
  ASSUME NEW bs, Tree(bs), NEW of, of = Unrolling(bs), NEW st, Frames(bs, st), NEW su, Frames(bs, su),
         Len(su) = Len(st) + 1, \A f \in 1..Len(st) : su[f] = st[f]
  PROVE  /\ Rest(bs, of, su[Len(su)]) \in Seq(Nat)
         /\ Remaining(bs, of, su) = Rest(bs, of, su[Len(su)]) \o Remaining(bs, of, st)
<1> DEFINE t == [j \in 1..Len(su) |-> Rest(bs, of, su[Len(su) + 1 - j])]
           u == [j \in 1..Len(st) |-> Rest(bs, of, st[Len(st) + 1 - j])]
<1>1. /\ Len(st) \in Nat /\ Len(su) \in Nat
      /\ \A f \in 1..Len(st) : Rest(bs, of, st[f]) \in Seq(Nat)
      /\ \A f \in 1..Len(su) : Rest(bs, of, su[f]) \in Seq(Nat)
  BY RestsTyped
<1>2. /\ \A j \in 1..Len(su) : Len(su) + 1 - j \in 1..Len(su)
      /\ \A j \in 1..Len(st) : /\ Len(st) + 1 - j \in 1..Len(st) /\ j + 1 \in 1..Len(su)
                               /\ Len(su) + 1 - (j + 1) = Len(st) + 1 - j
      /\ 1 \in 1..Len(su) /\ Len(su) + 1 - 1 = Len(su) /\ Len(su) \in 1..Len(su)
  BY <1>1
<1>3. /\ \A j \in 1..Len(su) : Rest(bs, of, su[Len(su) + 1 - j]) \in Seq(Nat)
      /\ \A j \in 1..Len(st) : Rest(bs, of, st[Len(st) + 1 - j]) \in Seq(Nat)
  BY <1>1, <1>2
<1>4. t \in Seq(Seq(Nat)) /\ Len(t) = Len(su)
  BY <1>3, <1>1
<1>5. u \in Seq(Seq(Nat)) /\ Len(u) = Len(st)
  BY <1>3, <1>1
<1>6. t[1] = Rest(bs, of, su[Len(su)])
  BY <1>2
<1>7. \A j \in 1..Len(u) : t[j + 1] = u[j]
  BY <1>2, <1>5
<1> HIDE DEF t, u
<1>8. FlattenSeq(t) = t[1] \o FlattenSeq(u)
  BY <1>4, <1>5, <1>7, FlattenFirst
<1>9. FlattenSeq(t) = Remaining(bs, of, su) /\ FlattenSeq(u) = Remaining(bs, of, st)
  BY DEF t, u, Remaining
<1> QED BY <1>1, <1>2, <1>6, <1>8, <1>9

\* It is the same whatever variables hold.
LEMMA RemainingKept ==
  ASSUME NEW bs, Tree(bs), NEW cs, KeptShape(cs, bs), NEW of, NEW st, Frames(bs, st)
  PROVE  Remaining(cs, of, st) = Remaining(bs, of, st)
<1>1. /\ \A b \in 1..Len(bs) : \A i : Behind(cs, of, b, i) = Behind(bs, of, b, i)
      /\ \A b \in 1..Len(bs) : Once(cs, of, b) = Once(bs, of, b)
  BY UnrollingKept
<1>2. Len(st) \in Nat /\ \A f \in 1..Len(st) : st[f].blk \in 1..Len(bs)
  BY LenProperties DEF Frames, Frame
<1>3. \A f \in 1..Len(st) : Rest(cs, of, st[f]) = Rest(bs, of, st[f])
  BY <1>1, <1>2 DEF Rest
<1>4. \A j \in 1..Len(st) : Len(st) + 1 - j \in 1..Len(st)
  BY <1>2
<1>5. [j \in 1..Len(st) |-> Rest(cs, of, st[Len(st) + 1 - j])] = [j \in 1..Len(st) |-> Rest(bs, of, st[Len(st) + 1 - j])]
  BY <1>3, <1>4
<1> QED BY <1>5 DEF Remaining

\* A walk function goes on to another child or round, or returns.
LEMMA MovedTop ==
  ASSUME NEW st, NEW bs, Frames(bs, st), st # << >>, NEW i, NEW l, NEW su, Moved(su, st, i, l), Frames(bs, su)
  PROVE  /\ Len(su) = Len(st) /\ Len(su) = Len(Front(st)) + 1 /\ \A f \in 1..Len(Front(st)) : su[f] = Front(st)[f]
         /\ su[Len(su)].blk = st[Len(st)].blk /\ su[Len(su)].i = i /\ su[Len(su)].left = l
<1> DEFINE r == [blk |-> st[Len(st)].blk, i |-> i, left |-> l]
<1>1. su = Append(Front(st), r)
  BY DEF Moved
<1>2. /\ Len(st) \in Nat \ {0} /\ Front(st) \in Seq(FrameType) /\ Len(Front(st)) = Len(st) - 1
      /\ \A f \in 1..(Len(st) - 1) : Front(st)[f] = st[f]
  BY FrontFacts DEF Frames, FrameType
<1>3. r.blk = st[Len(st)].blk /\ r.i = i /\ r.left = l
  OBVIOUS
<1> HIDE DEF r
<1> DEFINE fr == Front(st)
<1>4. fr \in Seq(FrameType) /\ Len(fr) \in Nat
  BY <1>2, LenProperties
<1> HIDE DEF fr
<1>5. su = Append(fr, r)
  BY <1>1 DEF fr
<1>6. Len(su) = Len(fr) + 1 /\ su[Len(fr) + 1] = r /\ \A f \in 1..Len(fr) : su[f] = fr[f]
  <2>1. PICK S : S = FrameType \cup {r}
    OBVIOUS
  <2>2. r \in S /\ fr \in Seq(S)
    BY <2>1, <1>4
  <2> QED BY <2>2, <1>5, AppendProperties
<1> QED BY <1>2, <1>3, <1>4, <1>6 DEF fr

\* A walk function begins.
LEMMA PushedTop ==
  ASSUME NEW st, NEW bs, Frames(bs, st), NEW b, NEW l, NEW su, Pushed(su, st, b, l), Frames(bs, su)
  PROVE  /\ Len(su) = Len(st) + 1 /\ \A f \in 1..Len(st) : su[f] = st[f]
         /\ su[Len(su)].blk = b /\ su[Len(su)].i = 1 /\ su[Len(su)].left = l
<1> DEFINE r == [blk |-> b, i |-> 1, left |-> l]
<1>1. su = Append(st, r) /\ st \in Seq(FrameType) /\ Len(st) \in Nat
  BY LenProperties DEF Pushed, Frames, FrameType
<1>2. r.blk = b /\ r.i = 1 /\ r.left = l
  OBVIOUS
<1> HIDE DEF r
<1>3. Len(su) = Len(st) + 1 /\ su[Len(st) + 1] = r /\ \A f \in 1..Len(st) : su[f] = st[f]
  <2>1. PICK S : S = FrameType \cup {r}
    OBVIOUS
  <2>2. r \in S /\ st \in Seq(S)
    BY <2>1, <1>1
  <2> QED BY <2>2, <1>1, AppendProperties
<1> QED BY <1>2, <1>3

-----------------------------------------------------------------------------
(* The inductive invariant: at each step the log, and what the active      *)
(* functions have left, are the tree unrolled.                             *)

InOrder ==
  /\ phase = "walk" => Covers(Unrolling(blks), log, blks, stack)
  /\ phase = "done" => Elems(log) = Unrolling(blks)[Root]
  /\ phase # "parse" => IsPrefix(Elems(log), Unrolling(blks)[Root])

\* A sequence is a prefix of itself and more.
LEMMA PrefixOfConcat ==
  ASSUME NEW a \in Seq(Nat), NEW b \in Seq(Nat)
  PROVE  IsPrefix(a, a \o b) /\ IsPrefix(a, a)
<1> DEFINE c == a \o b
           n == Len(a)
<1>1. n \in Nat /\ Len(b) \in Nat
  BY LenProperties
<1>2. c \in Seq(Nat) /\ Len(c) = n + Len(b) /\ \A i \in 1..n : c[i] = a[i]
  <2>1. /\ c \in Seq(Nat) /\ Len(c) = n + Len(b)
        /\ \A i \in 1..(n + Len(b)) : c[i] = IF i <= n THEN a[i] ELSE b[i - n]
    BY ConcatProperties
  <2>2. \A i \in 1..n : i \in 1..(n + Len(b)) /\ i <= n
    BY <1>1
  <2> QED BY <2>1, <2>2
<1> HIDE DEF c, n
<1>3. SubSeq(c, 1, n) = SubSeq(a, 1, n)
  <2>1. /\ SubSeq(c, 1, n) = [i \in 1..(n - 1 + 1) |-> c[i + 1 - 1]]
        /\ SubSeq(a, 1, n) = [i \in 1..(n - 1 + 1) |-> a[i + 1 - 1]]
    BY <1>1, <1>2 DEF n
  <2>2. \A i \in 1..(n - 1 + 1) : i + 1 - 1 \in 1..n
    BY <1>1
  <2> QED BY <2>1, <2>2, <1>2
<1>4. n <= Len(c)
  BY <1>1, <1>2
<1> QED BY <1>1, <1>3, <1>4 DEF IsPrefix, n, c

\* The elements of the log.
LEMMA ElemsFacts ==
  ASSUME IInv
  PROVE  /\ Elems(log) \in Seq(Nat)
         /\ Len(log) = 0 => Elems(log) = << >>
         /\ \A en : en.elem \in Nat /\ log' = Append(log, en) => Elems(log') = Elems(log) \o <<en.elem>>
<1>1. log \in Seq(Entries) /\ Len(log) \in Nat /\ DOMAIN log = 1..Len(log)
  BY LenProperties DEF IInv, Values, Logged
<1>2. \A k \in 1..Len(log) : log[k].elem \in Nat
  BY <1>1, ElementOfSeq, EntryFields
<1>3. Elems(log) \in Seq(Nat) /\ Len(Elems(log)) = Len(log) /\ \A k \in 1..Len(log) : Elems(log)[k] = log[k].elem
  BY <1>1, <1>2 DEF Elems
<1>4. Len(log) = 0 => Elems(log) = << >>
  BY <1>3, EmptySeq
<1>5. ASSUME NEW en, en.elem \in Nat, log' = Append(log, en)
      PROVE  Elems(log') = Elems(log) \o <<en.elem>>
  <2>1. /\ Len(log') = Len(log) + 1 /\ log'[Len(log) + 1] = en /\ \A k \in 1..Len(log) : log'[k] = log[k]
        /\ DOMAIN log' = 1..(Len(log) + 1)
    <3>1. PICK S : S = Entries \cup {en}
      OBVIOUS
    <3>2. en \in S /\ log \in Seq(S)
      BY <3>1, <1>1
    <3>3. Append(log, en) \in Seq(S)
      BY <3>2, AppendProperties
    <3> QED BY <3>2, <3>3, <1>5, AppendProperties, LenProperties
  <2> DEFINE s == Elems(log)
             e == en.elem
             t == Append(s, e)
  <2>2. s \in Seq(Nat) /\ e \in Nat /\ Len(s) = Len(log) /\ \A k \in 1..Len(log) : s[k] = log[k].elem
    BY <1>3, <1>5
  <2> HIDE DEF s, e
  <2>3. t \in Seq(Nat) /\ Len(t) = Len(log) + 1 /\ t[Len(log) + 1] = e /\ \A k \in 1..Len(log) : t[k] = log[k].elem
    BY <2>2, AppendProperties
  <2>4. t = s \o <<e>>
    BY <2>2, AppendIsConcat
  <2> HIDE DEF t
  <2>5. \A k \in 1..(Len(log) + 1) : log'[k].elem = t[k]
    <3>1. \A k \in 1..(Len(log) + 1) : k \in 1..Len(log) \/ k = Len(log) + 1
      BY <1>1
    <3> QED BY <3>1, <2>1, <2>3 DEF e
  <2>6. t = [k \in 1..(Len(log) + 1) |-> t[k]]
    BY <2>3, LenProperties
  <2>7. Elems(log') = t
    BY <2>1, <2>5, <2>6 DEF Elems
  <2> QED BY <2>4, <2>7 DEF s, e
<1> QED BY <1>3, <1>4, <1>5

\* What a step of the walk has to show.
LEMMA CoversStep ==
  ASSUME IInv, IInv', phase' = "walk", KeptShape(blks', blks), NEW of, of = Unrolling(blks),
         Covers(of, log', blks, stack'), Frames(blks, stack')
  PROVE  InOrder'
<1>1. Tree(blks) /\ Tree(blks') /\ Frames(blks', stack')
  BY DEF IInv, Shape
<1>2. Unrolling(blks') = of /\ Remaining(blks', of, stack') = Remaining(blks, of, stack')
  BY <1>1, UnrollingKept, RemainingKept
<1>3. Covers(of, log', blks', stack')
  BY <1>2 DEF Covers
<1>4. Remaining(blks, of, stack') \in Seq(Nat)
  BY <1>1, RestsTyped
<1>5. Elems(log') \in Seq(Nat)
  <2>1. log' \in Seq(Entries) /\ DOMAIN log' = 1..Len(log') /\ Len(log') \in Nat
    BY LenProperties DEF IInv, Values, Logged
  <2>2. \A k \in 1..Len(log') : log'[k].elem \in Nat
    BY <2>1, ElementOfSeq, EntryFields
  <2> QED BY <2>1, <2>2 DEF Elems
<1>6. IsPrefix(Elems(log'), of[Root])
  BY <1>4, <1>5, PrefixOfConcat DEF Covers
<1>7. phase' # "done"
  OBVIOUS
<1> QED BY <1>2, <1>3, <1>6, <1>7 DEF InOrder

\* A walk function begins, or its block has no rounds.
LEMMA EnterOrder ==
  ASSUME IInv, IInv', NEW b \in 1..Len(blks), ~Leaf(blks, b), NEW below, Frames(blks, below),
         Enter(b, below), NEW of, of = Unrolling(blks)
  PROVE  /\ KeptShape(blks', blks) /\ Frames(blks, stack')
         /\ Remaining(blks, of, stack') = of[b] \o Remaining(blks, of, below)
<1>1. Tree(blks) /\ Frames(blks', stack')
  BY DEF IInv, Shape
<1>2. Rounds(b) = RoundsOf(blks, b)
  BY DEF Rounds, RoundsOf
<1>3. Remaining(blks, of, below) \in Seq(Nat)
  BY <1>1, RestsTyped
<1>4. CASE Rounds(b) = 0
  <2>1. stack' = below /\ blks' = blks
    BY <1>4 DEF Enter
  <2>2. of[b] = << >>
    BY <1>1, <1>2, <1>4, RestBegins
  <2>3. << >> \o Remaining(blks, of, below) = Remaining(blks, of, below)
    BY <1>3, ConcatEmptySeq
  <2>4. KeptShape(blks', blks)
    BY <2>1, <1>1 DEF KeptShape, Tree
  <2> QED BY <2>1, <2>2, <2>3, <2>4
<1>5. CASE Rounds(b) # 0
  <2>1. blks' = blk_invalid_var_all(blks, b) /\ Pushed(stack', below, b, RoundsOf(blks, b) - 1)
    BY <1>2, <1>5 DEF Enter, Pushed
  <2>2. Kept(blks', blks)
    BY <2>1, <1>1, InvalidKept
  <2>3. KeptShape(blks', blks)
    BY <2>2 DEF Kept
  <2>4. Frames(blks, stack')
    <3>1. Len(blks') = Len(blks) /\ \A c \in 1..Len(blks) :
            /\ RoundsOf(blks', c) = RoundsOf(blks, c)
            /\ blks'[c].parent = blks[c].parent /\ blks'[c].subs = blks[c].subs
      BY <2>3, KeptParents DEF KeptShape
    <3>2. ASSUME NEW f \in 1..Len(stack') PROVE Frame(blks, stack', f)
      <4>1. Frame(blks', stack', f)
        BY <1>1 DEF Frames
      <4>2. stack'[f].blk \in 1..Len(blks)
        BY <4>1, <3>1 DEF Frame
      <4> QED BY <4>1, <4>2, <3>1 DEF Frame
    <3> QED BY <3>2, <1>1 DEF Frames
  <2>5. /\ Len(stack') = Len(below) + 1 /\ \A f \in 1..Len(below) : stack'[f] = below[f]
        /\ stack'[Len(stack')].blk = b /\ stack'[Len(stack')].i = 1
        /\ stack'[Len(stack')].left = RoundsOf(blks, b) - 1
    BY <2>1, <2>4, PushedTop
  <2>6. Remaining(blks, of, stack') = Rest(blks, of, stack'[Len(stack')]) \o Remaining(blks, of, below)
    BY <2>4, <2>5, <1>1, RemainingTop
  <2>7. Rest(blks, of, stack'[Len(stack')]) = of[b]
    BY <2>5, <1>1, <1>2, <1>5, RestBegins
  <2> QED BY <2>3, <2>4, <2>6, <2>7
<1> QED BY <1>4, <1>5

\* The child that is next comes first in what is left.
LEMMA ChildFirst ==
  ASSUME IInv, HasChild, NEW of, of = Unrolling(blks)
  PROVE  /\ Remaining(blks, of, stack) = of[Child] \o Remaining(blks, of, Advanced)
         /\ of[Child] \in Seq(Nat) /\ Remaining(blks, of, Advanced) \in Seq(Nat)
<1>1. /\ stack # << >> /\ Child \in 1..Len(blks) /\ Frames(blks, Advanced)
  BY ChildFacts
<1>2. Tree(blks) /\ Frames(blks, stack) /\ Top.i <= Len(blks[Top.blk].subs)
  BY DEF IInv, Shape, HasChild
<1>3. of[Child] \in Seq(Nat) /\ Remaining(blks, of, Advanced) \in Seq(Nat)
  BY <1>1, <1>2, UnrollingFacts, RestsTyped
<1>4. Moved(Advanced, stack, Top.i + 1, Top.left)
  BY DEF Moved, Advanced, Top
<1> DEFINE fr == stack[Len(stack)]
           fs == Advanced[Len(Advanced)]
           below == Front(stack)
<1>5. /\ Len(Advanced) = Len(stack) /\ Len(Advanced) = Len(below) + 1
      /\ \A f \in 1..Len(below) : Advanced[f] = below[f]
      /\ fs.blk = fr.blk /\ fs.i = Top.i + 1 /\ fs.left = Top.left
  BY <1>1, <1>2, <1>4, MovedTop
<1>6. /\ Frames(blks, below) /\ Len(stack) = Len(below) + 1 /\ Len(stack) \in 1..Len(stack)
      /\ \A f \in 1..Len(below) : stack[f] = below[f]
  <2>1. /\ Len(stack) \in Nat \ {0} /\ Len(below) = Len(stack) - 1
        /\ \A f \in 1..(Len(stack) - 1) : below[f] = stack[f]
    BY <1>1, <1>2, FrontFacts DEF Frames
  <2>2. Frames(blks, below)
    BY <1>1, <1>2, FramesPop
  <2> QED BY <2>1, <2>2
<1>7. fr.i = Top.i /\ fr.left = Top.left /\ fr.blk = Top.blk /\ Child = blks[fr.blk].subs[fr.i]
  BY DEF Top, Child
<1>8. fr.blk \in 1..Len(blks) /\ fr.i \in 1..(Len(blks[fr.blk].subs) + 1) /\ fr.left \in Nat
  BY <1>2, <1>6, RestsTyped
<1> HIDE DEF fr, fs, below
<1>9. Rest(blks, of, fr) = of[Child] \o Rest(blks, of, fs)
  <2>1. fr.i <= Len(blks[fr.blk].subs) /\ fs.blk = fr.blk /\ fs.i = fr.i + 1 /\ fs.left = fr.left
    BY <1>2, <1>5, <1>7
  <2>2. \A gs : gs.blk = fr.blk /\ gs.i = fr.i + 1 /\ gs.left = fr.left =>
                Rest(blks, of, fr) = of[blks[fr.blk].subs[fr.i]] \o Rest(blks, of, gs)
    BY <2>1, <1>2, <1>8, RestFacts
  <2>3. Rest(blks, of, fr) = of[blks[fr.blk].subs[fr.i]] \o Rest(blks, of, fs)
    BY <2>1, <2>2, Zenon
  <2> QED BY <2>3, <1>7
<1>10. Remaining(blks, of, stack) = Rest(blks, of, fr) \o Remaining(blks, of, below)
  BY <1>2, <1>6, RemainingTop DEF fr
<1>11. /\ Remaining(blks, of, Advanced) = Rest(blks, of, fs) \o Remaining(blks, of, below)
       /\ Rest(blks, of, fs) \in Seq(Nat)
  BY <1>1, <1>2, <1>5, <1>6, RemainingTop DEF fs
<1>12. Remaining(blks, of, below) \in Seq(Nat)
  BY <1>2, <1>6, RestsTyped
<1> DEFINE x == of[Child]
           y == Rest(blks, of, fs)
           z == Remaining(blks, of, below)
<1>13. x \in Seq(Nat) /\ y \in Seq(Nat) /\ z \in Seq(Nat)
  BY <1>3, <1>11, <1>12
<1> HIDE DEF x, y, z
<1>14. (x \o y) \o z = x \o (y \o z)
  BY <1>13, Assoc
<1> QED BY <1>3, <1>9, <1>10, <1>11, <1>14 DEF x, y, z

\* walk_tmplt begins with the root: all of the tree is left.
LEMMA WalkTmpltOrder ==
  ASSUME IInv, IInv', walk_tmplt
  PROVE  InOrder'
<1> DEFINE of == Unrolling(blks)
<1>1. Enter(Root, << >>) /\ phase = "parse" /\ phase' = "walk" /\ log' = log
  BY DEF walk_tmplt, Parsing
<1>2. Tree(blks) /\ Marks(blks) /\ log = << >>
  BY <1>1 DEF IInv, Shape
<1>3. Root \in 1..Len(blks) /\ ~Leaf(blks, Root)
  BY <1>2 DEF Tree, Root, Leaf, Marks, Elements
<1>4. Frames(blks, << >>) /\ Len(<< >>) = 0
  BY EmptySeq DEF Frames
<1>5. Remaining(blks, of, << >>) = << >> /\ of[Root] \in Seq(Nat)
  BY <1>2, <1>3, <1>4, RestsTyped, UnrollingFacts
<1>6. /\ KeptShape(blks', blks) /\ Frames(blks, stack')
      /\ Remaining(blks, of, stack') = of[Root] \o Remaining(blks, of, << >>)
  BY <1>1, <1>3, <1>4, EnterOrder
<1>7. Elems(log') = << >>
  BY <1>1, <1>2, ElemsFacts
<1> HIDE DEF of
<1>8. of[Root] \o << >> = of[Root] /\ << >> \o of[Root] = of[Root]
  BY <1>5, ConcatEmptySeq
<1>9. Covers(of, log', blks, stack')
  BY <1>5, <1>6, <1>7, <1>8 DEF Covers
<1> QED BY <1>1, <1>6, <1>9, CoversStep DEF of

\* The walk stops at an error: what was generated is not taken back.
LEMMA StopOrder ==
  ASSUME InOrder, phase = "walk", phase' \in {"undefined", "unset", "crash"}, blks' = blks, log' = log
  PROVE  InOrder'
BY DEF InOrder

\* A nested block is entered.
LEMMA WalkBlkOrder ==
  ASSUME IInv, IInv', InOrder, WalkBlk
  PROVE  InOrder'
<1> DEFINE of == Unrolling(blks)
<1>1. /\ HasChild /\ phase = "walk" /\ Child \in 1..Len(blks) /\ Frames(blks, Advanced)
      /\ ~Leaf(blks, Child)
  BY ChildFacts DEF WalkBlk, Leaf
<1>2. CASE blks[Child].kind = "traverse" /\ blks[Child].state = NULL
  BY <1>1, <1>2, StopOrder DEF WalkBlk, walker
<1>3. CASE ~(blks[Child].kind = "traverse" /\ blks[Child].state = NULL)
  <2>1. Enter(Child, Advanced) /\ phase' = "walk" /\ log' = log
    BY <1>1, <1>3 DEF WalkBlk
  <2>2. /\ KeptShape(blks', blks) /\ Frames(blks, stack')
        /\ Remaining(blks, of, stack') = of[Child] \o Remaining(blks, of, Advanced)
    BY <1>1, <2>1, EnterOrder
  <2>3. Remaining(blks, of, stack) = of[Child] \o Remaining(blks, of, Advanced)
    BY <1>1, ChildFirst
  <2>4. Covers(of, log, blks, stack)
    BY <1>1 DEF InOrder
  <2> HIDE DEF of
  <2>5. Covers(of, log', blks, stack')
    BY <2>1, <2>2, <2>3, <2>4 DEF Covers
  <2> QED BY <2>1, <2>2, <2>5, CoversStep DEF of
<1> QED BY <1>2, <1>3

\* An element is generated: it is the one that comes first.
LEMMA ElementOrder ==
  ASSUME IInv, IInv', InOrder, HasChild, Leaf(blks, Child), stack' = Advanced, phase' = phase,
         KeptShape(blks', blks), NEW blk, NEW val, Log(Entry(Child, blk, val))
  PROVE  InOrder'
<1> DEFINE of == Unrolling(blks)
           en == Entry(Child, blk, val)
<1>1. phase = "walk" /\ Child \in 1..Len(blks) /\ Frames(blks, Advanced)
  BY ChildFacts
<1>2. Tree(blks)
  BY DEF IInv, Shape
<1>3. of[Child] = <<Child>>
  BY <1>1, <1>2, UnrollingFacts DEF Generated
<1>4. en.elem = Child /\ Child \in Nat /\ log' = Append(log, en)
  BY <1>1 DEF Entry, Log
<1> HIDE DEF en
<1>5. Elems(log') = Elems(log) \o <<Child>> /\ Elems(log) \in Seq(Nat)
  BY <1>4, ElemsFacts
<1>6. /\ Remaining(blks, of, stack) = of[Child] \o Remaining(blks, of, Advanced)
      /\ of[Child] \in Seq(Nat) /\ Remaining(blks, of, Advanced) \in Seq(Nat)
  BY ChildFirst
<1>7. Covers(of, log, blks, stack)
  BY <1>1 DEF InOrder
<1> HIDE DEF of
<1> DEFINE x == Elems(log)
           y == of[Child]
           z == Remaining(blks, of, Advanced)
<1>8. x \in Seq(Nat) /\ y \in Seq(Nat) /\ z \in Seq(Nat)
  BY <1>5, <1>6
<1> HIDE DEF x, y, z
<1>9. (x \o y) \o z = x \o (y \o z)
  BY <1>8, Assoc
<1>10. Covers(of, log', blks, stack')
  BY <1>3, <1>5, <1>6, <1>7, <1>9 DEF Covers, x, y, z
<1> QED BY <1>1, <1>10, CoversStep DEF of

\* The next round of a block.
LEMMA NextRoundOrder ==
  ASSUME IInv, IInv', InOrder, NextRound
  PROVE  InOrder'
<1> DEFINE of == Unrolling(blks)
<1>1. /\ stack # << >> /\ phase = "walk" /\ phase' = phase /\ log' = log /\ Top.left > 0
      /\ ~(Top.i <= Len(blks[Top.blk].subs)) /\ blks' = blk_invalid_var_all(blks, Top.blk)
      /\ Moved(stack', stack, 1, Top.left - 1)
  BY DEF NextRound, Walking, HasChild, Moved, Top
<1>2. /\ Tree(blks) /\ Frames(blks, stack) /\ Len(stack) \in Nat \ {0} /\ Top.blk \in 1..Len(blks)
      /\ Len(blks[Top.blk].subs) \in Nat /\ RoundsOf(blks, Top.blk) \in Nat
      /\ Top.i \in 1..(Len(blks[Top.blk].subs) + 1) /\ Top.left \in 0..(RoundsOf(blks, Top.blk) - 1)
  BY <1>1, TopFacts DEF IInv
<1>3. KeptShape(blks', blks)
  BY <1>1, <1>2, InvalidKept DEF Kept
<1>4. Frames(blks, stack')
  <2>1. 1 \in 1..(Len(blks[Top.blk].subs) + 1) /\ Top.left - 1 \in 0..(RoundsOf(blks, Top.blk) - 1)
    BY <1>1, <1>2, SMTT(30)
  <2> QED BY <2>1, <1>1, <1>2, FramesMove DEF Top
<1> DEFINE fr == stack[Len(stack)]
           fs == stack'[Len(stack')]
           below == Front(stack)
<1>5. /\ Len(stack') = Len(below) + 1 /\ \A f \in 1..Len(below) : stack'[f] = below[f]
      /\ fs.blk = fr.blk /\ fs.i = 1 /\ fs.left = Top.left - 1
  BY <1>1, <1>2, <1>4, MovedTop
<1>6. /\ Frames(blks, below) /\ Len(stack) = Len(below) + 1 /\ Len(stack) \in 1..Len(stack)
      /\ \A f \in 1..Len(below) : stack[f] = below[f]
  <2>1. /\ Len(below) = Len(stack) - 1 /\ \A f \in 1..(Len(stack) - 1) : below[f] = stack[f]
    BY <1>1, <1>2, FrontFacts DEF Frames
  <2>2. Frames(blks, below)
    BY <1>1, <1>2, FramesPop
  <2> QED BY <2>1, <2>2, <1>2
<1>7. fr.i = Top.i /\ fr.left = Top.left /\ fr.blk = Top.blk
  BY DEF Top
<1> HIDE DEF fr, fs, below
<1>8. Rest(blks, of, fr) = Rest(blks, of, fs)
  <2>1. fr.i > Len(blks[fr.blk].subs) /\ fr.left \in Nat
    BY <1>1, <1>2, <1>7, SMTT(30)
  <2> QED BY <2>1, <1>1, <1>2, <1>5, <1>7, RestFacts
<1>9. /\ Remaining(blks, of, stack) = Rest(blks, of, fr) \o Remaining(blks, of, below)
      /\ Remaining(blks, of, stack') = Rest(blks, of, fs) \o Remaining(blks, of, below)
  <2>1. Remaining(blks, of, stack) = Rest(blks, of, fr) \o Remaining(blks, of, below)
    BY <1>2, <1>6, RemainingTop DEF fr
  <2>2. Remaining(blks, of, stack') = Rest(blks, of, fs) \o Remaining(blks, of, below)
    BY <1>2, <1>4, <1>5, <1>6, RemainingTop DEF fs
  <2> QED BY <2>1, <2>2
<1>10. Covers(of, log, blks, stack)
  BY <1>1 DEF InOrder
<1> HIDE DEF of
<1>11. Covers(of, log', blks, stack')
  BY <1>1, <1>8, <1>9, <1>10 DEF Covers
<1> QED BY <1>1, <1>3, <1>4, <1>11, CoversStep DEF of

\* A walk function returns: it has nothing left.
LEMMA ReturnOrder ==
  ASSUME IInv, IInv', InOrder, Return
  PROVE  InOrder'
<1> DEFINE of == Unrolling(blks)
           fr == stack[Len(stack)]
           below == Front(stack)
<1>1. /\ stack # << >> /\ phase = "walk" /\ log' = log /\ blks' = blks /\ Top.left = 0
      /\ ~(Top.i <= Len(blks[Top.blk].subs)) /\ stack' = below
      /\ phase' = IF Len(stack) = 1 THEN "done" ELSE phase
  BY DEF Return, Walking, HasChild
<1>2. /\ Tree(blks) /\ Frames(blks, stack) /\ Len(stack) \in Nat \ {0} /\ Top.blk \in 1..Len(blks)
      /\ Len(blks[Top.blk].subs) \in Nat /\ Top.i \in 1..(Len(blks[Top.blk].subs) + 1)
  BY <1>1, TopFacts DEF IInv
<1>3. /\ Frames(blks, below) /\ Len(stack) = Len(below) + 1 /\ Len(below) \in Nat
      /\ \A f \in 1..Len(below) : stack[f] = below[f]
  <2>1. /\ Len(below) = Len(stack) - 1 /\ \A f \in 1..(Len(stack) - 1) : below[f] = stack[f]
    BY <1>1, <1>2, FrontFacts DEF Frames
  <2>2. Frames(blks, below)
    BY <1>1, <1>2, FramesPop
  <2> QED BY <2>1, <2>2, <1>2
<1>4. fr.i = Top.i /\ fr.left = Top.left /\ fr.blk = Top.blk
  BY DEF Top
<1> HIDE DEF fr, below
<1>5. Rest(blks, of, fr) = << >>
  <2>1. fr.i > Len(blks[fr.blk].subs) /\ fr.left \in Nat /\ fr.left = 0
    BY <1>1, <1>2, <1>4
  <2> QED BY <2>1, <1>2, <1>4, RestFacts
<1>6. Remaining(blks, of, stack) = Rest(blks, of, fr) \o Remaining(blks, of, below)
  BY <1>2, <1>3, RemainingTop DEF fr
<1>7. Remaining(blks, of, below) \in Seq(Nat) /\ (Len(below) = 0 => Remaining(blks, of, below) = << >>)
  BY <1>2, <1>3, RestsTyped
<1>8. << >> \o Remaining(blks, of, below) = Remaining(blks, of, below)
  BY <1>7, ConcatEmptySeq
<1>9. Covers(of, log, blks, stack) /\ IsPrefix(Elems(log), of[Root])
  BY <1>1 DEF InOrder
<1>10. Elems(log) \in Seq(Nat)
  BY ElemsFacts
<1> HIDE DEF of
<1>11. Elems(log) \o Remaining(blks, of, below) = of[Root]
  BY <1>5, <1>6, <1>8, <1>9 DEF Covers
<1>12. CASE Len(stack) = 1
  <2>1. phase' = "done" /\ Len(below) = 0
    <3>1. Len(below) = 0
      <4>1. Len(stack) = Len(below) + 1 /\ Len(below) \in Nat
        BY <1>3
      <4>2. \A m \in Nat : m + 1 = 1 => m = 0
        OBVIOUS
      <4> QED BY <4>1, <4>2, <1>12, Zenon
    <3> QED BY <3>1, <1>1, <1>12
  <2>2. Elems(log) \o << >> = Elems(log)
    BY <1>10, ConcatEmptySeq
  <2>3. Elems(log) = of[Root]
    BY <2>1, <2>2, <1>7, <1>11
  <2> QED BY <2>1, <2>3, <1>1, <1>9 DEF InOrder, of
<1>13. CASE Len(stack) # 1
  <2>1. phase' = "walk"
    BY <1>1, <1>13
  <2> QED BY <2>1, <1>1, <1>9, <1>11 DEF InOrder, Covers, of
<1> QED BY <1>12, <1>13

\* A select generates its choice, ...
LEMMA SelectOrder ==
  ASSUME IInv, IInv', InOrder, walkSelBlk
  PROVE  InOrder'
<1>1. /\ HasChild /\ blks[Child].kind = "select" /\ stack' = Advanced /\ Log(Entry(Child, NULL, 0))
      /\ phase' = phase /\ blks' = blks
  BY DEF walkSelBlk
<1>2. Leaf(blks, Child) /\ KeptShape(blks', blks)
  BY <1>1 DEF Leaf, KeptShape, IInv, Shape, Tree
<1> QED BY <1>1, <1>2, ElementOrder

\* ... an instruction element itself, unless the walk stops there, ...
LEMMA IElemOrder ==
  ASSUME IInv, IInv', InOrder, walkIElem
  PROVE  InOrder'
<1> DEFINE n == blks[Child].use
           blk == blk_search_var(curr_blk, n)
           val == IF blks[blk].vars[n] = Invalid THEN drawn + 1 ELSE blks[blk].vars[n]
           plain == /\ stack' = Advanced /\ Log(Entry(Child, NULL, 0))
                    /\ UNCHANGED <<phase, blks, parser, curr_blk, drawn, round>>
           found == /\ n # NoName /\ blk # NULL /\ stack' = Advanced /\ phase' = phase
                    /\ Log(Entry(Child, blk, val))
<1>1. HasChild /\ blks[Child].kind = "I"
  BY Zenon DEF walkIElem
<1>2. \/ Stop("crash")
      \/ Stop("undefined")
      \/ plain
      \/ found /\ ValueSet(blks', blks, blk, n, val)
  BY Zenon DEF walkIElem, ValueSet
<1>3. phase = "walk" /\ Child \in 1..Len(blks) /\ Tree(blks) /\ drawn \in Nat /\ Leaf(blks, Child)
  BY <1>1, ChildFacts DEF IInv, Shape, Leaf, Elements
<1>4. n # NoName => /\ n \in Names /\ blk \in 0..Len(blks)
                    /\ blk # NULL => blks[blk].vars[n] \in 0..drawn
  BY <1>1, UseFacts
<1> HIDE DEF blk
<1>5. CASE Stop("crash") \/ Stop("undefined")
  BY <1>3, <1>5, StopOrder DEF Stop, walker
<1>6. CASE plain
  <2>1. KeptShape(blks', blks)
    BY <1>3, <1>6 DEF KeptShape, Tree
  <2> QED BY <2>1, <1>1, <1>3, <1>6, ElementOrder
<1>7. CASE found /\ ValueSet(blks', blks, blk, n, val)
  <2>1. found /\ ValueSet(blks', blks, blk, n, val)
    BY <1>7
  <2>2. n \in Names /\ blk \in 1..Len(blks) /\ blks[blk].vars[n] \in 0..drawn
    <3>1. Len(blks) \in Nat
      BY <1>3, LenProperties DEF Tree
    <3> QED BY <2>1, <3>1, <1>4 DEF NULL
  <2>3. val \in Nat /\ blks[blk].vars[n] # Undeclared
    BY <2>2, <1>3 DEF Undeclared
  <2> HIDE DEF val
  <2>4. KeptShape(blks', blks)
    BY <2>1, <2>2, <2>3, <1>3, ValueKept DEF Given, Kept
  <2> QED BY <2>1, <2>4, <1>1, <1>3, ElementOrder
<1> QED BY <1>2, <1>5, <1>6, <1>7

\* ... and a check itself.
LEMMA CElemOrder ==
  ASSUME IInv, IInv', InOrder, walkCElem
  PROVE  InOrder'
<1>1. HasChild /\ blks[Child].kind = "C"
  BY DEF walkCElem
<1>2. \/ Stop("crash")
      \/ Stop("unset")
      \/ /\ stack' = Advanced /\ phase' = phase /\ blks' = blks
         /\ \E blk, val : Log(Entry(Child, blk, val))
  BY Zenon DEF walkCElem
<1>3. phase = "walk" /\ Leaf(blks, Child)
  BY <1>1, ChildFacts DEF Leaf, Elements
<1>4. CASE Stop("crash") \/ Stop("unset")
  BY <1>3, <1>4, StopOrder DEF Stop, walker
<1>5. CASE /\ stack' = Advanced /\ phase' = phase /\ blks' = blks
           /\ \E blk, val : Log(Entry(Child, blk, val))
  <2>1. KeptShape(blks', blks)
    BY <1>5 DEF KeptShape, IInv, Shape, Tree
  <2> QED BY <2>1, <1>1, <1>3, <1>5, ElementOrder
<1> QED BY <1>2, <1>4, <1>5

\* The parser generates nothing, and may crash.
LEMMA ParseOrder ==
  ASSUME IInv, IInv', Parse
  PROVE  InOrder'
<1>1. phase = "parse" /\ phase' \in {"parse", "crash"} /\ log' = log
  BY DEF Parse, parseV, parseI, parseI_trv, parseC, parseSelBlk, OpenBlk, CloseBlk, Room, Parsing, walker
<1>2. log = << >> /\ Tree(blks')
  BY <1>1 DEF IInv, Shape
<1>3. Elems(log') = << >>
  BY <1>1, <1>2, ElemsFacts
<1>4. Root \in 1..Len(blks')
  BY <1>2 DEF Tree, Root
<1> DEFINE of == Unrolling(blks')
<1>5. of[Root] \in Seq(Nat)
  BY <1>2, <1>4, UnrollingFacts
<1> HIDE DEF of
<1>6. IsPrefix(<< >>, of[Root])
  <2>1. << >> \o of[Root] = of[Root] /\ << >> \in Seq(Nat)
    BY <1>5, ConcatEmptySeq
  <2> QED BY <2>1, <1>5, PrefixOfConcat
<1> QED BY <1>1, <1>3, <1>6 DEF InOrder, of

\* The invariant holds at every step.
LEMMA AlwaysInOrder == Spec => [](IInv /\ InOrder)
<1>1. Init => InOrder
  BY DEF Init, InOrder
<1>2. IInv /\ IInv' /\ InOrder /\ [Next]_vars => InOrder'
  <2> SUFFICES ASSUME IInv, IInv', InOrder, [Next]_vars PROVE InOrder'
    OBVIOUS
  <2>1. CASE Parse
    BY <2>1, ParseOrder
  <2>2. CASE walk_tmplt
    BY <2>2, WalkTmpltOrder
  <2>3. CASE WalkBlk
    BY <2>3, WalkBlkOrder
  <2>4. CASE NextRound
    BY <2>4, NextRoundOrder
  <2>5. CASE Return
    BY <2>5, ReturnOrder
  <2>6. CASE walkSelBlk
    BY <2>6, SelectOrder
  <2>7. CASE walkIElem
    BY <2>7, IElemOrder
  <2>8. CASE walkCElem
    BY <2>8, CElemOrder
  <2>9. CASE UNCHANGED vars
    <3>1. phase' = phase /\ blks' = blks /\ log' = log /\ stack' = stack
      BY <2>9 DEF vars
    <3> QED BY <3>1 DEF InOrder, Covers
  <2> QED BY <2>1, <2>2, <2>3, <2>4, <2>5, <2>6, <2>7, <2>8, <2>9 DEF Next, Walk
<1> QED BY <1>1, <1>2, InitIInv, NextIInv, PTL DEF Spec

\* The walk follows the tree that the parser built: walkSeqBlk, walkRptBlk,
\* walkTrvBlk and walkTttBlk generate its elements in document order, those of
\* a repeat or traverse block once per round, and all of them if walk_tmplt
\* returns; and no pointer leaves the tree.
THEOREM WalkFollowsTheTree == Spec => []WalksTheTree
<1>1. IInv /\ InOrder => GeneratesUnrolled
  <2> SUFFICES ASSUME IInv, InOrder PROVE GeneratesUnrolled
    OBVIOUS
  <2>1. Unrolled = Unrolling(blks)[Root]
    BY UnrolledIs DEF IInv, Shape
  <2> QED BY <2>1 DEF InOrder, GeneratesUnrolled, Elems
<1>2. Spec => []TypeOK
  BY TreeStaysTyped
<1> QED BY <1>1, <1>2, AlwaysInOrder, PTL DEF WalksTheTree
=============================================================================

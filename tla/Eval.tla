--------------------------------- MODULE Eval ---------------------------------
(***************************************************************************)
(* The expressions of operands: engine/eval.c with its vectors             *)
(* (engine/exprlib.c), the tokens buf2token.c feeds it, and the part of    *)
(* one_insn_gen that makes an operand of what it returns.  An operand's    *)
(* text is any text a template writes, up to the bounds.                   *)
(*                                                                         *)
(* get_token delivers operators of one character only, no parenthesis is   *)
(* read, and no symbol is ever known, so that no value has a segment:      *)
(* what the code has for the others is left out.                           *)
(***************************************************************************)
EXTENDS ReadNum, Bitwise

CONSTANTS
  Registers,      \* registers, in the order of their numbers
  Gprs,           \* those that can be the base of an address
  Alphabets,      \* tokens that templates write together, as a sequence of records: a
                  \* set of "tokens", what the text "begins" with, the length "free" up to which
                  \* any sequence of them is a text, and the length "max" up to which
                  \* those are that take turns between operands and operators
  Numerals        \* numerals that make up a text of their own

ASSUME EvalAssumption ==
  /\ Gprs \subseteq ToSet(Registers)
  /\ \A A \in ToSet(Alphabets) : A.free \in Nat /\ A.max \in Nat /\ A.begins \in {"", "[", "&"}

VARIABLES
  alphabet,  \* the one the text is written in, by its number
  text,   \* the tokens of the operand; a token has a type, and the characters
          \* of a numeral or the name of a register or function
  op      \* what one_insn_gen has made of it

vars == <<alphabet, text, op>>

-----------------------------------------------------------------------------
(* Numbers of Width bits and vectors: the terms of a linear form.          *)

Signed(n) == ((n + Limit \div 2) % Limit) - Limit \div 2
Unsigned(n) == n % Limit

EXPR_UNKNOWN == Len(Registers) + 1
EXPR_SIMPLE  == Len(Registers) + 2
RegNum(r) == CHOOSE n \in DOMAIN Registers : Registers[n] = r

Significant(v) == SelectSeq(v, LAMBDA t : t.value # 0)

is_simple(v) == Significant(v) = << >> \/ (Len(Significant(v)) = 1 /\ Head(Significant(v)).type = EXPR_SIMPLE)
is_unknown(v) == \E k \in DOMAIN v : v[k].type = EXPR_UNKNOWN
is_just_unknown(v) == Significant(v) # << >> /\ Head(Significant(v)).type = EXPR_UNKNOWN
is_reloc(v) == \A k \in DOMAIN Significant(v) : Significant(v)[k].type >= EXPR_SIMPLE
reloc_value(v) == IF Significant(v) # << >> /\ Head(Significant(v)).type = EXPR_SIMPLE
                  THEN Head(Significant(v)).value ELSE 0

Term(type, value) == <<[type |-> type, value |-> value]>>
scalarvect(n) == Term(EXPR_SIMPLE, Signed(n))
unknown_expr == Term(EXPR_UNKNOWN, 1)
Truth(b) == IF b THEN scalarvect(1) ELSE scalarvect(0)

Types(v) == {v[k].type : k \in DOMAIN v}
Coefficient(v, type) == IF type \in Types(v) THEN v[CHOOSE k \in DOMAIN v : v[k].type = type].value ELSE 0

\* The vectors are merged while both have terms left, up to an unknown one.
add_vectors(p, q, hint) ==
  LET types  == SetToSortSeq(Types(p) \cup Types(q), LAMBDA s, t : s < t)
      cut    == /\ EXPR_UNKNOWN \in Types(p) \cup Types(q)
                /\ p # << >> /\ q # << >>
                /\ Last(p).type >= EXPR_UNKNOWN /\ Last(q).type >= EXPR_UNKNOWN
      both   == {t \in Types(p) \cap Types(q) : cut => t <= EXPR_UNKNOWN}
      merged == [k \in DOMAIN types |->
                   [type |-> types[k], value |-> Signed(Coefficient(p, types[k]) + Coefficient(q, types[k]))]]
  IN [vec  |-> SelectSeq(merged, LAMBDA t : /\ cut => t.type <= EXPR_UNKNOWN
                                            /\ ~(t.value = 0 /\ t.type \in both)),
      hint |-> IF \E k \in DOMAIN merged : merged[k].type \in both /\ merged[k].value # 0
               THEN [hint EXCEPT !.type = "SUMMED"] ELSE hint]

\* a register that is multiplied is not to be the base
scalar_mult(v, n, hint, affect_hints) ==
  [vec  |-> [k \in DOMAIN v |-> [v[k] EXCEPT !.value = Signed(n * @)]],
   hint |-> IF affect_hints /\ hint.type = "MAKEBASE" /\ hint.base \in Types(v)
            THEN [hint EXCEPT !.type = "NOTBASE"] ELSE hint]

-----------------------------------------------------------------------------
(* The parser.  Its state: the tokens, how many are read (the last of them *)
(* is the current one), the hints, whether an error has been reported.     *)
(* A result is NULL or a vector, with the state behind it.                 *)

EOS == [type |-> "EOS", val |-> << >>]

\* get_token: an ill-formed numeral is a token of its own
get_token(tok) ==
  IF tok.type = "num" /\ readnum(tok.val).error THEN [type |-> "errnum", val |-> << >>] ELSE tok

tt(s) == IF s.i \in DOMAIN s.toks THEN get_token(s.toks[s.i]) ELSE EOS
Scan(s) == [s EXCEPT !.i = @ + 1]

Report(s) == [s EXCEPT !.reported = TRUE]
ReportIf(bad, s) == IF bad THEN Report(s) ELSE s
Vector(v, s) == [null |-> FALSE, vec |-> v, s |-> s]
Null(s) == [null |-> TRUE, vec |-> << >>, s |-> Report(s)]
Summed(x, s) == Vector(x.vec, [s EXCEPT !.hint = x.hint])     \* a vector with its hint

Scalar(v) == is_simple(v) \/ is_just_unknown(v)

\* what an operator of one level does with its operands
Minus(e, f, s) == LET m == scalar_mult(f, -1, s.hint, FALSE) IN add_vectors(e, m.vec, m.hint)

rexp3(o, e, f, s) ==
  LET d  == Minus(e, f, s)
      v  == reloc_value(d.vec)
      s1 == [s EXCEPT !.hint = d.hint]
  IN CASE is_unknown(d.vec) -> Vector(unknown_expr, s1)
       [] ~is_unknown(d.vec) /\ o = "=" -> Vector(Truth(is_simple(d.vec) /\ v = 0), s1)
       [] ~is_unknown(d.vec) /\ o # "=" /\ ~is_simple(d.vec) -> Vector(scalarvect(0), Report(s1))
       [] OTHER -> Vector(Truth(IF o = "<" THEN v < 0 ELSE v > 0), s1)

Bits(o, m, n) == CASE o = "|" -> Unsigned(m) | Unsigned(n)
                   [] o = "^" -> Unsigned(m) ^^ Unsigned(n)
                   [] o = "&" -> Unsigned(m) & Unsigned(n)

\* An operand that is no scalar is reported and counts as its scalar part.
BitOperator(o, e, f, s) ==
  Vector(IF is_just_unknown(e) \/ is_just_unknown(f) THEN unknown_expr
         ELSE scalarvect(Bits(o, reloc_value(e), reloc_value(f))),
         ReportIf(~(Scalar(e) /\ Scalar(f)), s))
expr0(e, f, s) == BitOperator("|", e, f, s)
expr1(e, f, s) == BitOperator("^", e, f, s)
expr2(e, f, s) == BitOperator("&", e, f, s)

\* Fault: what is subtracted is added.
expr4_NoMinus(o, e, f, s) == Summed(add_vectors(e, f, s.hint), s)

expr4(o, e, f, s) == Summed(IF o = "+" THEN add_vectors(e, f, s.hint) ELSE Minus(e, f, s), s)

expr5(o, e, f, s) ==
  LET unknown == is_just_unknown(e) \/ is_just_unknown(f)
      m == reloc_value(e)
      n == reloc_value(f)
  IN CASE o = "*" /\ is_simple(e) -> Summed(scalar_mult(f, m, s.hint, TRUE), s)
       [] o = "*" /\ ~is_simple(e) /\ is_simple(f) -> Summed(scalar_mult(e, n, s.hint, TRUE), s)
       [] o = "*" /\ ~is_simple(e) /\ ~is_simple(f) ->
            IF is_just_unknown(e) /\ is_just_unknown(f) THEN Vector(unknown_expr, s) ELSE Null(s)
       [] o # "*" /\ ~(Scalar(e) /\ Scalar(f)) -> Null(s)
       [] o # "*" /\ Scalar(e) /\ Scalar(f) /\ ~is_just_unknown(f) /\ n = 0 -> Null(s)  \* division by zero
       [] o # "*" /\ Scalar(e) /\ Scalar(f) /\ unknown /\ (n # 0 \/ is_just_unknown(f)) ->
            Vector(unknown_expr, s)
       [] o = "/" /\ Scalar(e) /\ Scalar(f) /\ ~unknown /\ n # 0 ->
            Vector(scalarvect(Unsigned(m) \div Unsigned(n)), s)
       [] o = "%" /\ Scalar(e) /\ Scalar(f) /\ ~unknown /\ n # 0 ->
            Vector(scalarvect(Unsigned(m) % Unsigned(n)), s)

ilog2(n) == IF n = 0 THEN 0 ELSE CHOOSE k \in 0..(Width - 1) : 2 ^ k <= n /\ n < 2 ^ (k + 1)
is_power2(n) == n > 0 /\ 2 ^ ilog2(n) = n

\* ilog2e insists on a power of two, ilog2w warns, ilog2f and ilog2c round
eval_ifunc(func, v, s) ==
  LET n == Unsigned(reloc_value(v))
  IN Vector(scalarvect(IF func = "ilog2c" THEN IF n < 2 THEN 0 ELSE ilog2(n - 1) + 1 ELSE ilog2(n)),
            ReportIf(func = "ilog2e" /\ ~is_power2(n), s))

\* a complement or function of an operand
OfScalar(x, Fun(_, _)) ==
  CASE x.null -> x
    [] ~x.null /\ is_just_unknown(x.vec) -> Vector(unknown_expr, x.s)
    [] ~x.null /\ ~is_just_unknown(x.vec) /\ ~is_simple(x.vec) -> Null(x.s)
    [] OTHER -> Fun(x.vec, x.s)

\* no value has a segment
segment_part(x) == CASE x.null -> x
                     [] ~x.null /\ is_unknown(x.vec) -> Vector(unknown_expr, x.s)
                     [] OTHER -> Null(x.s)

RECURSIVE expr6(_)
expr6(s) ==
  LET tok  == tt(s)
      next == Scan(s)
  IN CASE tok.type = "num" -> Vector(scalarvect(readnum(tok.val).value), next)
       [] tok.type = "reg" ->
            LET r == RegNum(tok.val[1])
            IN Vector(Term(r, 1),
                      IF s.hint.type = "NOHINT" THEN [next EXCEPT !.hint = [type |-> "MAKEBASE", base |-> r]]
                      ELSE next)
       [] tok.type = "id" -> Vector(unknown_expr, Report(next))     \* location.known is never set
       [] tok.type = "+" -> expr6(next)
       [] tok.type = "-" ->
            LET x == expr6(next)
            IN IF x.null THEN x ELSE Summed(scalar_mult(x.vec, -1, x.s.hint, FALSE), x.s)
       [] tok.type = "~" ->
            OfScalar(expr6(next), LAMBDA v, s1 : Vector(scalarvect(-reloc_value(v) - 1), s1))
       [] tok.type = "!" ->
            OfScalar(expr6(next), LAMBDA v, s1 : Vector(Truth(reloc_value(v) = 0), s1))
       [] tok.type = "ifunc" ->
            OfScalar(expr6(next), LAMBDA v, s1 : eval_ifunc(tok.val[1], v, s1))
       [] tok.type = "seg" -> segment_part(expr6(next))
       [] OTHER -> Null(s)                                          \* expression syntax error

\* the levels of binary operators, loosest first
Levels == <<{"=", "<", ">"}, {"|"}, {"^"}, {"&"}, {"+", "-"}, {"*", "/", "%"}>>
Apply(n, o, e, f, s) == CASE n = 1 -> rexp3(o, e, f, s)
                          [] n = 2 -> expr0(e, f, s)
                          [] n = 3 -> expr1(e, f, s)
                          [] n = 4 -> expr2(e, f, s)
                          [] n = 5 -> expr4(o, e, f, s)
                          [] n = 6 -> expr5(o, e, f, s)

\* one level: operands of the next one, joined from the left
RECURSIVE Level(_, _), Joined(_, _)
Level(n, s) == IF n > Len(Levels) THEN expr6(s) ELSE Joined(n, Level(n + 1, s))
Joined(n, x) ==
  IF x.null \/ tt(x.s).type \notin Levels[n] THEN x
  ELSE LET y == Level(n + 1, Scan(x.s))
       IN IF y.null THEN y ELSE Joined(n, Apply(n, tt(x.s).type, x.vec, y.vec, y.s))

\* both alternatives are evaluated; a condition that is no scalar is reported
Chosen(e, f, g) ==
  CASE g.null -> g
    [] ~g.null /\ is_simple(e.vec) -> Vector(IF reloc_value(e.vec) # 0 THEN f.vec ELSE g.vec, g.s)
    [] ~g.null /\ is_just_unknown(e.vec) -> Vector(unknown_expr, g.s)
    [] OTHER -> Vector(e.vec, Report(g.s))

RECURSIVE cexpr(_)
Alternatives(e, f) == CASE f.null -> f
                        [] ~f.null /\ tt(f.s).type # ":" -> Null(f.s)
                        [] ~f.null /\ tt(f.s).type = ":" -> Chosen(e, f, cexpr(Scan(f.s)))
Condition(e) == IF e.null \/ tt(e.s).type # "?" THEN e ELSE Alternatives(e, cexpr(Scan(e.s)))
cexpr(s) == Condition(Level(1, s))

evaluate(toks, first) ==
  cexpr([toks |-> toks, i |-> first, hint |-> [type |-> "NOHINT", base |-> 0], reported |-> FALSE])

-----------------------------------------------------------------------------
(* The operand.                                                            *)

NoAddress == [ok |-> TRUE, basereg |-> 0, indexreg |-> 0, scale |-> 0, offset |-> 0]

\* Fault: the coefficient of the index is lost.
parse_mref_NoScale(v) ==
  FoldLeft(LAMBDA a, t :
             CASE t.type = EXPR_SIMPLE -> [a EXCEPT !.offset = Signed(@ + t.value)]
               [] t.type = EXPR_UNKNOWN -> a
               [] t.type < EXPR_UNKNOWN /\ Registers[t.type] \in Gprs /\ t.value = 1 /\ a.basereg = 0 ->
                    [a EXCEPT !.basereg = t.type]
               [] OTHER -> IF a.indexreg = 0 THEN [a EXCEPT !.indexreg = t.type, !.scale = 1]
                           ELSE [a EXCEPT !.ok = FALSE],
           NoAddress, v)

\* A register whose coefficient is 0 is an index like any other.
parse_mref(v) ==
  FoldLeft(LAMBDA a, t :
             CASE ~a.ok -> a
               [] a.ok /\ t.type = EXPR_SIMPLE -> [a EXCEPT !.offset = Signed(@ + t.value)]
               [] a.ok /\ t.type = EXPR_UNKNOWN -> a
               [] a.ok /\ t.type < EXPR_UNKNOWN ->
                    IF Registers[t.type] \in Gprs /\ t.value = 1 /\ a.basereg = 0
                    THEN [a EXCEPT !.basereg = t.type]
                    ELSE IF a.indexreg = 0 THEN [a EXCEPT !.indexreg = t.type, !.scale = t.value]
                    ELSE [a EXCEPT !.ok = FALSE],
           NoAddress, v)

\* the operand of a text: how that ends, and what it is.  "crash": evaluate
\* has returned NULL, which the code does not look for.
Outcome(how, kind, x, a) ==
  [stage |-> "read", how |-> how, kind |-> kind, vec |-> x.vec, i |-> x.s.i, hint |-> x.s.hint,
   reported |-> x.s.reported \/ how = "fatal", address |-> a]

IsMref(toks) == Head(toks).type \in {"[", "&"}

\* of a text that has been evaluated to x
Mref(x, closed, address) ==
  Outcome(IF address.ok THEN "ok" ELSE "fatal", "mem", [x EXCEPT !.s = ReportIf(~closed, @)], address)
OperandOf(toks, x) ==
  CASE x.null -> Outcome("crash", "none", x, NoAddress)
    [] ~x.null /\ IsMref(toks) ->
         Mref(x, Head(toks).type = "[" => tt(x.s).type = "]", parse_mref(x.vec))
    [] ~x.null /\ ~IsMref(toks) /\ is_reloc(x.vec) ->
         Outcome("ok", "imm", x, [NoAddress EXCEPT !.offset = reloc_value(x.vec)])
    [] OTHER ->
         IF Head(x.vec).type >= EXPR_SIMPLE \/ Head(x.vec).value # 1
         THEN Outcome("fatal", "none", x, NoAddress)
         ELSE Outcome("ok", "reg", x, [NoAddress EXCEPT !.basereg = Head(x.vec).type])

operand(toks) == OperandOf(toks, evaluate(toks, IF IsMref(toks) THEN 2 ELSE 1))

Unread == Outcome("ok", "none", Vector(<< >>, [i |-> 0, hint |-> [type |-> "NOHINT", base |-> 0],
                                               reported |-> FALSE]), NoAddress)

Init ==
  /\ alphabet \in DOMAIN Alphabets
  /\ text = IF Alphabets[alphabet].begins = "" THEN << >>
            ELSE <<[type |-> Alphabets[alphabet].begins, val |-> << >>]>>
  /\ op = [Unread EXCEPT !.stage = "text"]

Operands == {"num", "reg", "id"}
TakesTurns(t) == /\ Head(t).type \in Operands \cup {"-"}
                 /\ \A k \in DOMAIN t \ {1} : (t[k].type \in Operands) # (t[k - 1].type \in Operands)

Behind(toks) == IF toks # << >> /\ IsMref(toks) THEN Tail(toks) ELSE toks

Write(tok) ==
  /\ op.stage = "text"
  /\ text' = Append(text, tok)
  /\ Len(Behind(text')) > Alphabets[alphabet].free =>
       Len(Behind(text')) <= Alphabets[alphabet].max /\ TakesTurns(Behind(text'))
  /\ UNCHANGED <<alphabet, op>>

\* a numeral with nothing behind it
ReadNumeral(str) ==
  /\ op.stage = "text"
  /\ text = << >>
  /\ text' = <<[type |-> "num", val |-> str]>>
  /\ op' = operand(text')
  /\ UNCHANGED alphabet

\* An empty text is the end of the operands.
Read ==
  /\ op.stage = "text"
  /\ text # << >>
  /\ op' = operand(text)
  /\ UNCHANGED <<alphabet, text>>

Next ==
  \/ \E tok \in Alphabets[alphabet].tokens : Write(tok)
  \/ Read
  \/ \E str \in Numerals : ReadNumeral(str)

Spec == Init /\ [][Next]_vars

-----------------------------------------------------------------------------
(* What an expression means: the linear form its text denotes, by cutting  *)
(* the text at the loosest of its operators and not by reading it.         *)

Form(v) == [t \in DOMAIN Registers \cup {EXPR_SIMPLE} |-> Coefficient(v, t)]
Const(n) == [t \in DOMAIN Registers \cup {EXPR_SIMPLE} |-> IF t = EXPR_SIMPLE THEN Signed(n) ELSE 0]
IsConst(f) == \A t \in DOMAIN Registers : f[t] = 0
Linear(m, f, n, g) == [t \in DOMAIN f |-> Signed(m * f[t] + n * g[t])]

Nothing == [ok |-> FALSE, form |-> Const(0)]
Just(f) == [ok |-> TRUE, form |-> f]

Unary == {"+", "-", "~", "!", "ifunc", "seg"}
BinaryOperators == UNION ToSet(Levels)
\* a sign behind an operand joins it to the next one
IsBinary(toks, k) == /\ k > 1 /\ toks[k - 1].type \in Operands
                     /\ toks[k].type \in BinaryOperators
Binary(toks) == {k \in DOMAIN toks : IsBinary(toks, k)}
LevelOf(o) == CHOOSE n \in DOMAIN Levels : o \in Levels[n]
Count(toks, o, j, k) == Cardinality({i \in j..k : toks[i].type = o})

BinaryForm(o, f, g) ==
  LET m == f[EXPR_SIMPLE]
      n == g[EXPR_SIMPLE]
      both == IsConst(f) /\ IsConst(g)
  IN CASE o = "+" -> Just(Linear(1, f, 1, g))
       [] o = "-" -> Just(Linear(1, f, -1, g))
       [] o = "*" -> IF IsConst(f) THEN Just(Linear(m, g, 0, g))
                     ELSE IF IsConst(g) THEN Just(Linear(n, f, 0, f)) ELSE Nothing
       [] o = "=" -> Just(Const(IF f = g THEN 1 ELSE 0))
       [] o \in {"<", ">"} ->
            LET d == Linear(1, f, -1, g)
            IN IF ~IsConst(d) THEN Nothing
               ELSE Just(Const(IF (o = "<" /\ d[EXPR_SIMPLE] < 0) \/ (o = ">" /\ d[EXPR_SIMPLE] > 0)
                               THEN 1 ELSE 0))
       [] o \in {"/", "%"} ->
            IF ~both \/ n = 0 THEN Nothing
            ELSE Just(Const(IF o = "/" THEN Unsigned(m) \div Unsigned(n) ELSE Unsigned(m) % Unsigned(n)))
       [] o \in {"|", "^", "&"} -> IF both THEN Just(Const(Bits(o, m, n))) ELSE Nothing

UnaryForm(tok, f) ==
  LET n == Unsigned(f[EXPR_SIMPLE])
  IN CASE tok.type = "+" -> Just(f)
       [] tok.type = "-" -> Just(Linear(-1, f, 0, f))
       [] tok.type = "~" /\ IsConst(f) -> Just(Const(Limit - 1 - n))
       [] tok.type = "!" /\ IsConst(f) -> Just(Const(IF n = 0 THEN 1 ELSE 0))
       [] tok.type = "ifunc" /\ IsConst(f) ->
            LET floor == IF n = 0 THEN 0 ELSE CHOOSE k \in 0..Width : n \in (2 ^ k)..(2 ^ (k + 1) - 1)
                exact == n \in {2 ^ k : k \in 0..Width}
            IN CASE tok.val[1] = "ilog2c" -> Just(Const(IF exact \/ n = 0 THEN floor ELSE floor + 1))
                 [] tok.val[1] = "ilog2e" -> IF exact THEN Just(Const(floor)) ELSE Nothing
                 [] OTHER -> Just(Const(floor))
       [] OTHER -> Nothing

RECURSIVE Meaning(_)
Meaning(toks) ==
  LET at == {k \in DOMAIN toks : toks[k].type = "?"}
      to == {k \in DOMAIN toks : toks[k].type = ":"}
      joins == Binary(toks)
  IN CASE toks = << >> -> Nothing
       [] toks # << >> /\ at # {} ->
            LET q == CHOOSE k \in at : \A j \in at : k <= j
                c == {k \in to : /\ k > q
                                 /\ Count(toks, "?", q, k) = Count(toks, ":", q, k)
                                 /\ \A j \in q..(k - 1) : Count(toks, "?", q, j) > Count(toks, ":", q, j)}
            IN IF c = {} THEN Nothing
               ELSE LET k  == CHOOSE k \in c : TRUE
                        e  == Meaning(SubSeq(toks, 1, q - 1))
                        f1 == Meaning(SubSeq(toks, q + 1, k - 1))
                        f2 == Meaning(SubSeq(toks, k + 1, Len(toks)))
                    IN IF e.ok /\ f1.ok /\ f2.ok /\ IsConst(e.form)
                       THEN IF e.form[EXPR_SIMPLE] # 0 THEN f1 ELSE f2
                       ELSE Nothing
       [] toks # << >> /\ at = {} /\ joins # {} ->
            LET loosest == {k \in joins : \A j \in joins : LevelOf(toks[k].type) <= LevelOf(toks[j].type)}
                k == CHOOSE k \in loosest : \A j \in loosest : j <= k
                l == Meaning(SubSeq(toks, 1, k - 1))
                r == Meaning(SubSeq(toks, k + 1, Len(toks)))
            IN IF l.ok /\ r.ok THEN BinaryForm(toks[k].type, l.form, r.form) ELSE Nothing
       [] toks # << >> /\ at = {} /\ joins = {} /\ Len(toks) = 1 ->
            CASE Head(toks).type = "reg" ->
                   Just([Const(0) EXCEPT ![RegNum(Head(toks).val[1])] = 1])
              [] Head(toks).type = "num" /\ Sound(Head(toks).val) # {} ->
                   Just(Const(Number(CHOOSE r \in Sound(Head(toks).val) : TRUE)))
              [] OTHER -> Nothing
       [] OTHER -> IF Head(toks).type \in Unary
                   THEN LET x == Meaning(Tail(toks))
                        IN IF x.ok THEN UnaryForm(Head(toks), x.form) ELSE Nothing
                   ELSE Nothing

\* The expression a text begins with: it ends where nothing can follow that
\* belongs to it, and has a meaning.
Joining == UNION ToSet(Levels) \cup {"?"}
Extents(toks) ==
  {k \in DOMAIN toks : /\ k < Len(toks) => toks[k + 1].type \notin Joining
                       /\ Meaning(SubSeq(toks, 1, k)).ok}

-----------------------------------------------------------------------------
(* Properties.                                                             *)

IsRead == op.stage = "read"
Accepted == IsRead /\ ~op.reported /\ op.how = "ok"

\* Types.  The terms of a vector are in the order of their types, each type
\* once: add_vectors merges, and parse_mref reads, what is so ordered.
TypeOK ==
  /\ \A k \in DOMAIN text : text[k].type \in {"num", "reg", "id", "[", "]", ",", "?", ":"} \cup Unary \cup UNION ToSet(Levels)
  /\ op.stage \in {"text", "read"} /\ op.how \in {"ok", "fatal", "crash"}
  /\ op.kind \in {"none", "mem", "imm", "reg"} /\ op.reported \in BOOLEAN
  /\ op.hint.type \in {"NOHINT", "MAKEBASE", "NOTBASE", "SUMMED"}
  /\ op.hint.base \in 0..Len(Registers)
  /\ \A k \in DOMAIN op.vec : /\ op.vec[k].type \in 1..EXPR_SIMPLE
                              /\ op.vec[k].value \in (-(Limit \div 2))..(Limit \div 2 - 1)
                              /\ k > 1 => op.vec[k - 1].type < op.vec[k].type

\* A numeral is read in the one way that makes sense of it, whatever letters
\* it begins and ends with ("0b1h" is hexadecimal); a malformed one is an
\* error, and the overflow of 64 bits is noticed although it is looked for
\* digit by digit in arithmetic that overflows.
ReadsTheNumeral ==
  \A k \in DOMAIN text : text[k].type = "num" =>
    LET n == readnum(text[k].val)
        r == Sound(text[k].val)
    IN /\ n.error <=> r = {}
       /\ \A x \in r : n.value = Number(x) % Limit /\ (n.warn <=> Number(x) >= Limit)

\* What an accepted text evaluates to is what it means: the precedence and the
\* grouping of its operators, signs, conditions, and numbers modulo 2^64; and
\* the evaluator stops where the expression ends.
ValueIsMeaning ==
  IsRead /\ ~op.reported =>
    LET toks == Behind(text)
        read == op.i - 1 - (Len(text) - Len(toks))
    IN read \in Extents(toks) /\ Form(op.vec) = Meaning(SubSeq(toks, 1, read)).form

\* An error is reported for just the texts that mean nothing or, in brackets,
\* go on behind the expression: none is refused that has a meaning, but for an
\* address of too many registers and a register with a factor.  "It is assumed
\* that if NULL has been returned, the error has already been reported."
RefusesTheMeaningless ==
  IsRead =>
    LET toks   == Behind(text)
        closed == {k \in Extents(toks) : Head(text).type = "[" => k < Len(toks) /\ toks[k + 1].type = "]"}
    IN /\ closed = {} => op.reported
       /\ closed # {} /\ op.reported => op.how = "fatal"
       /\ op.how = "crash" => op.reported /\ Extents(toks) = {}

\* The address of a memory operand is what its text means: base, index,
\* coefficient and offset add up to it.  It is refused only for two registers
\* that cannot be the base or for three.
AddressIsMeaning ==
  IsRead /\ op.kind = "mem" /\ Extents(Behind(text)) # {} =>
    LET form == Meaning(SubSeq(Behind(text), 1, CHOOSE k \in Extents(Behind(text)) : TRUE)).form
        a    == op.address
        Reg(r, s) == IF r = 0 THEN Const(0) ELSE [Const(0) EXCEPT ![r] = s]
        regs == {k \in DOMAIN op.vec : op.vec[k].type < EXPR_UNKNOWN}
    IN IF a.ok THEN Linear(1, Linear(1, Reg(a.basereg, 1), 1, Reg(a.indexreg, a.scale)), 1, Const(a.offset)) = form
       ELSE Cardinality(regs) > 1

\* Which register is to be the base: the first one of the text unless it is
\* multiplied ("this allows [eax*1+ebx] to hint EBX rather than EAX").  When
\* two terms have become one that is noted instead, as it always is of a
\* register that is written twice.
Registered(toks) == {k \in DOMAIN toks : toks[k].type = "reg"}
Sums == {"num", "reg", "+", "-", "*"}
\* tokens j and k belong to one product
SameProduct(toks, j, k) ==
  \A i \in (j + 1)..(k - 1) : ~(IsBinary(toks, i) /\ toks[i].type \in {"+", "-"})
Multiplied(toks, j) ==
  \E k \in DOMAIN toks : /\ toks[k].type = "*"
                         /\ IF k < j THEN SameProduct(toks, k, j) ELSE SameProduct(toks, j, k)
HintsTheBase ==
  Accepted /\ op.kind = "mem" /\ (\A k \in 2..(op.i - 1) : text[k].type \in Sums) =>
    LET toks == SubSeq(text, 2, op.i - 1)
        at   == Registered(toks)
        j    == CHOOSE j \in at : \A k \in at : j <= k
        Same(k, l) == /\ k # l /\ toks[k].type \in {"num", "reg"} /\ toks[k].type = toks[l].type
                      /\ toks[k].type = "reg" => toks[k].val = toks[l].val
        positive == \A k \in DOMAIN toks : toks[k].type # "-" /\ toks[k].val # <<"0">>
    IN /\ op.hint.type # "SUMMED" /\ positive => ~\E k, l \in at : Same(k, l)
       /\ CASE op.hint.type = "SUMMED" -> \E k, l \in DOMAIN toks : Same(k, l)
            [] op.hint.type = "NOHINT" -> at = {}
            [] OTHER ->
                 /\ op.hint.base = RegNum(toks[j].val[1])
                 /\ (op.hint.type = "NOTBASE") <=>
                      \E k \in at : toks[k].val = toks[j].val /\ Multiplied(toks, k)

\* Texts with a meaning are evaluated to it, the others are refused.
EvaluatesMeaning == TypeOK /\ ValueIsMeaning /\ RefusesTheMeaningless

\* A memory operand is the address of its text, encoded with the base it hints.
AddressesMeaning == AddressIsMeaning /\ HintsTheBase
=============================================================================

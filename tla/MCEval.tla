-------------------------------- MODULE MCEval --------------------------------
(***************************************************************************)
(* Eval with 8 bits for 64 and three registers, one of which cannot be a   *)
(* base.                                                                   *)
(***************************************************************************)
EXTENDS Eval

Tok(type) == [type |-> type, val |-> << >>]
Reg(r) == [type |-> "reg", val |-> <<r>>]
Num(str) == [type |-> "num", val |-> str]

MCRegisters == <<"eax", "ecx", "xmm0">>

Address == {Reg("eax"), Reg("ecx"), Reg("xmm0"), Num(<<"0">>), Num(<<"1">>), Num(<<"3">>),
            Tok("+"), Tok("-"), Tok("*"), Tok("]")}
Scalars == {Reg("eax"), Num(<<"0">>), Num(<<"6">>), Num(<<"9", "h">>), Num(<<"0", "b", "2">>),
            Tok("-"), Tok("~"), Tok("!"), Tok("*"), Tok("/"), Tok("%"), Tok("&"), Tok("|"), Tok("^")}
Tests   == {Reg("eax"), Num(<<"0">>), Num(<<"1">>), Num(<<"9", "h">>),
            Tok("-"), Tok("+"), Tok("="), Tok("<"), Tok(">"), Tok("?"), Tok(":")}
Words   == {Reg("eax"), Num(<<"0">>), Num(<<"9", "h">>), Num(<<"8", "0", "h">>), Tok("id"), Tok("seg"),
            [type |-> "ifunc", val |-> <<"ilog2e">>], [type |-> "ifunc", val |-> <<"ilog2c">>],
            Tok("-"), Tok("!"), Tok("&"), Tok("=")}
Conditions == {Num(<<"0">>), Num(<<"1">>), Tok("<"), Tok("?"), Tok(":")}
Alphabet(tokens, begins, free, max) == [tokens |-> tokens, begins |-> begins, free |-> free, max |-> max]
MCAlphabets == <<Alphabet(Address, "[", 3, 6), Alphabet(Address, "&", 2, 4), Alphabet(Scalars, "", 3, 5),
                 Alphabet(Tests, "", 3, 5), Alphabet(Words, "", 3, 4), Alphabet(Conditions, "", 5, 9)>>

\* numerals of few characters, and binary ones of nine digits
Short(n) == [1..n -> {"0", "1", "6", "9", "b", "d", "h", "x", "q", "_"}]
Binaries == {d \o <<"b">> : d \in [1..9 -> {"0", "1"}]}
MCNumerals == {str \in UNION {Short(n) : n \in 1..4} : str[1] \in {"0", "1", "6", "9"}} \cup Binaries
===============================================================================

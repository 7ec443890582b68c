------------------------------- MODULE ReadNum -------------------------------
(***************************************************************************)
(* nasmlib/readnum.c: the number a numeral stands for.  A numeral is the   *)
(* sequence of its characters, the first of them a decimal digit (lower    *)
(* case only: the code reads both alike).  Width stands for the 64 bits;   *)
(* the check for overflow holds for the multiples of four, as its last     *)
(* decimal digit, 6, is that of 2^Width only for these.                    *)
(***************************************************************************)
EXTENDS Integers, Sequences, SequencesExt

CONSTANT Width

ASSUME WidthAssumption == Width \in {4, 8, 12}

Limit == 2 ^ Width

\* numvalue, of the characters numerals are made of
Alnum == <<"0", "1", "2", "3", "4", "5", "6", "7", "8", "9", "a", "b", "c", "d", "e", "f", "g", "h",
           "i", "j", "k", "l", "m", "n", "o", "p", "q", "r", "s", "t", "u", "v", "w", "x", "y", "z">>
numvalue == [c \in ToSet(Alnum) |-> CHOOSE n \in 0..35 : Alnum[n + 1] = c]

radix_letter(c) == CASE c \in {"b", "y"} -> 2
                     [] c \in {"o", "q"} -> 8
                     [] c \in {"h", "x"} -> 16
                     [] c \in {"d", "t"} -> 10
                     [] OTHER            -> 0

pradix(str) == IF Len(str) > 2 /\ str[1] = "0" THEN radix_letter(str[2]) ELSE 0
sradix(str) == IF Len(str) > 1 THEN radix_letter(Last(str)) ELSE 0

\* Fault: a letter behind the number is looked at only without one before it.
Radix_PrefixFirst(str) ==
  CASE pradix(str) > 0                     -> [radix |-> pradix(str), digits |-> SubSeq(str, 3, Len(str))]
    [] pradix(str) = 0 /\ sradix(str) > 0  -> [radix |-> sradix(str), digits |-> Front(str)]
    [] OTHER                               -> [radix |-> 10, digits |-> str]

\* the radix, and the characters that are left
Radix(str) ==
  CASE pradix(str) > sradix(str) -> [radix |-> pradix(str), digits |-> SubSeq(str, 3, Len(str))]
    [] sradix(str) > pradix(str) -> [radix |-> sradix(str), digits |-> Front(str)]
    [] OTHER                     -> [radix |-> 10, digits |-> str]

readnum(str) ==
  LET r          == Radix(str)
      checklimit == (Limit \div 2) \div (r.radix \div 2)
      last       == IF r.radix = 10 THEN 6 ELSE 0
      Digit(n, c) ==
        CASE n.error \/ c = "_" -> n
          [] ~n.error /\ c # "_" /\ numvalue[c] >= r.radix -> [n EXCEPT !.error = TRUE, !.value = 0]
          [] OTHER -> [n EXCEPT !.warn = \/ @ \/ n.value > checklimit
                                         \/ n.value = checklimit /\ numvalue[c] >= last,
                                !.value = (r.radix * n.value + numvalue[c]) % Limit]
  IN FoldLeft(Digit, [value |-> 0, warn |-> FALSE, error |-> FALSE], r.digits)

-----------------------------------------------------------------------------
(* What a numeral means, with no regard to how it is read.                 *)

\* the ways to read it: radix letter in front, behind, or none
Readings(str) ==
  {[radix |-> radix_letter(str[k]), digits |-> SubSeq(str, 3, Len(str))] :
     k \in {k \in {2} : Len(str) > 2 /\ str[1] = "0" /\ radix_letter(str[k]) > 0}}
  \cup {[radix |-> radix_letter(str[k]), digits |-> Front(str)] :
          k \in {k \in {Len(str)} : k > 1 /\ radix_letter(str[k]) > 0}}
  \cup {[radix |-> 10, digits |-> str]}

\* those whose digits are digits of the radix
Sound(str) == {r \in Readings(str) : \A c \in ToSet(r.digits) \ {"_"} : numvalue[c] < r.radix}

Number(r) ==
  FoldLeft(LAMBDA n, c : r.radix * n + numvalue[c], 0, SelectSeq(r.digits, LAMBDA c : c # "_"))

=============================================================================

----------------------------- MODULE MCCheckRun -----------------------------
(***************************************************************************)
(* CheckRun: every check type after an instruction that writes what it is  *)
(* about or something else, and tests with two check points, jumps and an  *)
(* instruction the processor refuses.                                      *)
(***************************************************************************)
EXTENDS CheckRun

O(op, at) == [op |-> op, at |-> at]

\* Instructions that write something a check is about.
Writers(t) ==
  CASE t = "x86_state" -> {"eax", "edi", "ebp", "eflags"}
    [] t \in X87Status \cup {"x87_env"} -> {"fld", "fldcw"}
    [] t \in DOMAIN ST -> {"fld"}
    [] t \in Segments \cup {"esp", "sp"} -> {"ebp"}
    [] OTHER -> (Locations(t) \ {"fpregs"}) \cup (IF t \in DOMAIN MM THEN {t} ELSE {})

One == UNION {{<<O("set", w), O("check", t)>> : w \in Writers(t) \cup {"ecx", "xmm1"}} : t \in Checks}
Two == {<<O("set", "xmm0"), O("set", w), O("check", t), O("check", u)>> :
          w \in {"eax", "ecx", "eflags"}, t \in {"ah", "x86_state", "xmm0"}, u \in {"eflags", "x86_state", "xmm0", "ecx"}}
       \cup {<<O("set", "fld"), O("check", t), O("set", "fld"), O("check", u)>> : t \in {"st0", "x87_env"}, u \in {"st1", "fsw", "ffip"}}
       \cup {<<O("set", "fld"), O("check", "mm7"), O("set", "mm7"), O("check", "mm7")>>}
\* The jump depends on a register the test has set, or has not.
Jumps == {<<O("set", w), O("check", "eax"), O("set", "edx"), O("skip", r), O("check", "al"), O("set", "edi"), O("check", t)>> :
            w \in {"ebx", "ecx"}, r \in {"ebx", "ecx", "ebp"}, t \in {"edi", "x86_state"}}
Traps == {<<O("set", "eax"), O("check", "eax"), O("trap", "none"), O("check", "eax")>>,
          <<O("check", "eax"), O("set", "ecx"), O("skip", "ecx"), O("trap", "none"), O("check", "ecx")>>}
MCPrograms == One \cup Two \cup Jumps \cup Traps
=============================================================================

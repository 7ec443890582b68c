------------------------------ MODULE CheckRun ------------------------------
(***************************************************************************)
(* A generated test at run time.  btrtg/user-lib/compile-test.sh assembles *)
(* it, links it with outputlib.c and runs it to record the registers at    *)
(* every check point; then it links the same object with checklib.c, where *)
(* the recording is compiled in as the expected values, and that program   *)
(* compares.  A check point is the macro of output_file_wrapper.c: it      *)
(* pushes the state of the processor as the arguments of a C function and  *)
(* pops it again.  The processor is a record; only the parts of a value    *)
(* that some check tells apart are kept.                                   *)
(***************************************************************************)
EXTENDS Integers, SequencesExt

CONSTANTS
  Programs,    \* tests: sequences of operations [op, at] (Set, Skip, Check, Trap)
  Junk         \* values of what nothing determines

VARIABLES
  step,        \* of compile-test.sh: "compile", "link1", "record", "link2", "check", "done"
  prog, exe,   \* the test; the program at its name: "none", "stale" (an earlier test), "own"
  obj,         \* the object file exists
  ip, phase,   \* operation under way; "op", "call" (in the check function), "back"
  m,           \* the processor
  stdout, rst, \* what the recording program printed; the file stdoutput.rst
  output,      \* the recording compiled into the test
  point, reports, \* check points so far; the results of their comparisons
  \* history, not in the code
  seen,        \* [at, ip, p, det] at the check points: <<of the recording run, of the test>>
  det,         \* what the test alone determines
  lost,        \* a conditional jump depended on something else
  fault        \* the processor of the test went wrong

vars == <<step, prog, exe, obj, ip, phase, m, stdout, rst, output, point, reports, seen, det, lost, fault>>
files == <<exe, obj, rst, output>>
history == <<seen, det, lost, fault>>

-----------------------------------------------------------------------------
(* The processor.                                                          *)

GPR == {"eax", "ebx", "ecx", "edx", "esi", "edi", "ebp"}
Segments == {"cs", "ss", "ds", "es", "fs", "gs"}
Env == {"fcw", "fsw", "ftw", "fip", "fop", "fdp"}

\* A register: low byte, second byte, upper half.  An offset: low and high half.
Val(v) == <<v, v, v>>

\* What fninit and fsave leave; the registers keep their contents, fsw holds the top of the stack.
fninit(fpu) == [fpu EXCEPT !.fcw = <<0>>, !.fsw = <<0>>, !.top = 0, !.ftw = <<0>>, !.fip = <<0, 0>>, !.fop = <<0>>, !.fdp = <<0, 0>>]

esp(p) == <<p.base, Len(p.stack), 0>>

\* At the first operation: what init_regs sets, and junk elsewhere.
init_regs(j) ==
  [reg |-> [r \in GPR \cup Segments \cup {"eflags"} |->
              IF r \in {"ebp", "gs"} THEN Val(j) ELSE Val(0)],
   base |-> j, stack |-> << >>,
   fpu |-> fninit([fcw |-> <<j>>, fsw |-> <<j>>, top |-> 0, ftw |-> <<j>>, fip |-> <<j, j>>, fop |-> <<j>>, fdp |-> <<j, j>>,
            r |-> [i \in 0..7 |-> <<0, 0>>]]),
   xmm |-> [i \in 0..7 |-> <<j, j>>], mxcsr |-> <<0>>,
   fxstate |-> [xmm |-> [i \in 0..7 |-> <<0, 0>>], mxcsr |-> <<0>>]]

InitiallySet == (GPR \ {"ebp"}) \cup (Segments \ {"gs"}) \cup Env \cup {"eflags", "mxcsr", "fpregs"}

\* The image fsave writes in protected mode: the registers from the top of the stack.
fsave(p) == [env |-> p.fpu, st |-> [i \in 0..7 |-> p.fpu.r[(p.fpu.top + i) % 8]]]

-----------------------------------------------------------------------------
(* The check macro, in two halves around the call, and its instructions.   *)

\* The words an instruction pushes, the last one first.
Pushed(p, words) == [p EXCEPT !.stack = words \o @]
Below(p, n) == SubSeq(p.stack, n + 1, Len(p.stack))

PopaOrder == <<"edi", "esi", "ebp", "esp", "ebx", "edx", "ecx", "eax">>
PopaPlace == [edi |-> 1, esi |-> 2, ebp |-> 3, ebx |-> 5, edx |-> 6, ecx |-> 7, eax |-> 8]
pusha(p) == Pushed(p, [k \in 1..8 |-> IF k = 4 THEN esp(p) ELSE p.reg[PopaOrder[k]]])
popa(p) == [p EXCEPT !.stack = Below(p, 8),
                     !.reg = [r \in DOMAIN @ |-> IF r \in GPR THEN p.stack[PopaPlace[r]] ELSE @[r]]]

\* push and pop of several registers one after the other, pushf and popf among them
push(p, regs) == Pushed(p, [k \in 1..Len(regs) |-> p.reg[regs[Len(regs) + 1 - k]]])
pop(p, r) == [p EXCEPT !.reg = [@ EXCEPT ![r] = p.stack[1]], !.stack = Below(p, 1)]
pop_eax(p, n) == [p EXCEPT !.reg = [@ EXCEPT !["eax"] = p.stack[n]], !.stack = Below(p, n)]

\* eax gets an address: of the instruction (_get_pc), of fxstate (lea).
eax_to(p, address) == [p EXCEPT !.reg = [@ EXCEPT !["eax"] = Val(address)]]

\* with the esp that makes room for the image and gives it back
sub_esp_fsave(p) == [Pushed(p, <<fsave(p)>>) EXCEPT !.fpu = fninit(p.fpu)]
frstor(p) == [p EXCEPT !.fpu = p.stack[1].env]
add_esp(p) == [p EXCEPT !.stack = Below(p, 1)]
movupd_stmxcsr(p) == [p EXCEPT !.fxstate = [xmm |-> p.xmm, mxcsr |-> p.mxcsr]]

check_macro_save(p) ==
  LET words == push(eax_to(pusha(p), "pc"), <<"eax", "eflags", "cs", "ss", "ds", "es", "fs", "gs">>)
  IN push(eax_to(movupd_stmxcsr(sub_esp_fsave(words)), "fxstate"), <<"eax">>)

\* Fault: the x87 state is not loaded again.
check_macro_restore_KeepsFPU(p) ==
  popa(pop_eax(pop(pop_eax(add_esp(pop_eax(p, 1)), 6), "eflags"), 1))

check_macro_restore(p) ==
  popa(pop_eax(pop(pop_eax(add_esp(frstor(pop_eax(p, 1))), 6), "eflags"), 1))

-----------------------------------------------------------------------------
(* The check functions: their parameters, what outputlib prints of them    *)
(* and what checklib compares.                                             *)

\* struct X86StandardRegisters: its fields are the words of the stack from the top.
X86StandardRegisters ==
  [gs |-> 1, fs |-> 2, es |-> 3, ds |-> 4, ss |-> 5, cs |-> 6, eflags |-> 7, pc |-> 8,
   edi |-> 9, esi |-> 10, ebp |-> 11, esp |-> 12, ebx |-> 13, edx |-> 14, ecx |-> 15, eax |-> 16]

\* Fault: the pointers to esi and edi are exchanged.
X86RegsOutput_Swapped == <<"gs", "fs", "es", "ds", "ss", "cs", "eflags", "pc", "esi", "edi", "ebp", "esp", "ebx", "edx", "ecx", "eax">>

\* The order in which they are printed.
X86RegsOutput == <<"gs", "fs", "es", "ds", "ss", "cs", "eflags", "pc", "edi", "esi", "ebp", "esp", "ebx", "edx", "ecx", "eax">>

x86regs(p) == [r \in DOMAIN X86StandardRegisters |-> p.stack[2 + X86StandardRegisters[r]]]

\* The getters take the words of the image for those of the real-mode format: the
\* opcode is read where protected mode has the code segment, and the upper halves
\* of the offsets where it has the opcode and the data segment.
fsa_get(f, fsa) ==
  CASE f = "fsw" -> fsa.env.fsw \o <<fsa.env.top>>
    [] f = "ffop" -> <<"fcs">>
    [] f = "ffip" -> <<fsa.env.fip[1], fsa.env.fop>>
    [] f = "ffdp" -> <<fsa.env.fdp[1], "fds">>
    [] OTHER -> fsa.env[f]

X87Status == {"fcw", "fsw", "ftw", "ffdp", "ffip", "ffop"}

\* The pointer must be that of the save area.
ssestate(p) == IF p.stack[1] = Val("fxstate") THEN p.fxstate ELSE [xmm |-> [i \in 0..7 |-> <<>>], mxcsr |-> <<>>]

\* The parameters of a check function.
State(p) == [X86 |-> x86regs(p), X87 |-> [f \in X87Status |-> fsa_get(f, p.stack[2])],
             fpregs |-> p.stack[2].st, SSE |-> ssestate(p)]

\* struct output: what is printed in one order and compiled in again in another.
Printed(p) == [State(p) EXCEPT !.X86 = [k \in 1..16 |-> @[X86RegsOutput[k]]]]

Compiled(line) == [line EXCEPT !.X86 = [r \in DOMAIN X86StandardRegisters |-> line.X86[X86StandardRegisters[r]]]]

\* The entry behind the last one, "{}".
Zero == [X86 |-> [r \in DOMAIN X86StandardRegisters |-> Val(0)], X87 |-> [f \in X87Status |-> <<0>>],
         fpregs |-> [i \in 0..7 |-> <<0, 0>>], SSE |-> [xmm |-> [i \in 0..7 |-> <<0, 0>>], mxcsr |-> <<0>>]]

Low == [al |-> "eax", bl |-> "ebx", cl |-> "ecx", dl |-> "edx"]
High == [ah |-> "eax", bh |-> "ebx", ch |-> "ecx", dh |-> "edx"]
Word == [ax |-> "eax", bx |-> "ebx", cx |-> "ecx", dx |-> "edx", si |-> "esi", di |-> "edi", sp |-> "esp", bp |-> "ebp"]
ST == [st0 |-> 0, st1 |-> 1, st2 |-> 2, st3 |-> 3, st4 |-> 4, st5 |-> 5, st6 |-> 6, st7 |-> 7]
MM == [mm0 |-> 0, mm1 |-> 1, mm2 |-> 2, mm3 |-> 3, mm4 |-> 4, mm5 |-> 5, mm6 |-> 6, mm7 |-> 7]
XMM == [xmm0 |-> 0, xmm1 |-> 1, xmm2 |-> 2, xmm3 |-> 3, xmm4 |-> 4, xmm5 |-> 5, xmm6 |-> 6, xmm7 |-> 7]

\* checkfunctions.h
Checks == GPR \cup {"esp", "eflags", "x86_state", "x87_env", "mxcsr"} \cup Segments \cup X87Status
          \cup DOMAIN Low \cup DOMAIN High \cup DOMAIN Word \cup DOMAIN ST \cup DOMAIN MM \cup DOMAIN XMM

\* check_point_x86_state leaves out gs, ebp, esp and the program counter.
X86StateRegisters == {"fs", "es", "ds", "ss", "cs", "eflags", "edi", "esi", "ebx", "edx", "ecx", "eax"}

\* What check_point_<t> compares of one state.
Compared(t, s) ==
  CASE t \in DOMAIN Low -> s.X86[Low[t]][1]
    [] t \in DOMAIN High -> s.X86[High[t]][2]
    [] t \in DOMAIN Word -> <<s.X86[Word[t]][1], s.X86[Word[t]][2]>>
    [] t \in Segments -> <<s.X86[t][1], s.X86[t][2]>>
    [] t \in GPR \cup {"esp", "eflags"} -> s.X86[t]
    [] t = "x86_state" -> [r \in X86StateRegisters |-> s.X86[r]]
    [] t \in DOMAIN ST -> s.fpregs[ST[t]]
    [] t \in DOMAIN MM -> s.fpregs[MM[t]][1]
    [] t \in X87Status -> s.X87[t]
    [] t = "x87_env" -> s.X87
    [] t \in DOMAIN XMM -> s.SSE.xmm[XMM[t]]
    [] t = "mxcsr" -> s.SSE.mxcsr

-----------------------------------------------------------------------------
(* The script.                                                             *)

Init ==
  /\ step = "compile" /\ prog \in Programs /\ exe \in {"none", "stale"} /\ obj = FALSE
  /\ ip = 0 /\ phase = "op" /\ m = init_regs(0)
  /\ stdout = << >> /\ rst = "none" /\ output = << >> /\ point = 0 /\ reports = << >>
  /\ seen = << <<>>, <<>> >> /\ det = {} /\ lost = FALSE /\ fault = FALSE

Start(s) ==
  /\ step' = s /\ ip' = 1 /\ phase' = "op" /\ \E j \in Junk : m' = init_regs(j)
  /\ stdout' = << >> /\ det' = InitiallySet

\* nasm; the script goes on whatever its result is.
compile_asm ==
  /\ step = "compile" /\ step' = "link1" /\ obj' \in BOOLEAN
  /\ UNCHANGED <<prog, exe, ip, phase, m, stdout, rst, output, point, reports>> /\ UNCHANGED history

\* Without the object file the linker fails and leaves the program that was there.
link_with_outputlib ==
  /\ step = "link1" /\ exe' = IF obj THEN "own" ELSE exe
  /\ IF exe' = "own" THEN /\ Start("record") /\ UNCHANGED <<rst, point, reports, lost, fault, seen>>
     ELSE /\ rst' = IF exe' = "stale" THEN <<"stale">> ELSE << >>
          /\ step' = IF exe' = "stale" THEN "link2" ELSE "done"
          /\ UNCHANGED <<ip, phase, m, stdout, point, reports>> /\ UNCHANGED history
  /\ UNCHANGED <<prog, obj, output>>

recording == step = "record"

\* checklib.c with the recording; there is no test if the object file is missing.
link_with_checklib ==
  /\ step = "link2"
  /\ IF obj THEN /\ Start("check") /\ output' = [k \in DOMAIN rst |-> Compiled(rst[k])] \o <<Zero>>
                 /\ UNCHANGED <<seen, lost, fault>>
     ELSE step' = "done" /\ UNCHANGED <<ip, phase, m, stdout, output, det, seen, lost, fault>>
  /\ UNCHANGED <<prog, point, reports, rst, exe, obj>>

running == step \in {"record", "check"} /\ phase = "op"
Which == IF recording THEN 1 ELSE 2

\* Fault: the status of the program is not looked at.
Ended_IgnoresStatus(status) == IF recording THEN "link2" ELSE "done"

Ended(status) == IF recording /\ status = 0 THEN "link2" ELSE "done"

\* check_point_end closes stdout, so that all of it is in the file, before the system call.
safe_exit ==
  /\ running /\ ip = Len(prog) + 1
  /\ step' = Ended(0) /\ rst' = IF recording THEN stdout ELSE rst
  /\ UNCHANGED <<prog, exe, obj, ip, phase, m, stdout, output, point, reports>> /\ UNCHANGED history

\* The processor refuses an instruction: some of the printed text is in the file.
Trap ==
  /\ running /\ ip \in DOMAIN prog /\ prog[ip].op = "trap"
  /\ step' = Ended(139) /\ \E k \in 0..Len(stdout) : rst' = IF recording THEN SubSeq(stdout, 1, k) ELSE rst
  /\ UNCHANGED <<prog, exe, obj, ip, phase, m, stdout, output, point, reports>> /\ UNCHANGED history

-----------------------------------------------------------------------------
(* The test.                                                               *)

\* What an instruction may write, here.
Writable == GPR \cup {"eflags", "fld", "fldcw", "mxcsr"} \cup DOMAIN MM \cup DOMAIN XMM

\* A test: the operation behind a conditional jump exists.
Operation == [op : {"set"}, at : Writable] \cup [op : {"skip"}, at : GPR] \cup [op : {"check"}, at : Checks]
             \cup [op : {"trap"}, at : {"none"}]
IsTest(p) == p \in Seq(Operation) /\ \A i \in DOMAIN p : p[i].op = "skip" => i < Len(p)

ASSUME CheckRunAssumption == \A p \in Programs : IsTest(p)

\* fld pushes; an MMX register makes register 0 the top.
fld(fpu, v) == [fpu EXCEPT !.top = (@ + 7) % 8, !.r = [@ EXCEPT ![(fpu.top + 7) % 8] = <<v[1], v[2]>>],
                           !.fip = <<v[3], 1>>, !.fop = <<1>>, !.fdp = <<1, 1>>, !.ftw = <<1>>]
movd(fpu, i, v) == [fpu EXCEPT !.top = 0, !.ftw = <<1>>, !.r = [@ EXCEPT ![i] = <<v[1], "ones">>]]

\* A location written by an instruction.
Written(p, at, v) ==
  CASE at \in GPR \cup {"eflags"} -> [p EXCEPT !.reg = [@ EXCEPT ![at] = v]]
    [] at = "fld" -> [p EXCEPT !.fpu = fld(@, v)]
    [] at = "fldcw" -> [p EXCEPT !.fpu = [@ EXCEPT !.fcw = <<v[1]>>]]
    [] at \in DOMAIN MM -> [p EXCEPT !.fpu = movd(@, MM[at], v)]
    [] at \in DOMAIN XMM -> [p EXCEPT !.xmm = [@ EXCEPT ![XMM[at]] = <<v[1], v[2]>>]]
    [] at = "mxcsr" -> [p EXCEPT !.mxcsr = <<v[1]>>]

\* The instruction computes 1 everywhere; the processor of the test may get one part wrong.
Set ==
  /\ running /\ ip \in DOMAIN prog /\ prog[ip].op = "set"
  /\ \E wrong \in IF recording \/ fault THEN {0} ELSE 0..3 :
       /\ m' = Written(m, prog[ip].at, [k \in 1..3 |-> IF k = wrong THEN 2 ELSE 1])
       /\ fault' = (fault \/ wrong # 0)
  /\ det' = det \cup {prog[ip].at} /\ ip' = ip + 1
  /\ UNCHANGED <<step, prog, phase, stdout, point, reports, seen, lost>> /\ UNCHANGED files

\* A conditional jump over the next operation.
Skip ==
  /\ running /\ ip \in DOMAIN prog /\ prog[ip].op = "skip"
  /\ ip' = ip + IF m.reg[prog[ip].at][1] = 1 THEN 2 ELSE 1
  /\ lost' = (lost \/ prog[ip].at \notin det)
  /\ UNCHANGED <<step, prog, phase, m, stdout, point, reports, seen, det, fault>> /\ UNCHANGED files

CheckMacro ==
  /\ running /\ ip \in DOMAIN prog /\ prog[ip].op = "check"
  /\ m' = check_macro_save(m) /\ phase' = "call"
  /\ seen' = [seen EXCEPT ![Which] = Append(@, [at |-> prog[ip].at, ip |-> ip, p |-> m, det |-> det])]
  /\ UNCHANGED <<step, prog, ip, stdout, point, reports, det, lost, fault>> /\ UNCHANGED files

\* What a C function may leave in the registers it need not keep.
Clobbered(p, j) == [p EXCEPT !.reg = [r \in DOMAIN @ |-> IF r \in {"eax", "ecx", "edx", "eflags"} THEN Val(j) ELSE @[r]],
                             !.xmm = [i \in 0..7 |-> <<j, j>>]]

\* outputlib.c: every function prints the whole state.
PrintState ==
  /\ phase = "call" /\ recording /\ phase' = "back"
  /\ stdout' = Append(stdout, Printed(m)) /\ \E j \in Junk : m' = Clobbered(m, j)
  /\ UNCHANGED <<step, prog, ip, point, reports>> /\ UNCHANGED files /\ UNCHANGED history

\* The entry compared with; Zero also stands for what lies behind the array.
Expected == IF point + 1 <= Len(output) THEN output[point + 1] ELSE Zero

\* checklib.c: the function of the check type compares its part with output[point].
ComparePoint ==
  /\ phase = "call" /\ ~recording /\ phase' = "back"
  /\ LET t == prog[ip].at
     IN reports' = Append(reports, Compared(t, State(m)) # Compared(t, Expected))
  /\ point' = point + 1 /\ \E j \in Junk : m' = Clobbered(m, j)
  /\ UNCHANGED <<step, prog, ip, stdout>> /\ UNCHANGED files /\ UNCHANGED history

CheckMacroEnds ==
  /\ phase = "back" /\ phase' = "op" /\ ip' = ip + 1
  /\ m' = check_macro_restore(m) /\ det' = det \ DOMAIN XMM
  /\ UNCHANGED <<step, prog, stdout, point, reports, seen, lost, fault>> /\ UNCHANGED files

Next ==
  \/ compile_asm \/ link_with_outputlib \/ link_with_checklib \/ safe_exit \/ Trap
  \/ Set \/ Skip \/ CheckMacro \/ PrintState \/ ComparePoint \/ CheckMacroEnds

Spec == Init /\ [][Next]_vars

-----------------------------------------------------------------------------
(* Properties.                                                             *)

\* The locations a check is about.
Locations(t) ==
  CASE t \in DOMAIN Low -> {Low[t]}
    [] t \in DOMAIN High -> {High[t]}
    [] t \in DOMAIN Word -> {Word[t]}
    [] t = "x86_state" -> (GPR \ {"ebp"}) \cup (Segments \ {"gs"}) \cup {"eflags"}
    [] t \in DOMAIN ST \cup DOMAIN MM -> {"fpregs"}
    [] t \in X87Status \cup {"x87_env"} -> Env
    [] OTHER -> {t}

\* The part of the processor a check is about.
Covers(t, p) ==
  CASE t \in DOMAIN Low -> p.reg[Low[t]][1]
    [] t \in DOMAIN High -> p.reg[High[t]][2]
    [] t \in {"sp", "esp"} -> p.base
    [] t \in DOMAIN Word \ {"sp"} -> <<p.reg[Word[t]][1], p.reg[Word[t]][2]>>
    [] t \in Segments -> <<p.reg[t][1], p.reg[t][2]>>
    [] t \in GPR \cup {"eflags"} -> p.reg[t]
    [] t = "x86_state" -> [r \in Locations(t) |-> p.reg[r]]
    [] t \in DOMAIN ST -> p.fpu.r[(p.fpu.top + ST[t]) % 8]
    [] t \in DOMAIN MM -> p.fpu.r[MM[t]][1]
    [] t = "fsw" -> <<p.fpu.fsw, p.fpu.top>>
    [] t \in {"fcw", "ftw"} -> p.fpu[t]
    [] t \in {"ffop", "ffip", "ffdp", "x87_env"} -> [f \in Env \cup {"top"} |-> p.fpu[f]]
    [] t \in DOMAIN XMM -> p.xmm[XMM[t]]
    [] t = "mxcsr" -> p.mxcsr

\* Types of all variables: the stack holds the state and the pointer during the
\* call (output_file_wrapper.c:43-81) and is empty between the operations.
TypeOK ==
  /\ step \in {"compile", "link1", "record", "link2", "check", "done"} /\ phase \in {"op", "call", "back"}
  /\ exe \in {"none", "stale", "own"} /\ ip \in 0..Len(prog) + 1 /\ point = Len(reports)
  /\ step \in {"record", "check"} => Len(m.stack) = IF phase = "op" THEN 0 ELSE 18

\* A check point gives back the processor as it found it, all but the XMM
\* registers: the macro saves them for the comparison but does not reload them
\* (output_file_wrapper.c:43-81), and the C functions are free to use them.
StateKept ==
  running /\ seen[Which] # << >> /\ Last(seen[Which]).ip = ip - 1 =>
    LET q == Last(seen[Which]).p IN m.reg = q.reg /\ m.fpu = q.fpu /\ m.base = q.base /\ m.mxcsr = q.mxcsr

\* The comparison at a check point (checklib.c) fails exactly if the part of the
\* processor it is about differs from that of the recording at the same check
\* point.  Of the x87 opcode and offsets, which verification.h reads by the
\* wrong format, only that equal ones are accepted.  The MMX registers are looked for
\* in the x87 stack, so a check of one is exact while the top is 0, as MMX instructions
\* leave it.
ReportsTruly ==
  \A k \in DOMAIN reports \cap DOMAIN seen[1] :
    LET t == seen[2][k].at
        same == Covers(t, seen[1][k].p) = Covers(t, seen[2][k].p)
    IN (t \in DOMAIN MM => seen[1][k].p.fpu.top = 0 /\ seen[2][k].p.fpu.top = 0) =>
       IF same THEN ~reports[k] ELSE t \notin {"ffop", "ffip", "ffdp", "x87_env"} => reports[k]

\* On a processor that works like the recording one no check of something the
\* test determines fails, whatever the registers held before main and whatever
\* the check functions of the two libraries leave behind (init_regs,
\* check_macro; check_point_x86_state leaves out gs, ebp and esp).
NoFalseAlarm ==
  ~fault /\ ~lost => \A k \in DOMAIN reports :
    Locations(seen[2][k].at) \subseteq seen[2][k].det => ~reports[k]

\* A comparison uses the entry recorded at the same check point (checklib.c
\* point, outputlib.c), as long as the processor works and no jump depends on
\* something undetermined: both runs pass the same check points.
PairsUp ==
  ~fault /\ ~lost => \A k \in DOMAIN seen[2] : k \in DOMAIN seen[1] /\ k < Len(output) /\ seen[1][k].at = seen[2][k].at

\* A test is linked only with a complete recording of its own
\* (compile-test.sh:50-56), although an earlier program of that name may exist,
\* the assembler may fail and the recording program may be killed.
OwnExpectations ==
  step = "check" =>
    /\ Len(output) = Len(seen[1]) + 1
    /\ (\A i \in DOMAIN prog : prog[i].op # "skip") => Len(seen[1]) = Cardinality({i \in DOMAIN prog : prog[i].op = "check"})

\* A check point leaves the stack and the processor as they were.
Transparent == TypeOK /\ StateKept

\* The comparing run reports a difference where there is one and nowhere else.
ReportsExactly == ReportsTruly /\ NoFalseAlarm

\* The two runs of a test belong together, check point by check point.
RunsMatch == PairsUp /\ OwnExpectations
=============================================================================

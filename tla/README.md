# btrtg: a TLA+ development

btrtg is a random test generator for x86.  It reads a *template* (XML), draws
instructions and operands from it, writes an assembly program, and the program is
run twice: once to record the registers at its check points, once (in the
environment under test) to compare them with the recorded ones.  The generator is a
sequential C program; what is hard about it is that code is not written in the order
in which it will run, that a few global variables carry state from one part of the
generator to another, and that a mistake shows only when the *generated* program is
executed, and only for some of its random choices.

Contents: [inventory](#inventory), [modules](#modules), [the list](#insnlist), [the core](#the-core-ctrlflow),
[templates](#templates-tmplt), [operands](#operands-opndgen), [values](#values-initvals), [the hash table](#the-hash-table-hashtbl),
[traversal](#test-knowledge-and-its-traversal-traverse), [run time](#run-time-checkrun), [assembling and disassembling](#from-text-to-bytes-and-back-codec),
[expressions](#expressions-eval), [runs](#runs), [properties](#properties-by-what-could-go-wrong), [proofs](#proofs),
[disagreements](#disagreements-found), [plan](#plan), [not modelled](#not-modelled).

## Inventory

| Part | Source | State | Operations | What makes it correct |
|---|---|---|---|---|
| instruction list | `nasmlib/insnlist.c`, `include/queue.h` | linked entries with next and back links, `tail`, `insn_count` | insert before / after / at the tail, output, clear | it is the sequence its callers think it is; nothing lost, nothing leaked |
| generator state | `stat/x86pg.c` | list, insert position, `labeli`, `labelspos`, control lock, register locks, current block, per-instruction flags | getters, setters, `stat_insert_insn`, lock and unlock | the insert position is an entry of the list; a label's position is the label's entry |
| control flow | `engine/ctrl.c` | none of its own (works on X86PGState) | `gen_control_transfer_insn`, `gen_label`, `likely_gen_label`, `gen_control_transfer_finish` | the program runs in generation order and ends |
| template walk | `engine/tmplt.c` | block tree, variables of a block (valid, value), `curr_blk` | one `walk*` function per kind of block and element | an element sees the variables of its block, with one value per round |
| operand traversal | `engine/tmplt.c` 150-280, `engine/tk.c` | `trv_step`, `trv_index`, the stack of chosen value nodes | `preorder_traverse_tk_trees`, `request_trv_node` | every sampled combination is generated once, with as many value nodes as operands |
| instruction and operand generation | `engine/generator.c`, `gendata.c`, `operand.c`, `seed.c` | token buffer, `opi`, `opcode`, `need_init`, `has_mem_opnd`, `init_mem_addr` | `one_insn_gen` (calls itself for initialisation code), `gen_operand`, `create_*`, `init_*` | at the instruction, each memory operand's address registers hold its address |
| weighted trees, test knowledge | `engine/wdtree.c`, `tk.c`, `xmlparser/parseTKs.c` | trees of constants, kept in two hash tables | parse groups and trees, select a leaf by weight, request value nodes | a leaf is selected with the frequency its weight says; a constant is stored whole and in its format |
| hash table | `nasmlib/hashtbl.c` | slots, load, the record of the last search | find, add (may move the table), iterate, free | every key added is found, every search ends |
| XML parser | `xmlparser/` | a static `trv_state` between an element and its block | one `parse*` function per tag | the traversal state reaches the block of its element |
| output | `btrtg/output_file_wrapper.c`, `output/` | the output stream | open, close | everything generated is written once, in list order |
| test run time | `btrtg/user-lib/` | recorded results, `point`, `diffs` | `check_point_*`, `check_point_end`, scripts | check number n of one run is compared with number n of the other |
| assembler parts of NASM | `engine/eval.c`, `assemble.c`, `labels.c`, `error.c`, `disasm/`, `nasmlib/` | tokens, hash tables, warning stack, label tables | operands are read back, the instruction is assembled and the bytes printed as text | value and text keep their meaning; the two passes agree on the length |

How they interact: `main` parses templates into a block tree, then `walk_tmplt` calls
the `walk*` functions recursively.  An element calls `one_insn_gen`, which draws
operands, calls *itself* for the instructions that initialise them, and inserts the
result into the list at the insert position of X86PGState.  `ctrl.c` moves that
position: all parts communicate through X86PGState.  `close_output_file` appends the
final jump, writes the list and clears it.

What is hard: the *order* of things (code emitted in one order and executed in
another), *stale global state* between nested or successive elements, results that
mean two things (`-1` as "nothing generated" and "no label yet"), and the ends of
ranges (no label, first entry, last entry).  There is no concurrency and nothing is
persisted, so there are no interleavings of threads and no crash recovery.
The hazards are listed one by one in `PROJECT.json`, at the lines where they bite.

## Modules

| Module | What it is |
|---|---|
| `SeqPlace` | insertion next to an element of a sequence: what the list macros mean |
| `InsnSeq` | what the instruction list promises its callers: a sequence, written in order, cleared |
| `InsnList` | `insnlist.c` on the pointer macros of `queue.h`, link by link; implements `InsnSeq` |
| `CtrlFlow` | the core: `ctrl.c` on X86PGState, the walk that drives it, and the emitted program executed |
| `Tmplt` | the template parser and the walk of the tree it builds: blocks, rounds, variables and their scopes |
| `OpndGen` | one instruction: its operands drawn, the code that initialises them, the instruction state, the register locks; the emitted code executed |
| `InitVals` | a constant on its way from the XML file to the bytes of the operand it was drawn for |
| `HashTbl` | the table constants and knowledge are kept in, through collisions, growth, walks and freeing |
| `Traverse` | the weighted trees, drawing from them, and the sampled traversal of all combinations |
| `CheckRun` | a generated test at run time: compiled, recorded, linked again, compared |
| `InsnTable` | what assembler and disassembler share: registers, operand types, the byte codes `insns.pl` makes of a line |
| `Assemble`, `Disasm` | `assemble.c` and `disasm.c` as functions from text to bytes and from bytes to text |
| `Codec` | the steps of `insn_to_asm` on these two, and the assembler that reads the printed text |
| `ReadNum` | `readnum.c`: the value of a numeral |
| `Eval` | `eval.c` and the part of `one_insn_gen` that makes an operand of the value, against the linear form the text means |
| `MCInsnList`, `MCCtrlFlow`, `MCTmplt`, `MCOpndGen`, `MCInitVals`, `MCHashTbl`, `MCTraverse`, `MCCheckRun`, `MCCodec`, `MCEval` | the constants for TLC |
| `Lemmas` | what several proofs use: induction written with sets of numbers, least elements, finite ranges; insertion into sequences (length, elements, order) |
| `CtrlFlow_proofs` | the theorems about what `ctrl.c` generates, and about what the generated program executes, and in which order |
| `InsnList_proofs` | the list is whole, and implements `InsnSeq` |
| `Tmplt_proofs` | types, values, scopes and crashes of `Tmplt` (recursion upwards along parents), and that the walk generates the tree unrolled (downwards along children) |
| `OpndGen_proofs` | the theorems about the types, register locks, addresses and initial values of `OpndGen` |
| `HashTbl_proofs` | the theorems about `HashTbl`: the probing sequence, growth, and what is found |
| `TestRun_proofs` | the theorems about a generated test when it runs: the values of its operands (each branch of the `init_*_opnd` functions reads what was filled for it), its check points, and the comparison with its recording |
| `Traverse_proofs` | the theorems about the order of the traversal and about drawing by weight |

Modules meet where one takes as given what another shows: `CtrlFlow` uses the list as the
sequence `InsnSeq` says it is; `Tmplt` has traverse blocks with a number of rounds, `Traverse`
says which rounds these are; `OpndGen` requests a value by number, `Traverse` and `InitVals` say what
it is and what becomes of it; `CheckRun` compares check point n with check point n, and
`CtrlFlow!ExecutesInOrder` says that both runs pass them in the same order.

A definition with a suffix and the comment "Fault:", such as `gen_label_ArrayTooShort`, is the
definition of that name with a plausible mistake; it is no part of the specification and shows that
a property can fail.

### `InsnList`

State: `next` and `prev` links per entry (`prev` points at the *field* that points at
the entry, as `le_prev` does), the head, `tail`, `insn_count`, the entries allocated,
and what has been written.  Actions: the three insertions, each with its
rejection of a NULL position, the output of each entry, the removal and freeing of each entry.
Assignments of a macro are composed in the order the macro makes them.

`CtrlFlow` uses the list as the sequence that `InsnSeq` says it is.

### The core: `CtrlFlow`

| Variable | Code |
|---|---|
| `pg.code` | the instructions generated, numbered in that order (an `insnlist_entry_t` is its number) |
| `pg.list` | `X86PGState.instlist`, as a sequence of numbers |
| `pg.insertpos` | `insertpos`: a number, `NoEntry` (NULL), or `Wild` (read from outside `labelspos`) |
| `pg.labeli`, `pg.labelspos` | the same, `labelspos[l]` being element `l + 1` |
| `pg.lock_ctrl`, `pg.lock_cx` | `lock_ctrl`, and `lock_reg_cases[LOCK_REG_CX]` as far as loops set it |
| `next_label` | the local variable of `walkTttBlk` |
| `phase`, `cpu`, `trace` | the generated program: whether it is being generated or executed, the processor's state, what has been executed |
| `blocks`, `home` | history: the transfer blocks begun; which of them an instruction belongs to |
| `used` | how much of the bounds is used up |

| Action | Code |
|---|---|
| `WalkInsn` | `one_insn_gen` of an ordinary instruction: `likely_gen_label`, then the insertion |
| `WalkCheck` | `walkCElem` |
| `WalkTransferElem` | `one_insn_gen` of a control-transfer opcode, including going on to emit it as an ordinary instruction when ctrl.c returns -1 |
| `BeginTransfer`, `EndTransfer` | `walkTttBlk` before and after its children |
| `Finish` | `close_output_file`: final jump and tail label, then the output; NASM takes it or rejects it |
| `Run` and its parts | the processor executing the program: external, from the instruction set |

Abstractions.  An instruction is its effect on the control flow and on ECX: `work`
(neither), `workcx` (may leave anything in ECX), `check`, or one of the control
transfers.  The flags are never modelled: a conditional jump may always go either way,
so every property holds for all outcomes of the random instructions.  The opcodes
of `is_jcc` are one opcode, as are the four conditional loops.  The labels that
`select_one_label` and `likely_gen_label` choose at random are all tried.

What the environment is assumed to do is in the constants: which opcodes
transfer blocks and elements use (`TransferTypes`, `JumpElems`), whether a jump element
appears where ctrl.c does not rewrite it completely (`RawPlaces`), and whether a loop
body names ECX itself (`NamesCX`).  `RawPlaces` has both places in the run, so that the
program may leave the generated code through such a jump (phase `crash`): what it has executed by then
is in order as well.  The other three are set to the templates the generator handles correctly;
each is the subject of a [disagreement](#disagreements-found), which says how to set the constant to see it.

### Templates: `Tmplt`

| Variable | Code |
|---|---|
| `blks` | the `blk_struct`s in the order of their tags: kind, `times`, `parent`, `blks` (as `subs`), `vars`, `trv_state` (as `state`); an element is a block here, `use` is the variable its operand names |
| `open`, `trv_state` | the parser: the block whose children are being read, and the static `trv_state` of parseTmplt.c |
| `stack` | the active `walk*Blk` calls: block, next child, rounds left |
| `curr_blk` | `X86PGState.curr_blk` |
| `drawn` | number of values drawn; the value of a variable is its number, 0 while `valid` is false, -1 if the block has no such variable |
| `phase` | parsing, walking, or how it ended: returned, crashed, or stopped by one of the two fatal errors about variables |
| `round`, `log` | history: rounds begun per block; elements generated and the variable each used |

The document is not a constant: `Parse` has one action per tag (`parseV`, `parseI`,
`parseC`, `parseSelBlk`, `OpenBlk` and `CloseBlk` around the children of the other blocks),
so TLC checks every template up to `MaxBlocks` tags (the root is one of them) and `MaxVars`
blocks with variables.
`walk_tmplt` and the actions of `Walk` are the recursive walk with its call
stack: `Enter` is what the walk functions do before their children, `NextRound` what repeat and
traverse blocks do between rounds, `walkIElem` and `walkCElem` how an element finds and
uses a variable.

Abstractions.  A G element is an I element without `trv`.  An I element has one operand that may
name a variable.  A traverse block has `Combos` rounds: which combinations these are
is in `Traverse`.  A transfer block is walked once, as a sequence block is; what it does to
the program is in `CtrlFlow`.

`Liberties` are things templates may contain and the templates of the repository do not: a name
declared twice along a path (`shadow`), a name with no declaration in scope (`check`), trv elements
outside traverse blocks or several in one (`trv`), traverse blocks without one (`bare`), and
instructions in a select (`I`).  The run has them all, in documents of up to `MaxUntidy` tags; larger ones
are `Tidy`.  Where the code goes wrong for such a document the property says
so itself: `LexicalScope` makes an exception of a shadowed name, `NoCrash` of a traverse block without
its own state and of a check out of scope.

### Operands: `OpndGen`

| Variable | Code |
|---|---|
| `stat` | the instruction state of X86PGState: `opcode`, `need_init`, `opi`, `has_mem_opnd`, `init_mem_addr` |
| `lock_reg_cases` | the same, by class of register |
| `var` | the variables of the blocks, of any type (`VarTypes`), by name: `valid`, the operand each stands for, `is_mem_opnd`, `init_mem_addr` |
| `cur` | the instruction under way in `one_insn_gen`, and (history) the values requested for it |
| `phase` | where `one_insn_gen` is: operands, implied operands, insertion, inserted |
| `regs`, `mem` | the machine that executes the code as it is emitted; the last store |
| `elems`, `looping` | elements so far; between the `mov ecx` and the `loop` of a block |

An action is one operand (`gen_operand`, `gen_operand_new_var`, `gen_operand_var`), one implied operand
(`init_specific_register`), or a step of `one_insn_gen` (`EndOperands`, `EndImplied`,
`InsertInsn`, `EndElem`); `WalkElem`, `walkSelBlk`, `BeginLoop` and `EndLoop` are
the callers.  The nested call of `one_insn_gen` for a `mov` is what it leaves behind: the register
loaded and `opi` at 2, where the operands of that `mov` end.  The code emitted is executed at
once, because code is inserted behind the code before it; what registers hold is an address, an index, the value requested for
operand k, the loop counter, or junk.  Registers are classes (al, ax, eax are `A`); x87, MMX and
XMM registers are one.  Everything random is nondeterministic: registers, addressing mode, section, displacement,
index, scale.  Section and alignment are 16 and 4 bytes instead of 8192 and 128.

`Liberties` are again what templates may do and those of the repository do not: other memory
operands between two uses of a memory variable (`between`), variables of other types used again beside a memory operand or after they
got their value beside one (`beside`), variables with a value used inside a later loop (`bound`), selects behind other
elements (`select`).  The run has none of them; see disagreements 10, 26, 6 and 12 for what each leads to.  `beside` is there because
`gen_operand_pseudo_code` stores `has_mem_opnd` with *every* variable and puts it back with every one that has a value
(`gendata.c:1149`, `:1155`), registers and numbers included; the model does the same.  Of the 320 templates of the repository
that declare variables, three give a register variable its value beside a memory operand (`xadd @mem, @reg`, a form of the run), and none uses it
again; none uses a register variable that has a value beside a memory operand.

A number as an operand gets its value while it is drawn (`init_immediate_opnd`), and keeps it when it is used again as a variable.  Not modelled:
a variable of type `memory_offs` without a size, for which `init_mem_addr` stays NULL (`gendata.c:1146`); and a number for which NULL is drawn, whose text is then
not a number (disagreement 27).

### Values: `InitVals`

A byte is `<<constant, format, position>>`, so the model follows where each byte comes from rather
than what it is: `parseCNode` fills fields of the one local `val_node` (`Union` for the fields that share memory), `EndGroup`,
`DrawTrv` and `DrawVal` are the two ways an operand gets its constants, `init_opnd` stores them with the
moves of the operand's class.  A byte never written is `undef`.  `Files` are all sequences of
tags up to three; `Operands` pair each class and size with the tags its knowledge has in `xmlmodel/tks`.
An operand starts from constants that were drawn; a NULL of an empty group is outside of this module: where the code takes a random value instead,
there is no constant to follow, and where it does not test for NULL see [traversal](#test-knowledge-and-its-traversal-traverse).
Its specification is `ValuesSpec`, with `ValuesInit` and `ValuesNext`, so that `TestRun_proofs` can extend it together with `CheckRun`.

### The hash table: `HashTbl`

`hash`, the hash function, is a variable that never changes, so that one run has every assignment of the
four hashes to the five keys.  `hi` is the record of the last search, `seen` the walk under way, `map` (history)
the keys added with their data, `wild` (history) whether something was stored through a record into a table that had moved.
Actions: `hash_find`, `Keep` (the caller has what it wants), `hash_add` with the growth it may cause,
`hash_iterator_init`, `hash_iterate`, `hash_free`.  `AddsUnchecked` chooses between callers that look before they add, as the
contract of `hashtbl.c` has it, and the parsers, which do not (run `hash_reuse`).

### Test knowledge and its traversal: `Traverse`

`create_trv_state` says which tree serves which operand; `request_val_node` draws by weight; `walkTrvBlk` chooses
the step; `IntoSubtree`, `NextElement`, `NextOperand`, `Complete` and `Return` are `preorder_traverse_tk_trees`, whose
activations (operand, element of a packed operand, node, position) are `stack`.  `trv_nodes` are the constants chosen so far, appended on the way down and removed
by position on the way back.  `generated` and `used` count combinations and note which constants they had.
An empty group gives NULL, which is 0 in `drawn`.  That is the group `normal`: it has weight 50 in two thirds of the lists of `fixedpointTK.xml` and 100 in the others but one (`popf`), where it
stands for a random value (`gendata.c:745`, `:914`, `operand.c:403`), and weight 0 in all lists of `floatpointTK.xml`, `mmxTK.xml`, `sseTK.xml` and `sse2TK.xml`.
`init_fpu_register_opnd`, the functions for MMX and XMM operands, `init_specific_register` for st0 to st7 and `init_popf` do not test for NULL and rely on those weights, and `popf` on
its list, which is one group of weight 100.  `DrawsFairly` is what they rely on: NULL comes from empty groups only, and as often as these have weight.
Sums over weights, leaves and combinations are functions (`SumTo`, `ProductTo`), as the loops that compute them are.

### Run time: `CheckRun`

| Variable | Code |
|---|---|
| `step`, `exe`, `obj`, `rst` | `compile-test.sh`: the step, the program of that name (none, one of an earlier test, its own), the object file, the recording |
| `m` | the processor; `m.stack` is what the check macro has pushed |
| `ip`, `phase` | the operation of the test, and whether its check point is before, in, or behind the C function |
| `stdout`, `output` | what the recording program has printed; the recording compiled into the test |
| `point`, `reports` | check points so far, and the result of each comparison |
| `seen`, `det`, `lost`, `fault` | history: the processor at each check point, what the test alone determines, and whether a jump depended on anything else or the processor went wrong |

The check macro is executed instruction by instruction (`check_macro_save`, `check_macro_restore`: compositions of `pusha`, `push`,
`sub_esp_fsave`, `frstor`, `popa` and the like, each an operator on the processor), the C structures
are read off the stack in the order of `verification.h`.  A test is any sequence of operations whose conditional jumps have something to jump
over (`IsTest`).  A value has as many parts as some check tells
apart.  `Set` writes a location and may get one part wrong in the comparing run; `Skip` is a conditional jump; `Trap` an
instruction the processor refuses, after which an unknown part of what was printed is in the file.  What nothing determines
(registers before `main`, what a C function leaves) is any member of `Junk`.

### From text to bytes and back: `Codec`

`InsnTable` compiles a sample of 240 lines of `x86/insns.dat` to templates as `insns.pl` does.  `Assemble` is `find_match`, `matches`,
`calcsize` and `gencode` with their helpers, `Disasm` is `disasm` with `matches` and the printing.  A number is
four bytes and an address a sum of registers with factors and a number: no characters.  `Codec` runs the steps of `one_insn_gen` and
`insn_to_asm`: parse, find, count, emit, disassemble, and then reads the printed text with the assembler again (external: the program is assembled by an installed
NASM, of which this one is a copy).  The vendor flags that `insn_to_asm` leaves uninitialised are any set (`Garbage`).

### Expressions: `Eval`

The ten mutually recursive functions of `eval.c` on a token sequence, with the vectors they pass; `ReadNum` for
the numerals.  The reference is `Meaning`, which splits a text at its loosest operator and knows nothing of look-ahead.
`Width` 8 stands for 64 bits.  Operators of more than one character (`>>`, `&&`...) never reach the evaluator, as `get_token`
delivers single characters, and no symbol is ever known: those parts of `eval.c` are left out.

## Runs

| Run | Question | Bounds | Result |
|---|---|---|---|
| `insn_list` | Does the pointer list implement the sequence, keep its back links exact, lose nothing, and is it freed? | 4 entries, any order and position | passes |
| `ctrl_flow` | Do templates mixing loops, calls, jmp and jcc elements give programs that assemble, run in order, run everything and end? | 2 instructions, 3 transfers (a block counts twice), 1 random label, 2 rounds | passes, 640 thousand states |
| `tmplt` | Does the walk generate what a template means, with lexical scopes, one value per round, checks of values that were drawn, no crash, and does it end? | 3 tags below the root with all liberties, 4 without; 1 name, repeats of 0 or 2 rounds, traversals of 2 | passes, 850 thousand states |
| `opnd_gen` | Does an instruction find its address and its values, whatever was emitted while it was half drawn, and is ECX left alone in loops? | 3 elements of 9 kinds, a memory, a register and a number variable, 3 registers, 1 section of 16 bytes | passes, 400 thousand states |
| `init_vals` | Does a constant arrive whole, in place, in its format, and nothing else? | files of 1 to 3 constants, 37 operands | passes |
| `hash_tbl` | Is every key found again, every search finite, no freed memory written? | 5 keys, 4 hashes, tables of 4, 8 and 16 slots, 6 additions, 1 free | passes |
| `traverse` | Are all combinations seen once, every step-th generated, no constant left out, and constants drawn by weight? | 322 instructions, lists of 0 to 5 constants, empty groups of weight 0, 50 and 100, packed by 2, steps 1 to 23 | passes |
| `check_run` | Is a check point invisible to the test, are differences reported exactly, do the two runs pair up? | every check type, 1 or 2 check points, 1 wrong part | passes |
| `codec` | Do length, bytes and printed text agree, and is the text the one that was meant? | 2690 texts on 240 lines of the table | passes |
| `eval` | Is an operand's text read as what it means? | all texts of 3 tokens (2 to 5 by alphabet), alternating ones of up to 9; all numerals of 4 characters | passes |
| `hash_reuse` | A key that is there already is added again, as `parseTKs` does | as `hash_tbl` | violates `KeysAreKept` |
| `codec_prefer` | Bytes two vendors share, printed with uninitialised vendor flags | 2 texts of the repository | violates `SameOperands` |

Why the bounds are enough.  The list macros touch an entry and its neighbours, and
special-case the first and the last: four entries give every combination of first, middle
and last.  A jump's rewriting touches one label; a second one can land on the first
one's labels, and the third on those of both: the pattern repeats from there.  A block with an element or two inside
or behind it gives the meetings of blocks and jumps; a jump can land in the labels of the
block.  The width of ECX (2^32) is a constant: what matters is that a count
of `times` and a wrapped one differ.
In a template, scope is a matter of a block, one around it and one inside it: four tags give these
three and an element beside the innermost, and two rounds tell a round from the next.
Three elements let a first one leave something in the global state, a second one fail to clear it, and a third one use it.
A table of four slots grows at the third key and again at the fifth, so five keys give two growths and a search record that is two
tables old.  The step of the traversal is a prime above a sixteenth of the number of combinations: the lists are chosen so that it is 1, 2, and
larger primes that do and do not divide the number of constants.  A check point can be disturbed by the one before it and by nothing earlier,
as it hands back all it took.  The encodings depend on a byte's sign and on its being 0, and on the registers ESP, EBP and the accumulator: the texts have all of these.
For the evaluator, three tokens meet every pair of levels, and alternating texts give chains of operators.

All bounds are constants: `MaxWork`, `MaxTransfer`, `MaxLikely`, `Times`, `CXSize` (`CtrlFlow`);
`MaxBlocks`, `MaxUntidy`, `MaxVars`, `Times`, `Combos` (`Tmplt`); `MaxElems` and the sizes (`OpndGen`);
`MaxAdds`, `MaxFrees`, `NumKeys` (`HashTbl`); elsewhere the sets of inputs.  They limit the template or the
input, not the executed program or the walk.

### Properties, by what could go wrong

Some properties checked are conjunctions of named parts, of which the comments in the module say more.

* `CtrlFlow!ExecutesInOrder`: an instruction is followed by the one generated next, or by the first
  of its loop body. This is what pairs check point n of the recording run with
  check point n of the comparing run.
* `ExecutesEverything`: a program that ends has run loop bodies `times` times, all else once.
* `Terminates`: it does end, or leaves through a jump that was not rewritten.  Nothing is assumed of the
  flags: `JumpIf` may take the same side for ever.
* `NoStrayJump`, `ProgramAssembles`, `PositionIsAnEntry`: the program has no dangling
  jumps, missing or double labels, and the generator no wild position.
* `LabelsAtTheirPositions`, `EveryInsnListedOnce`: the bookkeeping these rest on.
* `Tmplt!WalksTheTree`: what the walk generates is the tree unrolled, defined on the tree without
  any walk; a walk that stops early has generated a prefix.
* `LexicalScope`: the variable an element uses is that of the innermost block around it which
  has one of that name.  Without shadowing this holds although `curr_blk` is stale behind a nested block, because
  the blocks around the element are among those around any block nested beside it.
* `VariableValues`: two uses of a variable agree exactly if they are in the same round of its
  block, and a check only ever compares a value some instruction of that round used.
* `NoCrash`: a traverse block has a state, its element has value nodes, names are found.  `WalkEnds`.
* `OpndGen!AddressesHold`: when an instruction executes, its address registers hold the address that
  was drawn, it lies in its section, and is aligned for SSE.  Registers loaded with values for other operands, and for implied ones, are the threat.
* `ValuesAtInsn`, `OwnValue`: operands hold the value requested for them, and each requests its own, although nested calls move the number.
* `LocksHold`: the counter of a loop survives its body, and drawing an unlocked register always succeeds.
* `InitVals!ValuesInPlace`, `NothingStale`: each element of a packed operand has its constant in the right
  format, and no byte comes from a constant that was not drawn.
* `HashTbl!TableSound` (size, exact load, every search meets an empty slot), `MemorySafe`, `FindsWhatWasAdded`.
* `Traverse!InOrder`: the complete combination has the rank `trv_index` counts, in the end all have been counted, and lists have one constant for each element.
  `SamplesFairly`: at most twice the number wanted is generated, no constant missed when
  the step is less than and no divisor of the numbers of constants (a lone element that is sampled misses some: its combinations are its constants).  `DrawsFairly`: the number of draws that give a group is its weight, each of its
  constants has one chance, and NULL is drawn from empty groups only, as often as these have weight.  `SamplesFairly` leaves out lists in which every group is empty: they leave no combination for any operand.
* `CheckRun!Transparent`, `ReportsExactly` (no false alarm and nothing missed; of an MMX register, while the top of the x87 stack is 0, as MMX instructions leave it), `RunsMatch` (entries pair up; the recording compiled in is this
  test's, although the script goes on after failures).
* `Codec!BufferExact` (length counted = bytes written, within the buffer), `Reversible` (the printed text assembles to the same bytes),
  `SameOperands` (it has the same addresses, numbers and registers), `RefusesOnlyImpossible`.
* `Eval!EvaluatesMeaning`, `AddressesMeaning`, `ReadsTheNumeral`.
* `InsnList`: `Implements` (refinement of `InsnSeq`), `ListWhole`, `ListFreed`.

Fairness is stated in three places, each a process that goes on by itself as long as it can: `WF_vars(Run)`
in `CtrlFlow` (the processor), `WF_vars(Walk)` in `Tmplt` (a plain recursive call), and the writing
and clearing loops of `InsnList`.

Deadlock is not checked where the system stops: a template that has been walked, a program that has ended or that NASM rejects, a list that has been cleared,
a traversal, a test or an operand that is done.

## Proofs

TLC checks the runs above on small instances; the following hold for every value of the
constants (any template, any number of instructions, labels, rounds, any width of ECX, any registers, instructions and data sections, any keys, hashes and table sizes).

| Theorem | Property | Assumption |
|---|---|---|
| `TypeCorrect` | `TypeOK` of `CtrlFlow` | `ConstantsAssumption` |
| `LabelsStayAtTheirPositions` | `LabelsAtTheirPositions` | the same |
| `NothingIsDropped` | `EveryInsnListedOnce` | the same |
| `WalkKeepsItsPosition` | `PositionIsAnEntry` | and `ClosedTemplates` |
| `FinishedProgramAssembles` | `ProgramAssembles` | and `ClosedTemplates` |
| `OnlyRawJumpsLeave` | `NoStrayJump` of `CtrlFlow` | and `ClosedTemplates` |
| `ExecutionFollowsTheWalk` | `ExecutesInOrder` of `CtrlFlow` | and `ClosedTemplates` |
| `EverythingIsExecuted` | `ExecutesEverything` of `CtrlFlow` | and `ClosedTemplates`, `NamesCX = FALSE` |
| `ListAlwaysWhole` | `ListWhole` of `InsnList` | `PointersDistinct`, `HeapFinite` |
| `ListImplementsSeq` | `Implements` of `InsnList`: the refinement of `InsnSeq`, step by step | the same |
| `VariablesHoldValues` | `VariableValues` of `Tmplt` | `TmpltAssumption` |
| `ScopeIsLexical` | `LexicalScope` of `Tmplt` | the same |
| `WalkDoesNotCrash` | `NoCrash` of `Tmplt` | the same |
| `WalkFollowsTheTree` | `WalksTheTree` of `Tmplt` | the same |
| `CounterSurvivesBody` | `LoopCounterKept` of `OpndGen` | `OpndGenAssumption`, `TidyTemplates` |
| `RegistersRemain` | `RetriesEnd` of `OpndGen` | and `EnoughRegisters` |
| `LocksAlwaysHold` | `LocksHold` of `OpndGen`: the two before and `TypeOK` | and `EnoughRegisters` |
| `AddressesAlwaysHold` | `AddressesHold` of `OpndGen` | `OpndGenAssumption`, `TidyTemplates`, `OneAddress` |
| `ValuesArrive` | `ValuesAtInsn` of `OpndGen` | and `NumbersKept` |
| `ValuesByNumber` | `OwnValue` of `OpndGen` | and `NumbersKept` |
| `TableStaysSound` | `TableSound` of `HashTbl` | `HashTblAssumption` |
| `MemoryStaysSafe` | `MemorySafe` of `HashTbl` | and `~AddsUnchecked` |
| `AlwaysFinds` | `FindsWhatWasAdded` of `HashTbl` | and `~AddsUnchecked` |
| `ElementsInPlace` | `ValuesInPlace` of `InitVals` | `InitValsAssumption`, `KnowledgeFits` |
| `NoStaleBytes` | `NothingStale` of `InitVals` | the same |
| `CountsInOrder` | `InOrder` of `Traverse` | `TraverseAssumption`, `GroupsOnce` |
| `DrawsByTheWeights` | `DrawsFairly` of `Traverse` | `TraverseAssumption`, `WeightsAddUp` |
| `CheckPointsAreTransparent` | `Transparent` of `CheckRun` | `CheckRunAssumption` |
| `ChecksReportExactly` | `ReportsExactly` of `CheckRun` | the same |
| `RunsBelongTogether` | `RunsMatch` of `CheckRun` | the same |

`ClosedTemplates` says that no transfer block is a jmp or jcc and that no loop or call
is drawn as an element; the third and the fifth of the [disagreements](#disagreements-found) show that
`WalkKeepsItsPosition` and `FinishedProgramAssembles` fail without it, and a program that does not assemble has no order to speak of.
`NamesCX = FALSE` says that no body of a loop names ECX where the lock is not asked (disagreement 6).
`TidyTemplates` says that no variable keeps a value from outside into a loop, that a select block does not
follow another element (both are disagreements below), and that no instruction points at its data with ECX;
`EnoughRegisters` that besides ECX there are one register to draw and two for an address, as there are;
`OneAddress` that an instruction has one memory operand at most, as x86 has it, and none if it names a variable twice; that no other memory operand comes between two uses
of a memory variable, that a variable of another type that has its value is used again apart from memory operands, and got its value apart from them, and that SSE and other instructions do not share a memory variable
(disagreements 10, 26 and 25);
`NumbersKept` that an instruction has a value for each operand and one implied operand at most, or two behind one
operand, as disagreement 11 requires;
`KnowledgeFits` that the knowledge of an operand has constants of a tag, and as many of them, as the branches for its class and size
expect, and that no file has Mmx constants behind tags that set another type (disagreements 13 to 15);
`GroupsOnce` that no list of knowledge names a group twice, and `WeightsAddUp` that its weights add up to 100: the lists in `xmlmodel/tks`
do, and TLC evaluates the three on the constants of the runs;
`~AddsUnchecked` that `hash_add` follows a failed `hash_find`, as its contract says and two parsers do not.
The named assumptions of the modules are what the code fixes: that NULL and the list head are no entries and the heap is finite (`InsnList`), that the first table has a power of two
of slots, 4 or more (`HASH_INIT_SIZE`), the ranges of bounds and names (`TmpltAssumption`), which registers there are, that x86 instructions
have four operands at most, that the sections are of one size, a multiple of the alignment (`OpndGenAssumption`), and that the programs are tests (`CheckRunAssumption`).

`CtrlFlow`.  `TypeOK` is not inductive: that a label position is an entry needs that
the insert position was one when it was recorded, that the list contains every
instruction generated, and that an insert position is NULL only while the list is empty.
`IInv` is the conjunction of `Shape(pg)` (all of that about X86PGState), of
`RefsBelow` (the numbers emitted jumps name are at most the label they wait for),
of `Assembles` while the program runs (so that a jump has a target), and of the
types of the processor's state.  Each operation of ctrl.c is composed of insertions and labels, so
the proof is: `stat_insert_insn` and `gen_label` preserve `Shape` (lemmas, on those of `Lemmas`),
each composite is their composition, each action changes `pg` by one
composite.  For `WalkKeepsItsPosition` and `FinishedProgramAssembles`, `BlockOK` adds what a transfer block owes: while
it is open and the lock is on, every label that emitted jumps name exists; outside
one the lock is off.

What the program executes is a question about the whole control-flow graph, and the theorems answer it for the graph
*while it is generated*.  The list is read as a ring (`Nx`), which an insertion opens at one entry.  Every instruction gets a mark: the
serial number that is executed next when the program is there, the call whose body it is in, and its loop block.
`Chain` says that marks agree along every edge (what follows in the list, where a jump goes, where a ret
goes back) except behind one entry, the open one, where what is generated next will be inserted; `BlockShape` says what an open
transfer block still owes.  A rewritten jump to any earlier label is then harmless, as the code inserted there jumps back to
where the mark fits; each composite of ctrl.c takes marks to more marks (`Ordered`, `GenOrder`), and Finish leaves no entry open (`ChainFinish`).
Of the program that runs, `Running` says that stack and next serial number are what the mark of the current instruction
says, that the trace is in order (`Traced`), and that each instruction was executed as often as ECX and the mark say (`Counted`); `Ended` what is left of that
at the end.  `OrderOK` puts these together, and is inductive with `IInv` and `BlockOK`.

`InsnList`.  `ListWhole` is not inductive: the chain from `lh_first` may meet the right entries while a back link of
one not concerned is off, and the next `TLIST_INSERT_BEFORE` writes through it.  `IInv` says that the links are those of the sequence
that the chain meets, forward and back (`Whole`), that this sequence has no entry twice and all those alive, and what tail, count, cursor
and file are in terms of it.  `FollowedIsLinked` proves that the loop of `TLIST_FOREACH` meets exactly the sequence that is linked; so each macro needs
only be shown to link the sequence it should (`HeadMacro`, `AfterMacro`, `BeforeMacro`, `RemoveMacro`: first, last and an entry between),
and the same lemmas give the steps of `InsnSeq`.

`Tmplt`.  `IInv` consists of: the tree is one (children and parents agree) and its marks are the parser's (`Shape`), the stack is a path of it with rounds to spare (`Frames`),
`curr_blk` lies within the innermost block walked (`Nested`), values and history agree (`Values`), a traverse block is handed the state of one of its own elements (`HandedOver`),
and the two properties themselves.
`LexicalScope` rests on `Nested`: `curr_blk` may be stale, and this says how stale.  The search for a name is a recursion upwards
over parents; what it finds is proved once, by induction over the block numbers, as the nearest block above that has the name.
`VariableValues` compares entries of the log with each other; the invariant relates each to the *variable*, which holds the value as long as the round lasts and never again (`Used`).
`WalksTheTree` compares the log with a recursion *downwards*.  Its invariant cannot be about the log alone, which is a prefix in the middle of a block:
the log, followed by what every active function has left, innermost first, is the tree unrolled (`InOrder`).  Each element moves
from the second part to the first, a block entered or a round begun only splits the second part, and a return drops nothing.

`HashTbl`.  A search ends because it visits every slot: the step is odd and the size a power of two,
so the n slots probed are different (`ProbeInjective`, by cancelling the odd factor), and being n they are all slots (`ProbeCovers`); the load bound leaves one empty (`SomeSlotFree`).
`Placed` says of each entry stored that on its own path the slots before it are occupied.
An addition keeps it, as it fills the first empty slot of a path; a growth establishes it anew, entry by entry (`RebalancedPlaces`).
`Holding` adds that the entries are what was added, and `Pending`, that the record of a failed search is up to date until the addition: nothing moves the table between the two.

`OpndGen`: ECX stays locked once a loop has locked it, so what is drawn in its body, operand or base or
index, is never ECX, and the code that loads registers is only ever made of what was drawn.  That this code is
kept in `stat.init_mem_addr` over the nested generation of initialisation code, and in `var` over whole
elements, is what the inductive invariant (`Shape`, and `BodySparesC` while looping) has to carry.
`TypeOK` needs more than types: a word loaded is the label of a section or an index inside it, so `Typed` carries that the code
kept sets up its operand (`SetsUp`: whatever the registers hold, the operand is then where it was drawn).
What is drawn does (`ModrmSetsUp`) in every addressing mode and lies inside its section (`AddrInside`).
`Addressed` says that the code in `stat.init_mem_addr` is that of the memory operand of this instruction, or of the memory variable
that has a value (`VarKept`); so running it once more in front of the instruction is enough, whatever was loaded before.
Whether it is run is up to `has_mem_opnd`, which every variable puts back: `VarApart` says of the operands still to come that none
is a variable whose flag would be a wrong one beside this instruction's memory operand.
`Valued` says of every register that is not in an address that it holds the value of the last operand it is, given or implied
(`Filled`), and that the number in the state is that of the operand at hand (`Numbered`).

`InitVals`.  An operand is right if the fields read are those its constants filled, and a constant node is a copy of a local
in which every earlier constant may have left its fields.  `IInv` says of each stored node which fields its tag has filled (`Stored`), and of the local
that it has a type no branch mistakes; of the operand, that what was drawn is of its group.  Each branch of the `init_*_opnd` functions then reads
only what was filled, which is a case for each combination that `Fits` names.

`Traverse`.  `InOrder` is about the lists at one moment, while each of the calls that are active will remove from them what it believes it added.
The invariant (`Walking`) therefore gives every activation the lists as they were when it was called (a history `H`, which no variable records): they
have one constant for each element before its own (`Listed`), and each call's lists are those of its caller with the caller's constant (`After`). So
what a return removes leaves the lists of the caller (`CallAdds`).
The count is the number of the combination in a system of digits whose bases are the numbers of constants of the elements behind (`Behind`): `trv_index` is
the rank of the innermost lists plus the digit of the innermost loop times what is behind it (`Count`).  A call opens the next digit at 0, and a loop that ends has counted
as much as one step of its caller's (`BehindSteps`), across elements, operands and subtrees alike.
For `DrawsFairly` the random numbers that select a subtree are shown to be the interval between two partial sums of weights; those that give
NULL are the union of these intervals over the empty groups, counted by induction over the groups.

`CheckRun`.  The invariant has three layers.  `MachineOK` is about one run: the stack is empty between operations (`Working`), and in a check point
it holds, word by word, the processor as `seen` has it (`Calling`), so that popping gives that processor back whatever the C function left in the registers it need not keep.
This is `Transparent`.  `ComparesOK` adds both programs: what was printed and compiled in again is `Recorded` of the processor at that check point (two orders of sixteen
registers, one of `X86RegsOutput`, one of the structure, must cancel), and each report is the comparison of what was recorded and what was found at the same number.
`Truthful` then goes through the check types: what each compares determines the part of the processor that it is about, and is determined by it.
`FollowOK` is about two runs that are never there at the same time.  Neither can be compared with the other, which is over, so both are compared with
a third, the path the test determines (`Ideal`: every register written holds 1, every jump looks at what the processor of the path holds; `IsPath` says that a function lists its steps).  As long as the processor works and
no jump depended on anything else, the recording is that path (`Finished` when it ended), the comparing run is a beginning of it (`Matched`), and both agree
with it, hence with each other, in everything that is determined (`Near`).  No check of what is determined fails then (`Silent`), and check point n is check point n.
Two properties had to be put right for this: `StateKept` looked at the check point of the operation before without asking whether
it was executed (a jump may have skipped it), and `ReportsTruly` did not say that the check of an MMX register is exact only while the top of
the x87 stack is 0 (`fsave` stores from the top, `check_point_mm*` reads by number).  The runs had shown neither; they now have tests of both kinds.

`TestRun_proofs` holds the proofs of `InitVals` and `CheckRun` one after the other; they share nothing but `Lemmas`.

Induction.  The induction theorems of the library take an operator as a parameter, which the provers at hand cannot
instantiate.  `Lemmas` states them for sets instead, so that an induction over
data defines the set of numbers for which the claim holds and shows it to be everything; recursions are functions (`f[b \in ...]`), with
the recursion theorem for each proved from it.  This covers the trees, paths and sequences above.

Only model-checked: `Terminates`, `WalkEnds` and `ListFreed`, as liveness is
out of the prover's reach.  `SamplesFairly`: that the primes are dense enough for at most twice the number
wanted is Bertrand's postulate, and that a step prime to the bases meets every digit is number theory of the same kind.
The properties of `Codec` and `Eval`: `Eval`, `Assemble` and `Disasm` have
recursive operators, and `Eval` uses `Bitwise`, which the prover cannot read.

## Disagreements found

The first two are the runs that expect a violation; the others are shown by the run named when the constant is changed as described.

1. `hash_add` over an existing key: `parseTKs` and `parseCGs` ignore the result of `hash_find` and add through whatever record an earlier search left.
   psubq is in `mmxTK.xml:240` and again in `sse2TK.xml:494`, where it takes the slot of cvtps2dq (`parseTKs.c:173`, run `hash_reuse`).
2. `prefer` in `insn_to_asm` is uninitialised: sqrtps may be printed as the Cyrix instruction paddsiw (`generator.c:194`, run `codec_prefer`).
3. A transfer block of type jcc or jmp, which the manual allows, indexes `labelspos` with -1
   or continues at an unrelated label (`tmplt.c:132`; `ctrl_flow` with `"jcc"` in `TransferTypes` violates `PositionIsAnEntry`).
4. A jump element generated before any label exists is emitted twice, the second time as it is
   (`generator.c:358`; the program leaves the generated code there, which `NoStrayJump` allows for jumps that were not rewritten and for nothing else).
5. A loop or call element drawn from a group leaves the control lock on, and the
   final label is never emitted (`ctrl.c:211`; `JumpElems <- LoopElems` violates `ProgramAssembles`).
6. The lock on ECX does not cover specific registers, literal operands and bound
   variables (`operand.c:18`; `NamesCX = TRUE` violates `ExecutesEverything`).
7. `curr_blk` is not restored when a nested block ends: behind a block that shadows a name, the
   inner variable is used (`tmplt.c:95`; `LexicalScope` without its condition `NoShadow`).
8. A traverse block needs an I element with `trv="true"`, which the manual never mentions; without
   one the walk dereferences NULL (`tmplt.c:259`; `NoCrash` without the condition `OwnTraversal`).
9. The manual gives I elements a weight for select blocks, but a select takes groups only and
   dereferences NULL otherwise (`parseTmplt.c:94`, the crash of `parseSelBlk`).
10. A variable that is a memory operand gets back `has_mem_opnd` but not `init_mem_addr`: the registers of the operand generated last are
    set up (`gendata.c:1151`; `Forms <- MCVarForms` and `Liberties = {"between"}` violate `AddressesHold`).
11. Values of implied operands are requested by a number that only the nested `mov` moves: the second implied operand of div
    asks for a value its knowledge does not have, that of fpatan for the value of the first (`operand.c:368`; `Forms <- MCImpliedForms` violates `OwnValue`).
12. A select block generates with the opcode, `need_init` and `has_mem_opnd` of the element before it (`tmplt.c:117`; `Liberties = {"select"}`, `Forms <- MCSelectForms`).
13. A pair of 32-bit values for a 128-bit operand (cvtdq2pd) is stored as if it were of four (`gendata.c:698`; `Operands <- PairOperands` violates `ValuesInPlace`).
14. A constant with the tag Mmx leaves the type of the local `val_node` as it was (`parseTKs.c:59`; `Operands <- StackOperands`, `StackTypes <- Types`).
15. A 32-bit constant drawn for a 64-bit operand has the upper half of an earlier constant (`parseTKs.c:84`; `Operands <- MixedOperands`).
16. The sampling step for paddd is 2, which divides its ten constants: half of them are never met by the last operand (`tmplt.c:272`;
    `Groups <- PadddGroups`, `TKs <- PadddTKs` and the property `TraversesEveryValue`).
17. fsqrt has no operand and is in neither of the two tables of `tk.c`: its traverse block generates nothing (`tk.c:153`).
18. The XMM registers are saved for the check and not loaded again, although the check functions may use them (`output_file_wrapper.c:57`):
    `StateKept` leaves them out, and a check of one behind another check may report a difference on a correct processor.
19. The image of fsave is read in its real-mode format; in protected mode ffop is the code segment (`verification.h:99`): a wrong x87 opcode is not seen.
20. `evaluate` returns NULL for an expression it refuses, and `one_insn_gen` uses it unseen (`generator.c:457`): the crash in `Eval`.
21. `parse_mref` takes a register with factor 0 for an index (`generator.c:229`), where `nasm.h:330-332` calls such a term insignificant: `[eax*0+ecx*2]` is refused.
22. The sum of two numbers sets the hint that is declared "base and index are summed" (`nasm.h:561`, `eval.c:152`).
23. `eax+5` as a register operand is taken for `eax` (`generator.c:493`).
24. The size of a displacement is printed inside the brackets (`disasm.c:1549`), which the operand parser of the generator does not read; NASM does.
25. An address is aligned for the instruction it is drawn for (`mem.c:27`): a variable first used by an instruction that is not an SSE one
    keeps an unaligned address for the SSE one that uses it next (`Forms <- MCAlignForms` violates `AddressesHold`).
26. `has_mem_opnd` is stored with a variable of any type and put back with it, as if the variable were the only operand: `mov mem32, @reg`, `@reg` having its value
    from an instruction without a memory operand, clears the flag of `mem32`, whose address is then not set up in front of the instruction, though code in between may have loaded its registers;
    `@reg` having its value from behind a memory operand sets the flag in instructions that have none, and the address set up last is loaded once more, over a value
    of the instruction (`gendata.c:1149`, `:1155`; `Forms <- MCBesideForms` and `Liberties = {"beside"}` violate `AddressesHold`, and with `MCForms` `ValuesAtInsn` too).
27. A number that is to have an initial value and for which NULL is drawn (`normal`, half of the draws of most fixed-point lists, all of the others) keeps the text of its type, `imm32`, or,
    in an instruction drawn from its forms, a buffer nobody wrote (`gendata.c:760`; found by reading, the text of numbers is not in `OpndGen`).

## Plan

All modules of the first plan are written.  What is left, in this order:

1. `Tmplt` composed with `CtrlFlow`: blocks nested in transfer blocks, check points in both.
2. `Codec`: relative branches, which would bring instruction lengths and the reach of loopcc into `CtrlFlow`; VEX-coded instructions.

## Not modelled

* Wholly: libxml2, the perl generators and their tables, the portability layer, and the bare-metal library: pure
  input, output or data.  `labels.c`, `rbtree.c`, `strlist.c` and `floats.c`: the generator links them but calls them with
  nothing (no label is ever defined and no float read).  The messages of `error.c`.  `printlib.c` prints for a reader, `run-all-templates.sh` is a loop.
* Of the output: the text of header, sections and macros; the check macro itself is in `CheckRun`.
* `seed.c` and the choice of registers that never address memory are free choices.
* Of the assembler and disassembler: 64-bit code (but for `rex.l` of CR8), VEX, EVEX and vector addresses, MIB, decorators,
  relative branches (control transfers leave `one_insn_gen` before their operands), FAR, NEAR and SHORT, segment prefixes, HLE and BND prefixes, `resb` and segment codes,
  the operand types sbyte, and warnings.  A text has at most one prefix that can be read.  Errors that are only reported set `ins.error`, and the text printed is then not compared.
  Lengths of whole programs are not modelled, so nothing is said of the reach of short jumps.
* Of the evaluator: operators of several characters, parentheses, symbols, segments, WRT, floats and string functions, which `get_token` never delivers.
* At run time: the direction flag is that of the test when the check functions are called (`output_file_wrapper.c:68`), and what a C library does then
  is not in the repository.  An x87 opcode is only required to be accepted when equal.  Reading behind the recording gives the empty entry.
* Nested traverse blocks, which share the static `trv_step` and `trv_index` (`tmplt.c:269`); no template has them.  Weights that do not add up to 100 (`wdtree.c:107`); no file has them.

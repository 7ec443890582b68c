------------------------------- MODULE MCCodec -------------------------------
EXTENDS Codec

(* Lines of x86/insns.dat, in their order. *)
Lines == <<
  <<"ADD", <<"mem", "reg8">>, <<"m", "r">>, <<"hle", "00", "/r">>, {"SM"}>>,
  <<"ADD", <<"reg8", "reg8">>, <<"m", "r">>, <<"00", "/r">>, {}>>,
  <<"ADD", <<"mem", "reg16">>, <<"m", "r">>, <<"hle", "o16", "01", "/r">>, {"SM"}>>,
  <<"ADD", <<"reg16", "reg16">>, <<"m", "r">>, <<"o16", "01", "/r">>, {}>>,
  <<"ADD", <<"mem", "reg32">>, <<"m", "r">>, <<"hle", "o32", "01", "/r">>, {"SM"}>>,
  <<"ADD", <<"reg32", "reg32">>, <<"m", "r">>, <<"o32", "01", "/r">>, {}>>,
  <<"ADD", <<"reg8", "mem">>, <<"r", "m">>, <<"02", "/r">>, {"SM"}>>,
  <<"ADD", <<"reg8", "reg8">>, <<"r", "m">>, <<"02", "/r">>, {}>>,
  <<"ADD", <<"reg16", "mem">>, <<"r", "m">>, <<"o16", "03", "/r">>, {"SM"}>>,
  <<"ADD", <<"reg16", "reg16">>, <<"r", "m">>, <<"o16", "03", "/r">>, {}>>,
  <<"ADD", <<"reg32", "mem">>, <<"r", "m">>, <<"o32", "03", "/r">>, {"SM"}>>,
  <<"ADD", <<"reg32", "reg32">>, <<"r", "m">>, <<"o32", "03", "/r">>, {}>>,
  <<"ADD", <<"rm16", "imm8">>, <<"m", "i">>, <<"hle", "o16", "83", "/0", "ib,s">>, {}>>,
  <<"ADD", <<"rm32", "imm8">>, <<"m", "i">>, <<"hle", "o32", "83", "/0", "ib,s">>, {}>>,
  <<"ADD", <<"reg_al", "imm">>, <<"-", "i">>, <<"04", "ib">>, {"SM"}>>,
  <<"ADD", <<"reg_ax", "imm">>, <<"-", "i">>, <<"o16", "05", "iw">>, {"SM"}>>,
  <<"ADD", <<"reg_eax", "imm">>, <<"-", "i">>, <<"o32", "05", "id">>, {"SM"}>>,
  <<"ADD", <<"rm8", "imm">>, <<"m", "i">>, <<"hle", "80", "/0", "ib">>, {"SM"}>>,
  <<"ADD", <<"rm16", "imm">>, <<"m", "i">>, <<"hle", "o16", "81", "/0", "iw">>, {"SM"}>>,
  <<"ADD", <<"rm32", "imm">>, <<"m", "i">>, <<"hle", "o32", "81", "/0", "id">>, {"SM"}>>,
  <<"ADD", <<"mem", "imm8">>, <<"m", "i">>, <<"hle", "80", "/0", "ib">>, {"SM"}>>,
  <<"ADD", <<"mem", "imm16">>, <<"m", "i">>, <<"hle", "o16", "81", "/0", "iw">>, {"SM"}>>,
  <<"ADD", <<"mem", "imm32">>, <<"m", "i">>, <<"hle", "o32", "81", "/0", "id">>, {"SM"}>>,
  <<"BSWAP", <<"reg32">>, <<"r">>, <<"o32", "0f", "c8+r">>, {}>>,
  <<"CBW", << >>, << >>, <<"o16", "98">>, {}>>,
  <<"CMPSB", << >>, << >>, <<"repe", "a6">>, {}>>,
  <<"CMPSD", << >>, << >>, <<"repe", "o32", "a7">>, {}>>,
  <<"CWDE", << >>, << >>, <<"o32", "98">>, {}>>,
  <<"ENTER", <<"imm16", "imm8">>, <<"i", "j">>, <<"c8", "iw", "ib,u">>, {}>>,
  <<"FADD", <<"mem32">>, <<"m">>, <<"d8", "/0">>, {}>>,
  <<"FADD", <<"mem64">>, <<"m">>, <<"dc", "/0">>, {}>>,
  <<"FADD", <<"fpureg_to">>, <<"r">>, <<"dc", "c0+r">>, {}>>,
  <<"FADD", <<"fpureg">>, <<"r">>, <<"d8", "c0+r">>, {}>>,
  <<"FADD", <<"fpureg", "fpu0">>, <<"r", "-">>, <<"dc", "c0+r">>, {}>>,
  <<"FADD", <<"fpu0", "fpureg">>, <<"-", "r">>, <<"d8", "c0+r">>, {}>>,
  <<"FADD", << >>, << >>, <<"de", "c1">>, {"ND"}>>,
  <<"FADDP", <<"fpureg">>, <<"r">>, <<"de", "c0+r">>, {}>>,
  <<"FADDP", <<"fpureg", "fpu0">>, <<"r", "-">>, <<"de", "c0+r">>, {}>>,
  <<"FADDP", << >>, << >>, <<"de", "c1">>, {"ND"}>>,
  <<"FLD", <<"mem32">>, <<"m">>, <<"d9", "/0">>, {}>>,
  <<"FLD", <<"mem64">>, <<"m">>, <<"dd", "/0">>, {}>>,
  <<"FLD", <<"mem80">>, <<"m">>, <<"db", "/5">>, {}>>,
  <<"FLD", <<"fpureg">>, <<"r">>, <<"d9", "c0+r">>, {}>>,
  <<"FLD", << >>, << >>, <<"d9", "c1">>, {"ND"}>>,
  <<"FNSAVE", <<"mem">>, <<"m">>, <<"dd", "/6">>, {}>>,
  <<"FNSTSW", <<"mem">>, <<"m">>, <<"dd", "/7">>, {"SW"}>>,
  <<"FNSTSW", <<"reg_ax">>, <<"-">>, <<"df", "e0">>, {}>>,
  <<"FSAVE", <<"mem">>, <<"m">>, <<"wait", "dd", "/6">>, {}>>,
  <<"FSTSW", <<"mem">>, <<"m">>, <<"wait", "dd", "/7">>, {"SW"}>>,
  <<"FSTSW", <<"reg_ax">>, <<"-">>, <<"wait", "df", "e0">>, {}>>,
  <<"FXCH", <<"fpureg">>, <<"r">>, <<"d9", "c8+r">>, {}>>,
  <<"FXCH", <<"fpureg", "fpu0">>, <<"r", "-">>, <<"d9", "c8+r">>, {}>>,
  <<"FXCH", <<"fpu0", "fpureg">>, <<"-", "r">>, <<"d9", "c8+r">>, {}>>,
  <<"FXCH", << >>, << >>, <<"d9", "c9">>, {"ND"}>>,
  <<"IMUL", <<"rm8">>, <<"m">>, <<"f6", "/5">>, {}>>,
  <<"IMUL", <<"rm16">>, <<"m">>, <<"o16", "f7", "/5">>, {}>>,
  <<"IMUL", <<"rm32">>, <<"m">>, <<"o32", "f7", "/5">>, {}>>,
  <<"IMUL", <<"reg16", "mem">>, <<"r", "m">>, <<"o16", "0f", "af", "/r">>, {"SM"}>>,
  <<"IMUL", <<"reg16", "reg16">>, <<"r", "m">>, <<"o16", "0f", "af", "/r">>, {}>>,
  <<"IMUL", <<"reg32", "mem">>, <<"r", "m">>, <<"o32", "0f", "af", "/r">>, {"SM"}>>,
  <<"IMUL", <<"reg32", "reg32">>, <<"r", "m">>, <<"o32", "0f", "af", "/r">>, {}>>,
  <<"IMUL", <<"reg16", "mem", "imm8">>, <<"r", "m", "i">>, <<"o16", "6b", "/r", "ib,s">>, {"SM2"}>>,
  <<"IMUL", <<"reg16", "mem", "imm16">>, <<"r", "m", "i">>, <<"o16", "69", "/r", "iw">>, {"SM"}>>,
  <<"IMUL", <<"reg16", "mem", "imm">>, <<"r", "m", "i">>, <<"o16", "69", "/r", "iw">>, {"ND", "SM"}>>,
  <<"IMUL", <<"reg16", "reg16", "imm8">>, <<"r", "m", "i">>, <<"o16", "6b", "/r", "ib,s">>, {}>>,
  <<"IMUL", <<"reg16", "reg16", "imm16">>, <<"r", "m", "i">>, <<"o16", "69", "/r", "iw">>, {}>>,
  <<"IMUL", <<"reg16", "reg16", "imm">>, <<"r", "m", "i">>, <<"o16", "69", "/r", "iw">>, {"ND", "SM"}>>,
  <<"IMUL", <<"reg32", "mem", "imm8">>, <<"r", "m", "i">>, <<"o32", "6b", "/r", "ib,s">>, {"SM2"}>>,
  <<"IMUL", <<"reg32", "mem", "imm32">>, <<"r", "m", "i">>, <<"o32", "69", "/r", "id">>, {"SM"}>>,
  <<"IMUL", <<"reg32", "mem", "imm">>, <<"r", "m", "i">>, <<"o32", "69", "/r", "id">>, {"ND", "SM"}>>,
  <<"IMUL", <<"reg32", "reg32", "imm8">>, <<"r", "m", "i">>, <<"o32", "6b", "/r", "ib,s">>, {}>>,
  <<"IMUL", <<"reg32", "reg32", "imm32">>, <<"r", "m", "i">>, <<"o32", "69", "/r", "id">>, {}>>,
  <<"IMUL", <<"reg32", "reg32", "imm">>, <<"r", "m", "i">>, <<"o32", "69", "/r", "id">>, {"ND", "SM"}>>,
  <<"IMUL", <<"reg16", "imm8">>, <<"r", "+", "m", "i">>, <<"o16", "6b", "/r", "ib,s">>, {}>>,
  <<"IMUL", <<"reg16", "imm16">>, <<"r", "+", "m", "i">>, <<"o16", "69", "/r", "iw">>, {}>>,
  <<"IMUL", <<"reg16", "imm">>, <<"r", "+", "m", "i">>, <<"o16", "69", "/r", "iw">>, {"ND", "SM"}>>,
  <<"IMUL", <<"reg32", "imm8">>, <<"r", "+", "m", "i">>, <<"o32", "6b", "/r", "ib,s">>, {}>>,
  <<"IMUL", <<"reg32", "imm32">>, <<"r", "+", "m", "i">>, <<"o32", "69", "/r", "id">>, {}>>,
  <<"IMUL", <<"reg32", "imm">>, <<"r", "+", "m", "i">>, <<"o32", "69", "/r", "id">>, {"ND", "SM"}>>,
  <<"IN", <<"reg_al", "imm8">>, <<"-", "i">>, <<"e4", "ib,u">>, {"SB"}>>,
  <<"IN", <<"reg_ax", "imm8">>, <<"-", "i">>, <<"o16", "e5", "ib,u">>, {"SB"}>>,
  <<"IN", <<"reg_eax", "imm8">>, <<"-", "i">>, <<"o32", "e5", "ib,u">>, {"SB"}>>,
  <<"IN", <<"reg_al", "reg_dx">>, <<"-", "-">>, <<"ec">>, {}>>,
  <<"IN", <<"reg_ax", "reg_dx">>, <<"-", "-">>, <<"o16", "ed">>, {}>>,
  <<"IN", <<"reg_eax", "reg_dx">>, <<"-", "-">>, <<"o32", "ed">>, {}>>,
  <<"INC", <<"reg16">>, <<"r">>, <<"o16", "40+r">>, {}>>,
  <<"INC", <<"reg32">>, <<"r">>, <<"o32", "40+r">>, {}>>,
  <<"INC", <<"rm8">>, <<"m">>, <<"hle", "fe", "/0">>, {}>>,
  <<"INC", <<"rm16">>, <<"m">>, <<"hle", "o16", "ff", "/0">>, {}>>,
  <<"INC", <<"rm32">>, <<"m">>, <<"hle", "o32", "ff", "/0">>, {}>>,
  <<"INT", <<"imm8">>, <<"i">>, <<"cd", "ib,u">>, {"SB"}>>,
  <<"LDS", <<"reg16", "mem">>, <<"r", "m">>, <<"o16", "c5", "/r">>, {}>>,
  <<"LDS", <<"reg32", "mem">>, <<"r", "m">>, <<"o32", "c5", "/r">>, {}>>,
  <<"LEA", <<"reg16", "mem16">>, <<"r", "m">>, <<"o16", "8d", "/r">>, {}>>,
  <<"LEA", <<"reg32", "mem32">>, <<"r", "m">>, <<"o32", "8d", "/r">>, {}>>,
  <<"LODSB", << >>, << >>, <<"ac">>, {}>>,
  <<"MOV", <<"mem", "reg_sreg">>, <<"m", "r">>, <<"8c", "/r">>, {"SW"}>>,
  <<"MOV", <<"reg16", "reg_sreg">>, <<"m", "r">>, <<"o16", "8c", "/r">>, {}>>,
  <<"MOV", <<"reg32", "reg_sreg">>, <<"m", "r">>, <<"o32", "8c", "/r">>, {}>>,
  <<"MOV", <<"reg_sreg", "mem">>, <<"r", "m">>, <<"8e", "/r">>, {"SW"}>>,
  <<"MOV", <<"reg_sreg", "reg16">>, <<"r", "m">>, <<"8e", "/r">>, {"ND"}>>,
  <<"MOV", <<"reg_sreg", "reg32">>, <<"r", "m">>, <<"8e", "/r">>, {"ND"}>>,
  <<"MOV", <<"reg_sreg", "reg16">>, <<"r", "m">>, <<"o16", "8e", "/r">>, {}>>,
  <<"MOV", <<"reg_sreg", "reg32">>, <<"r", "m">>, <<"o32", "8e", "/r">>, {}>>,
  <<"MOV", <<"reg_al", "mem_offs">>, <<"-", "i">>, <<"a0", "iwdq">>, {"SM"}>>,
  <<"MOV", <<"reg_ax", "mem_offs">>, <<"-", "i">>, <<"o16", "a1", "iwdq">>, {"SM"}>>,
  <<"MOV", <<"reg_eax", "mem_offs">>, <<"-", "i">>, <<"o32", "a1", "iwdq">>, {"SM"}>>,
  <<"MOV", <<"mem_offs", "reg_al">>, <<"i", "-">>, <<"a2", "iwdq">>, {"SM"}>>,
  <<"MOV", <<"mem_offs", "reg_ax">>, <<"i", "-">>, <<"o16", "a3", "iwdq">>, {"SM"}>>,
  <<"MOV", <<"mem_offs", "reg_eax">>, <<"i", "-">>, <<"o32", "a3", "iwdq">>, {"SM"}>>,
  <<"MOV", <<"reg32", "reg_creg">>, <<"m", "r">>, <<"rex.l", "0f", "20", "/r">>, {}>>,
  <<"MOV", <<"reg_creg", "reg32">>, <<"r", "m">>, <<"rex.l", "0f", "22", "/r">>, {}>>,
  <<"MOV", <<"mem", "reg8">>, <<"m", "r">>, <<"hlexr", "88", "/r">>, {"SM"}>>,
  <<"MOV", <<"reg8", "reg8">>, <<"m", "r">>, <<"88", "/r">>, {}>>,
  <<"MOV", <<"mem", "reg16">>, <<"m", "r">>, <<"hlexr", "o16", "89", "/r">>, {"SM"}>>,
  <<"MOV", <<"reg16", "reg16">>, <<"m", "r">>, <<"o16", "89", "/r">>, {}>>,
  <<"MOV", <<"mem", "reg32">>, <<"m", "r">>, <<"hlexr", "o32", "89", "/r">>, {"SM"}>>,
  <<"MOV", <<"reg32", "reg32">>, <<"m", "r">>, <<"o32", "89", "/r">>, {}>>,
  <<"MOV", <<"reg8", "mem">>, <<"r", "m">>, <<"8a", "/r">>, {"SM"}>>,
  <<"MOV", <<"reg8", "reg8">>, <<"r", "m">>, <<"8a", "/r">>, {}>>,
  <<"MOV", <<"reg16", "mem">>, <<"r", "m">>, <<"o16", "8b", "/r">>, {"SM"}>>,
  <<"MOV", <<"reg16", "reg16">>, <<"r", "m">>, <<"o16", "8b", "/r">>, {}>>,
  <<"MOV", <<"reg32", "mem">>, <<"r", "m">>, <<"o32", "8b", "/r">>, {"SM"}>>,
  <<"MOV", <<"reg32", "reg32">>, <<"r", "m">>, <<"o32", "8b", "/r">>, {}>>,
  <<"MOV", <<"reg8", "imm">>, <<"r", "i">>, <<"b0+r", "ib">>, {"SM"}>>,
  <<"MOV", <<"reg16", "imm">>, <<"r", "i">>, <<"o16", "b8+r", "iw">>, {"SM"}>>,
  <<"MOV", <<"reg32", "imm">>, <<"r", "i">>, <<"o32", "b8+r", "id">>, {"SM"}>>,
  <<"MOV", <<"rm8", "imm">>, <<"m", "i">>, <<"hlexr", "c6", "/0", "ib">>, {"SM"}>>,
  <<"MOV", <<"rm16", "imm">>, <<"m", "i">>, <<"hlexr", "o16", "c7", "/0", "iw">>, {"SM"}>>,
  <<"MOV", <<"rm32", "imm">>, <<"m", "i">>, <<"hlexr", "o32", "c7", "/0", "id">>, {"SM"}>>,
  <<"MOV", <<"mem", "imm8">>, <<"m", "i">>, <<"hlexr", "c6", "/0", "ib">>, {"SM"}>>,
  <<"MOV", <<"mem", "imm16">>, <<"m", "i">>, <<"hlexr", "o16", "c7", "/0", "iw">>, {"SM"}>>,
  <<"MOV", <<"mem", "imm32">>, <<"m", "i">>, <<"hlexr", "o32", "c7", "/0", "id">>, {"SM"}>>,
  <<"MOVD", <<"mmxreg", "rm32">>, <<"r", "m">>, <<"np", "0f", "6e", "/r">>, {"SD"}>>,
  <<"MOVD", <<"rm32", "mmxreg">>, <<"m", "r">>, <<"np", "0f", "7e", "/r">>, {"SD"}>>,
  <<"MOVSB", << >>, << >>, <<"a4">>, {}>>,
  <<"MOVSD", << >>, << >>, <<"o32", "a5">>, {}>>,
  <<"MOVSW", << >>, << >>, <<"o16", "a5">>, {}>>,
  <<"MOVZX", <<"reg16", "mem">>, <<"r", "m">>, <<"o16", "0f", "b6", "/r">>, {"SB"}>>,
  <<"MOVZX", <<"reg16", "reg8">>, <<"r", "m">>, <<"o16", "0f", "b6", "/r">>, {}>>,
  <<"MOVZX", <<"reg32", "rm8">>, <<"r", "m">>, <<"o32", "0f", "b6", "/r">>, {}>>,
  <<"MOVZX", <<"reg32", "rm16">>, <<"r", "m">>, <<"o32", "0f", "b7", "/r">>, {}>>,
  <<"NOP", << >>, << >>, <<"norexb", "nof3", "90">>, {}>>,
  <<"NOP", <<"rm16">>, <<"m">>, <<"o16", "0f", "1f", "/0">>, {}>>,
  <<"NOP", <<"rm32">>, <<"m">>, <<"o32", "0f", "1f", "/0">>, {}>>,
  <<"OUT", <<"imm", "reg_al">>, <<"i", "-">>, <<"e6", "ib,u">>, {"SB"}>>,
  <<"OUT", <<"imm", "reg_ax">>, <<"i", "-">>, <<"o16", "e7", "ib,u">>, {"SB"}>>,
  <<"OUT", <<"imm", "reg_eax">>, <<"i", "-">>, <<"o32", "e7", "ib,u">>, {"SB"}>>,
  <<"OUT", <<"reg_dx", "reg_al">>, <<"-", "-">>, <<"ee">>, {}>>,
  <<"OUT", <<"reg_dx", "reg_ax">>, <<"-", "-">>, <<"o16", "ef">>, {}>>,
  <<"OUT", <<"reg_dx", "reg_eax">>, <<"-", "-">>, <<"o32", "ef">>, {}>>,
  <<"PADDB", <<"mmxreg", "mmxrm">>, <<"r", "m">>, <<"np", "o64nw", "0f", "fc", "/r">>, {"SQ"}>>,
  <<"PADDSIW", <<"mmxreg", "mmxrm">>, <<"r", "m">>, <<"o64nw", "0f", "51", "/r">>, {"CYRIX", "SQ"}>>,
  <<"PAUSE", << >>, << >>, <<"f3i", "90">>, {}>>,
  <<"PMVZB", <<"mmxreg", "mem">>, <<"r", "m">>, <<"0f", "58", "/r">>, {"CYRIX", "SQ"}>>,
  <<"POP", <<"reg16">>, <<"r">>, <<"o16", "58+r">>, {}>>,
  <<"POP", <<"reg32">>, <<"r">>, <<"o32", "58+r">>, {}>>,
  <<"POP", <<"rm16">>, <<"m">>, <<"o16", "8f", "/0">>, {}>>,
  <<"POP", <<"rm32">>, <<"m">>, <<"o32", "8f", "/0">>, {}>>,
  <<"POP", <<"reg_es">>, <<"-">>, <<"07">>, {}>>,
  <<"POP", <<"reg_fs">>, <<"-">>, <<"0f", "a1">>, {}>>,
  <<"PSLLW", <<"mmxreg", "mmxrm">>, <<"r", "m">>, <<"np", "o64nw", "0f", "f1", "/r">>, {"SQ"}>>,
  <<"PSLLW", <<"mmxreg", "imm">>, <<"m", "i">>, <<"np", "0f", "71", "/6", "ib,u">>, {}>>,
  <<"PUSH", <<"reg16">>, <<"r">>, <<"o16", "50+r">>, {}>>,
  <<"PUSH", <<"reg32">>, <<"r">>, <<"o32", "50+r">>, {}>>,
  <<"PUSH", <<"rm16">>, <<"m">>, <<"o16", "ff", "/6">>, {}>>,
  <<"PUSH", <<"rm32">>, <<"m">>, <<"o32", "ff", "/6">>, {}>>,
  <<"PUSH", <<"reg_es">>, <<"-">>, <<"06">>, {}>>,
  <<"PUSH", <<"reg_fs">>, <<"-">>, <<"0f", "a0">>, {}>>,
  <<"PUSH", <<"imm8">>, <<"i">>, <<"6a", "ib,s">>, {}>>,
  <<"PUSH", <<"imm16">>, <<"i">>, <<"o16", "68", "iw">>, {"AR0", "SIZE"}>>,
  <<"PUSH", <<"imm32">>, <<"i">>, <<"o32", "68", "id">>, {"AR0", "SIZE"}>>,
  <<"PUSH", <<"imm32">>, <<"i">>, <<"o32", "68", "id">>, {"SD"}>>,
  <<"SHL", <<"rm8", "unity">>, <<"m", "-">>, <<"d0", "/4">>, {}>>,
  <<"SHL", <<"rm8", "reg_cl">>, <<"m", "-">>, <<"d2", "/4">>, {}>>,
  <<"SHL", <<"rm8", "imm8">>, <<"m", "i">>, <<"c0", "/4", "ib,u">>, {}>>,
  <<"SHL", <<"rm16", "unity">>, <<"m", "-">>, <<"o16", "d1", "/4">>, {}>>,
  <<"SHL", <<"rm16", "reg_cl">>, <<"m", "-">>, <<"o16", "d3", "/4">>, {}>>,
  <<"SHL", <<"rm16", "imm8">>, <<"m", "i">>, <<"o16", "c1", "/4", "ib,u">>, {}>>,
  <<"SHL", <<"rm32", "unity">>, <<"m", "-">>, <<"o32", "d1", "/4">>, {}>>,
  <<"SHL", <<"rm32", "reg_cl">>, <<"m", "-">>, <<"o32", "d3", "/4">>, {}>>,
  <<"SHL", <<"rm32", "imm8">>, <<"m", "i">>, <<"o32", "c1", "/4", "ib,u">>, {}>>,
  <<"SHLD", <<"mem", "reg16", "imm">>, <<"m", "r", "i">>, <<"o16", "0f", "a4", "/r", "ib,u">>, {"AR2", "SB", "SM2"}>>,
  <<"SHLD", <<"reg16", "reg16", "imm">>, <<"m", "r", "i">>, <<"o16", "0f", "a4", "/r", "ib,u">>, {"AR2", "SB", "SM2"}>>,
  <<"SHLD", <<"mem", "reg32", "imm">>, <<"m", "r", "i">>, <<"o32", "0f", "a4", "/r", "ib,u">>, {"AR2", "SB", "SM2"}>>,
  <<"SHLD", <<"reg32", "reg32", "imm">>, <<"m", "r", "i">>, <<"o32", "0f", "a4", "/r", "ib,u">>, {"AR2", "SB", "SM2"}>>,
  <<"SHLD", <<"mem", "reg16", "reg_cl">>, <<"m", "r", "-">>, <<"o16", "0f", "a5", "/r">>, {"SM"}>>,
  <<"SHLD", <<"reg16", "reg16", "reg_cl">>, <<"m", "r", "-">>, <<"o16", "0f", "a5", "/r">>, {}>>,
  <<"SHLD", <<"mem", "reg32", "reg_cl">>, <<"m", "r", "-">>, <<"o32", "0f", "a5", "/r">>, {"SM"}>>,
  <<"SHLD", <<"reg32", "reg32", "reg_cl">>, <<"m", "r", "-">>, <<"o32", "0f", "a5", "/r">>, {}>>,
  <<"STOSD", << >>, << >>, <<"o32", "ab">>, {}>>,
  <<"TEST", <<"mem", "reg8">>, <<"m", "r">>, <<"84", "/r">>, {"SM"}>>,
  <<"TEST", <<"reg8", "reg8">>, <<"m", "r">>, <<"84", "/r">>, {}>>,
  <<"TEST", <<"mem", "reg16">>, <<"m", "r">>, <<"o16", "85", "/r">>, {"SM"}>>,
  <<"TEST", <<"reg16", "reg16">>, <<"m", "r">>, <<"o16", "85", "/r">>, {}>>,
  <<"TEST", <<"mem", "reg32">>, <<"m", "r">>, <<"o32", "85", "/r">>, {"SM"}>>,
  <<"TEST", <<"reg32", "reg32">>, <<"m", "r">>, <<"o32", "85", "/r">>, {}>>,
  <<"TEST", <<"reg8", "mem">>, <<"r", "m">>, <<"84", "/r">>, {"SM"}>>,
  <<"TEST", <<"reg16", "mem">>, <<"r", "m">>, <<"o16", "85", "/r">>, {"SM"}>>,
  <<"TEST", <<"reg32", "mem">>, <<"r", "m">>, <<"o32", "85", "/r">>, {"SM"}>>,
  <<"TEST", <<"reg_al", "imm">>, <<"-", "i">>, <<"a8", "ib">>, {"SM"}>>,
  <<"TEST", <<"reg_ax", "imm">>, <<"-", "i">>, <<"o16", "a9", "iw">>, {"SM"}>>,
  <<"TEST", <<"reg_eax", "imm">>, <<"-", "i">>, <<"o32", "a9", "id">>, {"SM"}>>,
  <<"TEST", <<"rm8", "imm">>, <<"m", "i">>, <<"f6", "/0", "ib">>, {"SM"}>>,
  <<"TEST", <<"rm16", "imm">>, <<"m", "i">>, <<"o16", "f7", "/0", "iw">>, {"SM"}>>,
  <<"TEST", <<"rm32", "imm">>, <<"m", "i">>, <<"o32", "f7", "/0", "id">>, {"SM"}>>,
  <<"TEST", <<"mem", "imm8">>, <<"m", "i">>, <<"f6", "/0", "ib">>, {"SM"}>>,
  <<"TEST", <<"mem", "imm16">>, <<"m", "i">>, <<"o16", "f7", "/0", "iw">>, {"SM"}>>,
  <<"TEST", <<"mem", "imm32">>, <<"m", "i">>, <<"o32", "f7", "/0", "id">>, {"SM"}>>,
  <<"XCHG", <<"reg_ax", "reg16">>, <<"-", "r">>, <<"o16", "90+r">>, {}>>,
  <<"XCHG", <<"reg16", "reg_ax">>, <<"r", "-">>, <<"o16", "90+r">>, {}>>,
  <<"XCHG", <<"reg_eax", "reg_eax">>, <<"-", "-">>, <<"o32", "90">>, {}>>,
  <<"XCHG", <<"reg8", "mem">>, <<"r", "m">>, <<"hlenl", "86", "/r">>, {"SM"}>>,
  <<"XCHG", <<"reg8", "reg8">>, <<"r", "m">>, <<"86", "/r">>, {}>>,
  <<"XCHG", <<"reg16", "mem">>, <<"r", "m">>, <<"hlenl", "o16", "87", "/r">>, {"SM"}>>,
  <<"XCHG", <<"reg16", "reg16">>, <<"r", "m">>, <<"o16", "87", "/r">>, {}>>,
  <<"XCHG", <<"reg32", "mem">>, <<"r", "m">>, <<"hlenl", "o32", "87", "/r">>, {"SM"}>>,
  <<"XCHG", <<"reg32", "reg32">>, <<"r", "m">>, <<"o32", "87", "/r">>, {}>>,
  <<"XCHG", <<"mem", "reg8">>, <<"m", "r">>, <<"hlenl", "86", "/r">>, {"SM"}>>,
  <<"XCHG", <<"reg8", "reg8">>, <<"m", "r">>, <<"86", "/r">>, {}>>,
  <<"XCHG", <<"mem", "reg16">>, <<"m", "r">>, <<"hlenl", "o16", "87", "/r">>, {"SM"}>>,
  <<"XCHG", <<"reg16", "reg16">>, <<"m", "r">>, <<"o16", "87", "/r">>, {}>>,
  <<"XCHG", <<"mem", "reg32">>, <<"m", "r">>, <<"hlenl", "o32", "87", "/r">>, {"SM"}>>,
  <<"XCHG", <<"reg32", "reg32">>, <<"m", "r">>, <<"o32", "87", "/r">>, {}>>,
  <<"ADDPS", <<"xmmreg", "xmmrm128">>, <<"r", "m">>, <<"np", "0f", "58", "/r">>, {}>>,
  <<"ADDSS", <<"xmmreg", "xmmrm32">>, <<"r", "m">>, <<"f3", "0f", "58", "/r">>, {}>>,
  <<"SQRTPS", <<"xmmreg", "xmmrm128">>, <<"r", "m">>, <<"np", "0f", "51", "/r">>, {}>>,
  <<"PEXTRW", <<"reg32", "mmxreg", "imm">>, <<"r", "m", "i">>, <<"np", "0f", "c5", "/r", "ib,u">>, {"AR2", "SB"}>>,
  <<"MOVD", <<"mem", "xmmreg">>, <<"m", "r">>, <<"66", "norexw", "0f", "7e", "/r">>, {"SD"}>>,
  <<"MOVD", <<"xmmreg", "mem">>, <<"r", "m">>, <<"66", "norexw", "0f", "6e", "/r">>, {"SD"}>>,
  <<"MOVD", <<"xmmreg", "rm32">>, <<"r", "m">>, <<"66", "norexw", "0f", "6e", "/r">>, {}>>,
  <<"MOVD", <<"rm32", "xmmreg">>, <<"m", "r">>, <<"66", "norexw", "0f", "7e", "/r">>, {}>>,
  <<"PADDB", <<"xmmreg", "xmmrm">>, <<"r", "m">>, <<"66", "0f", "fc", "/r">>, {"SO"}>>,
  <<"PEXTRW", <<"reg32", "xmmreg", "imm">>, <<"r", "m", "i">>, <<"66", "0f", "c5", "/r", "ib,u">>, {"AR2", "SB"}>>,
  <<"PSLLW", <<"xmmreg", "xmmrm">>, <<"r", "m">>, <<"66", "0f", "f1", "/r">>, {"SO"}>>,
  <<"PSLLW", <<"xmmreg", "imm">>, <<"m", "i">>, <<"66", "0f", "71", "/6", "ib,u">>, {"AR1", "SB"}>>,
  <<"MOVSD", <<"xmmreg", "xmmrm64">>, <<"r", "m">>, <<"f2", "0f", "10", "/r">>, {}>>,
  <<"MOVSD", <<"xmmrm64", "xmmreg">>, <<"m", "r">>, <<"f2", "0f", "11", "/r">>, {}>>,
  <<"PEXTRW", <<"reg32", "xmmreg", "imm8">>, <<"m", "r", "i">>, <<"66", "0f", "3a", "15", "/r", "ib,u">>, {}>>,
  <<"PEXTRW", <<"mem16", "xmmreg", "imm8">>, <<"m", "r", "i">>, <<"66", "0f", "3a", "15", "/r", "ib,u">>, {}>>>>

-----------------------------------------------------------------------------
(* Texts. *)
R(reg) == [kind |-> "reg", reg |-> reg, to |-> FALSE]
To(reg) == [kind |-> "reg", reg |-> reg, to |-> TRUE]
M(size, terms, num) == [kind |-> "mem", size |-> size, disp_size |-> 0, terms |-> terms, num |-> num]
I(size, num) == [kind |-> "imm", size |-> size, num |-> num]
X(reg, mul) == [reg |-> reg, mul |-> mul]
P(bytes) == Num(FALSE, ZeroExt(bytes))
N(bytes) == Num(TRUE, ZeroExt(bytes))
T(opcode, opnds) == [prefixes |-> << >>, opcode |-> opcode, opnds |-> opnds]
With(prefix, t) == [t EXCEPT !.prefixes = <<prefix>>]

\* Displacements at the ends of a signed byte.
Disps == {P(<< >>), P(<<1>>), P(<<127>>), P(<<128>>), N(<<128>>), N(<<129>>), P(<<0, 1>>), P(<<0, 128>>), P(<<255, 255>>),
          P(<<1, 2, 3, 4>>), N(<<0, 0, 1>>)}
Long == ToSet(nasm_rd_reg32)
Short == ToSet(nasm_rd_reg16)
One == {<<X(r, m)>> : r \in Long, m \in {0, 1, 2, 3, 4, 5, 6, 8, 9}}
Two == {<<X(b, 0), X(i, m)>> : b \in Long, i \in Long, m \in {0, 1, 2, 3, 4, 5, 8}}
Three == {<<X("EAX", 0), X("EBX", 0), X("ECX", 0)>>, <<X("EAX", 0), X("EBX", 0), X("EAX", 0)>>, <<X("ESI", 2), X("ESI", 2), X("EDI", 0)>>,
          <<X("EBX", 2), X("ECX", 0), X("EBX", 0)>>, <<X("EAX", 2), X("EBX", 2)>>, <<X("EDX", 8), X("EBX", 0)>>, <<X("EBX", 1), X("ECX", 0)>>,
          <<X("EAX", 0), X("BX", 0)>>}
Words == {<<X(r, 0)>> : r \in Short} \cup {<<X(r, 0), X(i, 0)>> : r \in Short, i \in Short} \cup {<<X("SI", 2)>>}

Addresses ==
  {T("ADD", <<R("EBX"), M("", b, d)>>) : b \in One \cup {<<X("ESP", 0), X("ESI", 4)>>}, d \in Disps}
  \cup {T("MOV", <<M("", b, d), R("CL")>>) : b \in Two \cup Three, d \in {P(<< >>), N(<<128>>), P(<<128>>)}}
  \cup {T("MOV", <<R("DX"), M("", b, d)>>) : b \in Words, d \in {P(<< >>), P(<<5>>), N(<<128>>), P(<<128>>)}}
  \cup {T("MOV", <<R(r), M("", << >>, d)>>) : r \in {"EAX", "AL", "ECX"}, d \in {P(<<0, 2>>), P(<<0, 0, 0, 128>>)}}
  \cup {With("A16", T("MOV", <<R(r), M("", << >>, P(<<0, 2>>))>>)) : r \in {"EAX", "ECX"}}
  \cup {With("A16", T("MOV", <<R("EAX"), M("", <<X("EBX", 0)>>, P(<< >>))>>))}

Imms == {P(<<1>>), P(<<127>>), N(<<1>>), N(<<128>>)}
Immediates ==
  {T("ADD", <<R(r), I(s, n)>>) : r \in {"EAX", "ECX", "CX", "BH", "AL"}, s \in {"", "8"}, n \in Imms}
  \cup {T("ADD", <<M(s, <<X("EDX", 0)>>, P(<<4>>)), I("", n)>>) : s \in {"8", "16", "32"}, n \in Imms}
  \cup {T("ADD", <<M("", <<X("EDX", 0)>>, P(<<4>>)), I(s, P(<<7>>))>>) : s \in {"", "8", "16", "32"}}
  \cup {T("MOV", <<R(r), I("", P(<<120, 86>>))>>) : r \in {"ESI", "SI"}}
  \cup {T("PUSH", <<I(s, n)>>) : s \in {"", "8", "16", "32"}, n \in {P(<<1>>), N(<<1>>)}}
  \cup {T("IMUL", <<R("EAX"), I(s, P(<<100>>))>>) : s \in {"", "8", "32"}}
  \cup {T("IMUL", <<R("CX"), R("DX"), I("8", N(<<3>>))>>), T("IMUL", <<R("ECX"), M("", <<X("ESI", 4)>>, P(<<8>>)), I("", P(<<3>>))>>),
        T("IMUL", <<M("16", <<X("EAX", 0)>>, P(<< >>))>>), T("IMUL", <<R("EAX"), R("EBX")>>),
        T("IMUL", <<R("EAX"), M("", <<X("EBX", 0)>>, P(<< >>))>>),
        T("TEST", <<R("EAX"), I("", P(<<1, 2, 3, 4>>))>>), T("TEST", <<M("8", <<X("BX", 0)>>, P(<< >>)), I("", P(<<9>>))>>),
        T("TEST", <<R("CX"), I("", P(<<1, 2>>))>>),
        T("SHL", <<R("EDX"), I("", P(<<1>>))>>), T("SHL", <<R("BL"), R("CL")>>), T("SHL", <<M("16", <<X("EAX", 0)>>, P(<< >>)), R("CL")>>),
        T("SHL", <<R("CX"), I("", P(<<3>>))>>), T("SHL", <<R("CX"), I("8", P(<<3>>))>>),
        T("SHLD", <<R("EAX"), R("EBX"), I("", P(<<3>>))>>), T("SHLD", <<M("", <<X("EAX", 0)>>, P(<< >>)), R("BX"), R("CL")>>),
        T("SHLD", <<R("EAX"), R("EBX"), I("8", P(<<3>>))>>),
        T("ENTER", <<I("", P(<<16>>)), I("", P(<<1>>))>>), T("ENTER", <<I("16", P(<<16>>)), I("8", P(<<1>>))>>),
        T("INT", <<I("", P(<<33>>))>>), T("IN", <<R("AL"), I("", P(<<96>>))>>), T("IN", <<R("EAX"), R("DX")>>),
        T("OUT", <<I("", P(<<97>>)), R("AX")>>), T("OUT", <<R("DX"), R("AL")>>)}

Registers ==
  {T("ADD", <<R(a), R(b)>>) : a \in {"AL", "BH"}, b \in {"CL", "DH"}}
  \cup {T("XCHG", <<R(a), R(b)>>) : a \in {"EAX", "ESP"}, b \in {"EAX", "EDI"}}
  \cup {T("XCHG", <<R("AX"), R("DX")>>), T("XCHG", <<R("DX"), R("AX")>>), T("XCHG", <<R("CX"), M("", <<X("ESP", 0)>>, P(<< >>))>>),
        T("XCHG", <<M("", <<X("EBP", 0)>>, P(<< >>)), R("BL")>>),
        T("MOV", <<R("ESI"), R("EBP")>>), T("MOV", <<R("AX"), R("ES")>>), T("MOV", <<R("EAX"), R("FS")>>),
        T("MOV", <<M("", <<X("EAX", 0)>>, P(<< >>)), R("GS")>>), T("MOV", <<R("DS"), R("BX")>>), T("MOV", <<R("SS"), R("EBX")>>),
        T("MOV", <<R("ES"), M("", <<X("EAX", 0)>>, P(<< >>))>>), T("MOV", <<R("AX"), R("EBX")>>), T("MOV", <<R("EAX"), R("CR0")>>),
        T("MOV", <<R("CR3"), R("ECX")>>), T("MOV", <<R("CR8"), R("EAX")>>), T("MOV", <<R("EDX"), R("CR8")>>),
        With("LOCK", T("MOV", <<R("CR8"), R("EAX")>>)),
        T("PUSH", <<R("EBP")>>), T("PUSH", <<R("SI")>>), T("PUSH", <<R("ES")>>), T("POP", <<R("FS")>>), T("POP", <<R("ESP")>>),
        T("PUSH", <<M("16", <<X("ESP", 0)>>, P(<<4>>))>>), T("POP", <<M("", <<X("EBP", 0)>>, P(<< >>))>>), T("PUSH", <<R("BL")>>),
        T("LEA", <<R("EAX"), M("", <<X("EBX", 0), X("ECX", 4)>>, N(<<1>>))>>), T("LEA", <<R("AX"), M("", <<X("BX", 0), X("DI", 0)>>, P(<<9>>))>>),
        T("LDS", <<R("ECX"), M("", <<X("EAX", 0)>>, P(<< >>))>>), T("BSWAP", <<R("EDI")>>), T("INC", <<R("CH")>>), T("INC", <<R("DI")>>),
        T("MOVZX", <<R("AX"), M("", <<X("ESI", 0)>>, P(<< >>))>>), T("MOVZX", <<R("EAX"), M("16", <<X("ESI", 0)>>, P(<< >>))>>),
        T("MOVZX", <<R("EAX"), M("", <<X("ESI", 0)>>, P(<< >>))>>), T("MOVZX", <<R("EAX"), R("BH")>>), T("MOVZX", <<R("BX"), R("BH")>>)}

Prefixed ==
  {With(p, T(o, << >>)) : p \in {"REP", "REPE", "REPNE"}, o \in {"MOVSB", "CMPSB", "STOSD"}}
  \cup {With("LOCK", T("ADD", <<M(s, <<X("EBX", 0)>>, P(<< >>)), I("", P(<<1>>))>>)) : s \in {"8", "32"}}
  \cup {With("A16", T(o, << >>)) : o \in {"LODSB", "CMPSD"}}
  \cup {T(o, << >>) : o \in {"NOP", "PAUSE", "CBW", "CWDE", "MOVSW", "MOVSD", "CMPSD", "LODSB"}}
  \cup {With("LOCK", T("XCHG", <<M("", <<X("BX", 0)>>, P(<< >>)), R("EAX")>>)), T("NOP", <<R("EAX")>>), T("NOP", <<M("16", <<X("EAX", 0)>>, P(<< >>))>>)}

Floating ==
  {T("FADD", <<M(s, <<X("EBP", 0)>>, P(<<8>>))>>) : s \in {"", "32", "64", "80"}}
  \cup {T("FADD", <<R("ST3")>>), T("FADD", <<To("ST3")>>), T("FADD", <<R("ST0"), R("ST2")>>), T("FADD", <<R("ST2"), R("ST0")>>), T("FADD", << >>),
        T("FADD", <<To("ST0"), R("ST2")>>),
        T("FLD", <<M("80", <<X("EAX", 0)>>, P(<< >>))>>), T("FLD", <<R("ST7")>>), T("FLD", << >>), T("FXCH", <<R("ST1")>>), T("FXCH", << >>),
        T("FXCH", <<R("ST0"), R("ST4")>>), T("FSAVE", <<M("", <<X("EDI", 0)>>, P(<< >>))>>), T("FNSAVE", <<M("", <<X("EDI", 0)>>, P(<< >>))>>),
        T("FSTSW", <<R("AX")>>), T("FSTSW", <<M("", <<X("EDI", 0)>>, P(<< >>))>>), T("FNSTSW", <<R("AX")>>), T("FNSTSW", <<M("", <<X("EDI", 0)>>, P(<< >>))>>)}

Vectors ==
  {T("PADDB", <<R(r), M(s, <<X("ECX", 0)>>, P(<<16>>))>>) : r \in {"MM1", "XMM7"}, s \in {"", "64", "128"}}
  \cup {T("PSLLW", <<R(r), I(s, P(<<4>>))>>) : r \in {"MM2", "XMM3"}, s \in {"", "8"}}
  \cup {T("MOVD", <<a, b>>) : a \in {R("MM1"), R("XMM2")}, b \in {R("EDX"), M("", <<X("EDX", 0)>>, P(<< >>)), M("32", <<X("EDX", 0)>>, P(<< >>))}}
  \cup {T("MOVD", <<b, a>>) : a \in {R("MM1"), R("XMM2")}, b \in {R("EDX"), M("", <<X("EDX", 0)>>, P(<< >>)), M("32", <<X("EDX", 0)>>, P(<< >>))}}
  \cup {T("PADDB", <<R("MM0"), R("MM7")>>), T("PADDB", <<R("XMM0"), R("XMM1")>>), T("PADDB", <<R("XMM0"), R("MM1")>>),
        T("PSLLW", <<R("XMM5"), R("XMM6")>>), T("ADDPS", <<R("XMM1"), R("XMM2")>>), 
        T("ADDSS", <<R("XMM1"), R("XMM2")>>), T("ADDSS", <<R("XMM1"), M("32", <<X("EAX", 0)>>, P(<< >>))>>),
        T("MOVSD", <<R("XMM1"), M("64", <<X("EAX", 0)>>, P(<< >>))>>), T("MOVSD", <<M("", <<X("EAX", 0)>>, P(<< >>)), R("XMM1")>>),
        T("MOVSD", <<R("XMM1"), R("XMM3")>>), T("PEXTRW", <<R("EAX"), R("MM3"), I("", P(<<2>>))>>), T("PEXTRW", <<R("EAX"), R("XMM3"), I("", P(<<2>>))>>),
        T("PEXTRW", <<R("EAX"), R("XMM3"), I("8", P(<<2>>))>>), T("PEXTRW", <<M("16", <<X("EAX", 0)>>, P(<< >>)), R("XMM3"), I("8", P(<<2>>))>>)}

AllTexts == Addresses \cup Immediates \cup Registers \cup Prefixed \cup Floating \cup Vectors
Vendors == SUBSET {"CYRIX", "AMD"}

\* Texts of tks/sseTK.xml and templates/unit/SSE/arithmetic/sqrtps.xml.
SharedCodes == {T("SQRTPS", <<R("XMM0"), R("XMM1")>>), T("ADDPS", <<R("XMM1"), M("", <<X("BP", 0)>>, P(<< >>))>>)}
=============================================================================

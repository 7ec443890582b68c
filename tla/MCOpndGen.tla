----------------------------- MODULE MCOpndGen -----------------------------
EXTENDS OpndGen

MCForm(opnds, implied, writes) ==
  [opnds |-> opnds, implied |-> implied, lea |-> << >>, sse |-> FALSE, writes |-> writes,
   values |-> Len(opnds) + Len(implied)]

MCVarTypes == [mem_var |-> "mem", reg_var |-> "reg", imm_var |-> "imm"]

MCForms ==
  {MCForm(<<"reg", "rm">>, << >>, TRUE),                          \* add reg32, rm32
   MCForm(<<"rm">>, <<"A">>, FALSE),                              \* div rm8
   [MCForm(<<"X", "mem">>, << >>, TRUE) EXCEPT !.sse = TRUE],     \* addps xmmreg, mem
   MCForm(<<"C", "imm">>, << >>, TRUE),                           \* mov cx, imm16
   MCForm(<<"offs">>, <<"X">>, FALSE),                            \* fadd memory_offs32
   [MCForm(<< >>, << >>, FALSE) EXCEPT !.lea = <<"S">>],          \* lodsb
   MCForm(<<"mem_var", "reg_var">>, << >>, TRUE),                 \* xadd @mem, @reg
   MCForm(<<"mem_var", "reg">>, << >>, TRUE),                     \* add @mem, reg32
   MCForm(<<"reg_var", "imm_var">>, << >>, TRUE)}                 \* add @reg, @imm
MCVarForms == {MCForm(<<"mem">>, << >>, FALSE), MCForm(<<"mem_var">>, << >>, FALSE)}
MCBesideForms == {MCForm(<<"mem", "reg_var">>, << >>, TRUE)}      \* mov mem32, @reg
MCImpliedForms ==
  {[MCForm(<<"reg">>, <<"D", "A">>, FALSE) EXCEPT !.values = 2],  \* div reg32
   MCForm(<< >>, <<"X", "X">>, FALSE)}                            \* fpatan
MCAlignForms ==
  {MCForm(<<"mem_var">>, << >>, FALSE),                           \* mul @mem
   [MCForm(<<"X", "mem_var">>, << >>, TRUE) EXCEPT !.sse = TRUE]} \* addps xmmreg, @mem
MCSelectForms == {MCForm(<<"reg", "mem">>, << >>, TRUE), MCForm(<<"reg">>, << >>, TRUE)}
=============================================================================

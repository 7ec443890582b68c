CONSTANTS
  Names = {x}
  NoName = NoName
  Kinds <- MostKinds
  Times = {0, 2}
  Combos = 2
  Liberties = {"shadow", "check", "trv", "bare", "I"}
  MaxBlocks = 5
  MaxUntidy = 4
  MaxVars = 2
SPECIFICATION Spec
INVARIANT WalksTheTree
INVARIANT LexicalScope
INVARIANT VariableValues
INVARIANT NoCrash
PROPERTY WalkEnds
CHECK_DEADLOCK FALSE

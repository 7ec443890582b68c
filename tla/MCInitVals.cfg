SPECIFICATION ValuesSpec
CONSTANTS
  Files <- MCFiles
  Operands <- MCOperands
  StackTypes <- MCStackTypes
INVARIANT ValuesInPlace
INVARIANT NothingStale
CHECK_DEADLOCK FALSE

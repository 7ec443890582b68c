CONSTANTS
  TransferTypes <- LoopBlocks
  JumpElems <- BothJumps
  RawPlaces = {"fresh", "block"}
  NamesCX = FALSE
  Times = {2}
  CXSize = 3
  MaxWork = 2
  MaxTransfer = 3
  MaxLikely = 1
SPECIFICATION Spec
INVARIANT TypeOK
INVARIANT LabelsAtTheirPositions
INVARIANT EveryInsnListedOnce
INVARIANT PositionIsAnEntry
INVARIANT ProgramAssembles
INVARIANT NoStrayJump
INVARIANT ExecutesInOrder
INVARIANT ExecutesEverything
PROPERTY Terminates
CHECK_DEADLOCK FALSE

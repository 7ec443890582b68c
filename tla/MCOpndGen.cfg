SPECIFICATION Spec
CONSTANTS
  GPRs = {"A", "C", "S"}
  DrawnRegs = {"A", "C"}
  AddrRegs = {"A", "C", "S"}
  Forms <- MCForms
  VarTypes <- MCVarTypes
  Sections = {1}
  SecSize = 16
  MaxMem = 4
  Align = 4
  Scales = {2}
  Liberties = {}
  MaxElems = 3
INVARIANT AddressesHold
INVARIANT ValuesAtInsn
INVARIANT OwnValue
INVARIANT LocksHold
CHECK_DEADLOCK FALSE

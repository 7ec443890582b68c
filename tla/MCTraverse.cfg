SPECIFICATION Spec
CONSTANTS
  Groups <- MCGroups
  TKs <- MCTKs
  EXPECTED_TRV_NUM = 16
  total_weight = 100
INVARIANT InOrder
INVARIANT SamplesFairly
INVARIANT DrawsFairly
CHECK_DEADLOCK FALSE

CONSTANTS
  Programs <- MCPrograms
  Junk = {1, 3}
SPECIFICATION Spec
INVARIANT Transparent
INVARIANT ReportsExactly
INVARIANT RunsMatch
CHECK_DEADLOCK FALSE

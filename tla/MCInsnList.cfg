CONSTANTS
  Entry = {e1, e2, e3, e4}
  NULL = NULL
  HEAD = HEAD
SPECIFICATION Spec
INVARIANT ListWhole
PROPERTY Implements
PROPERTY ListFreed
CHECK_DEADLOCK FALSE

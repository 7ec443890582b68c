SPECIFICATION Spec
CONSTANTS
  NumKeys = 5
  HASH_INIT_SIZE = 4
  AddsUnchecked = FALSE
  MaxAdds = 6
  MaxFrees = 1
  Hash <- MCHash
INVARIANT TableSound
INVARIANT MemorySafe
INVARIANT FindsWhatWasAdded
CHECK_DEADLOCK FALSE

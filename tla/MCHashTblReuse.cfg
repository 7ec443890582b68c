SPECIFICATION Spec
CONSTANTS
  NumKeys = 5
  HASH_INIT_SIZE = 4
  AddsUnchecked = TRUE
  MaxAdds = 6
  MaxFrees = 1
  Hash <- MCHash
INVARIANT KeysAreKept
CHECK_DEADLOCK FALSE

SPECIFICATION FairSpec
CONSTANTS
  u = u  v = v  w = w
  Value <- MCValue
  Programs <- MCPrograms
INVARIANTS CacheCorrect
PROPERTY QueryReturns
CHECK_DEADLOCK FALSE

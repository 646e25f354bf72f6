SPECIFICATION Spec
CONSTANTS
  i = i  j = j  k = k
  outer = outer  inner = inner  sibling = sibling
  LoopKey = LoopKey  Unroll = Unroll
  Inst = {i, j, k}
  Loop = {outer, inner, sibling}
  Order <- MCOrder
  Depth <- MCDepth
  Functions <- MCFunctions
  MaxRuns = 2
INVARIANTS IteratorsNamed PayloadNamed NoStaleID ChangeReported
PROPERTY ExistingKept
CHECK_DEADLOCK FALSE

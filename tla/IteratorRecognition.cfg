SPECIFICATION Spec
CONSTANTS
  i = i  j = j  k = k  l = l  root = root  h1 = h1  m1 = m1  h2 = h2  m2 = m2
  Block <- MCBlock
  Inst <- MCInst
  Root <- root
  NumLoops = 2
  Functions <- MCFunctions
INVARIANTS
  EdgesMirrored
  AcyclicFromEntry
  IteratorSelfContained
  IteratorDrivesLoop
  LiveOutLeavesLoop
  LiveInIsConsumed
  IteratorValuesAreLive
  PayloadByInstructions
  ReportsTellIterators
CHECK_DEADLOCK FALSE

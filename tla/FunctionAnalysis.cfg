SPECIFICATION FunctionSpec
CONSTANTS
  m = m  p = p  q = q  n = n  mem = mem  reg = reg  NoEdge = NoEdge
  Inst <- MCInst
  Flag <- MCFlag
  Memory <- MCMemory
  Hazard <- MCHazard
  NumLoops = 3
  LoopDepthMin = 1
  LoopDepthMax = 2
  Depth <- MCDepth
  Recognized <- MCRecognized
  Payload <- MCPayload
  RPO <- MCRPO
  Graphs <- MCGraphs
  Variances <- MCVariances
  Settings <- MCSettings
  Commutative = {p}
  Codes <- MCCodes
INVARIANTS VerdictOfWholeChains RemarkNamesUnhandled
PROPERTY FunctionTerminates
CHECK_DEADLOCK FALSE

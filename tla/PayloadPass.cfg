SPECIFICATION FairSpec
CONSTANTS
  a = a  b = b  c = c  mem = mem  reg = reg  NoEdge = NoEdge
  Inst <- MCInst
  Flag <- MCFlag
  Memory <- MCMemory
  Hazard <- MCHazard
  NumLoops = 6
  LoopDepthMin = 1
  LoopDepthMax = 2
  Depth <- MCDepth
  Recognized <- MCRecognized
  Payload <- MCPayload
  RPO <- MCRPO
  Graphs <- MCGraphs
  Variances <- MCVariances
  Settings <- MCSettings
INVARIANTS
  GraphRestored
  UpdatesApplicable
  AnalyzedOnOwnUpdates
  OtherInformationKept
  FilesMatchResults
PROPERTIES
  ImplementsReports
  Terminates
CHECK_DEADLOCK FALSE

SPECIFICATION TrackerSpec
CONSTANTS
  i1 = i1  i2 = i2  i3 = i3  x = x  g = g  root = root  base = base
  Inst <- MCInst
  Root = root
  NumLoops = 3
  Argument = {base}
  Functions <- MCFunctions
INVARIANT AnswerCorrect
PROPERTY QueryReturns
CHECK_DEADLOCK FALSE

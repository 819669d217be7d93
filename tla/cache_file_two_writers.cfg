SPECIFICATION Spec
CONSTANTS
  Procs = {p1, p2}
  Doc <- TwoPages
  NUL = "NUL"
  InitialFiles = {}
  BufSize = 4
  MaxStarts = 2
INVARIANT MarkedIsComplete
CHECK_DEADLOCK FALSE

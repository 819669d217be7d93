SPECIFICATION Spec
CONSTANTS
  Procs = {p1}
  Doc <- ThreePages
  NUL = "NUL"
  InitialFiles <- OldFiles
  BufSize = 1
  MaxStarts = 3
INVARIANTS TypeOK MarkedIsComplete
PROPERTY IsAtomic
CHECK_DEADLOCK FALSE

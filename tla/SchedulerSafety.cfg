SPECIFICATION Spec
CONSTANTS
  d1 = d1
  d2 = d2
  Documents <- TwoDocuments
  AccessTypes <- ReadsAndWrites
  MaxTasks = 4
  MaxWorkers = 2
SYMMETRY DocumentSymmetry
INVARIANTS
  DispatchedInOrder
  CountersExact
  ReadyListSound
  ShutdownDrains
\* The system stops when serve() has returned.
CHECK_DEADLOCK FALSE

SPECIFICATION LoneReadsSpec
CONSTANTS
  d1 = d1
  d2 = d2
  Documents <- TwoDocuments
  AccessTypes <- ReadsAndWrites
  MaxTasks = 4
  MaxWorkers = 2
PROPERTIES
  EveryTaskRuns
  ShutdownEnds
  ImplementsDocumentTasks
\* The system stops when serve() has returned.
CHECK_DEADLOCK FALSE

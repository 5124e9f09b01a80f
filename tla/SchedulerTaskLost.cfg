SPECIFICATION FairSpec
CONSTANTS
  d1 = d1
  d2 = d2
  Documents <- OneDocument
  AccessTypes <- OnlyReads
  MaxTasks = 3
  MaxWorkers = 2
PROPERTY
  EveryTaskRuns
CHECK_DEADLOCK FALSE

SPECIFICATION FairSpec
CONSTANTS
  scheduler = scheduler
  t1 = t1
  t2 = t2
  t3 = t3
  t4 = t4
  Submitters <- OneSubmitter
  Tasks <- FourTasks
  MaxSize = 2
INVARIANT
  StopDrains
PROPERTY
  ImplementsTaskPool
\* The system stops when every task has been submitted and the pool is stopped.
CHECK_DEADLOCK FALSE

SPECIFICATION FairSpec
CONSTANTS
  f0 = f0
  f1 = f1
  Filters <- MCFilters
  NoFilter = f0
  MaxDocuments = 2
  MaxTasks = 4
INVARIANTS DocumentsThere
  AnswersFollowRequests
PROPERTIES EveryRequestAnswered
CHECK_DEADLOCK FALSE

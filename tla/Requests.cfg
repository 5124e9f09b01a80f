SPECIFICATION RequestsSpec
CONSTANTS
  Ids <- MCIds
  MaxRequests = 3
INVARIANTS OnlySharedEntriesDangle AnsweredOnce OnlyFailuresStay CancellationsReachTheirs
CHECK_DEADLOCK FALSE

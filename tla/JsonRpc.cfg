SPECIFICATION FairSpec
CONSTANTS
  Workers <- MCWorkers
  Scripts <- MCScripts
  Outcomes = {"result", "error", "escape"}
  MaxProgress = 1
  stdio = TRUE
INVARIANTS AnswersWhole EachServedOnce
PROPERTIES EveryCallAnswered ExitEndsServer
CHECK_DEADLOCK FALSE

SPECIFICATION Spec
CONSTANTS
  app = app
  tool = tool
  conhost = conhost
  Pids = {1, 2, 3}
  Tids = {1, 2}
  Conhost = conhost
  Sources = {1, 2}
  UserStacks = {11}
  KernelStacks = {21, 22}
  UserKeys = {31}
  KernelKeys = {41}
  Pdbs = {1, 2}
  Partitions <- MCPartitions
  Filters <- MCFilters
  CounterRange = 5
  Scenes <- MCScenes
  Together <- MCTogether
CHECK_DEADLOCK FALSE
INVARIANTS
  SamplesHandedOut
  StacksOfTheirSamples
  SwitchesOfTheirThreads
  ProfiledFamilies
  NamesRecorded

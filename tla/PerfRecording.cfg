SPECIFICATION Spec
CONSTANTS
  app = app
  tool = tool
  plain = plain
  middle = middle
  front = front
  Names = {app, tool}
  Layouts = {plain, middle, front}
  Identifier = front
  Filters <- MCFilters
  Scenes <- MCScenes
SYMMETRY NameSymmetry
CHECK_DEADLOCK FALSE
INVARIANTS
  SamplesHandedOut
  NamesInForce
  SourcesDescribed

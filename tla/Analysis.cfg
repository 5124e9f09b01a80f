SPECIFICATION Spec
CONSTANTS
  m1 = m1
  m2 = m2
  f = f
  g = g
  a = a
  b = b
  NoFile = NoFile
  NumberOfSources = 2
  Frames <- MCFrames
  Resolution <- MCResolution
  MaxSamples = 3
  MaxSize = 6
  Alphabet <- MCAlphabet
  OtherProcess <- MCOtherProcess
  MaxEntries = 2
INVARIANTS TreeOfPrefixes CountersOfFrames FinishedMeansAll AnswersShowAnalysis
CHECK_DEADLOCK FALSE

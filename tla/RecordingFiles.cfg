SPECIFICATION RecordingSpec
CONSTANTS
  NumberOfProcessors = 2
  NumberOfBuffers = 3
  BufferSize = 3
  Words <- MCWords
  Resolution <- MCResolution
  MaxTime = 2
  MaxEvents = 2
  Scenes <- MCScenes
  ChunkSize = 5
  IdChunkSize = 5
  FeatureChunkSize = 2
  EntrySize = 3
  IdSize = 2
  SectionSize = 1
  HeaderSize = 2
  ArchiveSize = 2
INVARIANTS EventsHandedOver ProgressTold
PROPERTIES EndsTidily
CHECK_DEADLOCK FALSE

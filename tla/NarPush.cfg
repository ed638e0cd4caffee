CONSTANTS
  MaxUnits = 5
  ChunkSize = 2
  Window = 2
  NoChunk = NoChunk
SPECIFICATION FairNarSpec
INVARIANTS FinalMeansWhole OffsetsExact
PROPERTIES GoroutinesEnd
CHECK_DEADLOCK FALSE

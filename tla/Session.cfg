CONSTANTS
  Environments <- Sessions
  Minor = 38
  MaxOps = 3
  MaxFrames = 2
  MaxChunks = 2
  MaxPipe = 3
SPECIFICATION FairSessionSpec
INVARIANTS InSync RepliesMatch OneReplyPerOp
PROPERTIES UploadHonest EveryOpAnswered
CHECK_DEADLOCK FALSE

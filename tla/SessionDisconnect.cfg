CONSTANTS
  Environments <- LeavingClient
  Minor = 38
  MaxOps = 3
  MaxFrames = 2
  MaxChunks = 2
  MaxPipe = 3
SPECIFICATION PromptSpec
PROPERTY AbortOnDisconnect
CHECK_DEADLOCK FALSE

CONSTANTS
  Environments <- Peers
  Outputs <- AllOutputs
SPECIFICATION FairWireSpec
INVARIANTS InStep SignaturesSound AnswerTrue AllSigned
PROPERTIES SessionEnds BuilderReturned
CHECK_DEADLOCK FALSE

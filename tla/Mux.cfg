SPECIFICATION Spec
CONSTANTS
  Streams = {1, 2}
  StreamBuffer = 1
  AcceptBuffer = 1
  WireBuffer = 1
  MaxData <- TwoStreams
INVARIANT TypeOK
INVARIANT StreamIntegrity
INVARIANT CompleteAtEOF
INVARIANT NoForgottenStream
CHECK_DEADLOCK FALSE

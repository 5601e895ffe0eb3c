SPECIFICATION FairSpec
CONSTANTS
  Streams = {1}
  StreamBuffer = 1
  AcceptBuffer = 1
  WireBuffer = 1
  MaxData <- OneStream
PROPERTY StreamsEnd
CHECK_DEADLOCK FALSE

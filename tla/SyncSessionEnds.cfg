\* Does a session end?
SPECIFICATION SessionSpec
CONSTANTS
  None = None
  NoLimit = NoLimit
  MaxChanges = 2
  MaxOffset = 3
  InitialOffsets = {0}
  RequestLimit = 1
  UuidSeqs = {1, 9}
  Ends <- BothEnds
  ClientFrames <- Pulls
  ServerFrames <- AnyToClient
  MaxFrames = 0
PROPERTY SessionEnds
CHECK_DEADLOCK FALSE

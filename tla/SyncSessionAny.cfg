\* Either end faces the other one, or a peer that sends anything.
SPECIFICATION SessionSpec
CONSTANTS
  None = None
  NoLimit = NoLimit
  MaxChanges = 2
  MaxOffset = 3
  InitialOffsets = {1}
  RequestLimit = 1
  UuidSeqs = {1, 9}
  Ends <- AllEnds
  ClientFrames <- AnyToServer
  ServerFrames <- AnyToClient
  MaxFrames = 2
INVARIANTS AckMeansRecorded FinalIsComplete
  ResumePointSound SynchronizedOnlyWhenEnded
PROPERTIES EndsReturn
CHECK_DEADLOCK FALSE

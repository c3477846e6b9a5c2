SPECIFICATION FairSpec
CONSTANTS
  Full = 4
  MaxVals = 2
  MinDone = 4
  Frame = 2
  ReadSize = 3
  PreSkip = 1
  MinFrames = 1
  MaxStarts = 2
  MaxStops = 2
  MaxReads = 2
  MaxFails = 1
INVARIANTS TypeOK SentAsSpoken SentAsAsked FileIsAStream
PROPERTIES StopIsAnswered
CHECK_DEADLOCK FALSE

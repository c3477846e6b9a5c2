SPECIFICATION Spec
CONSTANTS
  Full = 2
  MaxVals = 2
  MinDone = 1
  Fill = 2
  Sizes = {0, 1, 3, 4}
  MaxPackets = 3
  MaxFaults = 1
  MaxSeeks = 1
  ReadSize = 1
INVARIANTS TypeOK PacketsAreWhole HolesAreReported OnlyDamagedIsLost
CHECK_DEADLOCK FALSE

SPECIFICATION FairSpec
CONSTANTS
  Buffers = 3
  Capacity = 2
  Total <- Lengths
  MaxNotes = 2
  MaxPlays = 2
  MaxSeeks = 2
  MaxPauses = 1
  MaxActs = 5
INVARIANTS TypeOK BuffersAreKept HeardInOrder
PROPERTIES PlayingEnds
CHECK_DEADLOCK FALSE

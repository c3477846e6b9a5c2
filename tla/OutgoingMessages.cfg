SPECIFICATION FairSpec
CONSTANTS
  MaxMsg = 2
  Text = {1}
  MaxLosses = 1
  MaxOpens = 2
  MaxEvents = 3
INVARIANTS TypeOK StatesAreEarned UnsentHasSender ResentOncePerSession
PROPERTIES UnsentIsDealtWith
CHECK_DEADLOCK FALSE

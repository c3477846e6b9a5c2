SPECIFICATION Spec
CONSTANTS
  Thread = {s, r}
  Base = 0
  MaxIds = 3
  MaxTasks = 2
  MaxKills = 1
  MaxLogouts = 1
SYMMETRY ThreadSymmetry
INVARIANTS TypeOK IdsInFlightDiffer ReceivedIdsAreSpent SameUserAfterRestart
PROPERTY SavedNeverGoesBack
CHECK_DEADLOCK FALSE

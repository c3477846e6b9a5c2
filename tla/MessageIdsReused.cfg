SPECIFICATION Spec
CONSTANTS
  Thread = {s, r}
  Base = 0
  MaxIds = 3
  MaxTasks = 2
  MaxKills = 1
  MaxLogouts = 0
SYMMETRY ThreadSymmetry
INVARIANT NoIdIsUsedTwice
CHECK_DEADLOCK FALSE

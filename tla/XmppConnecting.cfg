SPECIFICATION Spec
CONSTANTS
  Conn = {c1, c2}
  NoConn = NoConn
  Networks = {wifi}
  NoNetwork = NoNetwork
  LoginOnConnect = TRUE
  MaxListeners = 2
  MaxTasks = 2
  MaxDelayed = 2
  MaxRestarts = 1
SYMMETRY ConnSymmetry
INVARIANT ConnectingIsDialling
CHECK_DEADLOCK FALSE

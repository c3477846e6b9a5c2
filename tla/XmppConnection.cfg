SPECIFICATION FairSpec
CONSTANTS
  Conn = {c1, c2}
  NoConn = NoConn
  Networks = {wifi}
  NoNetwork = NoNetwork
  LoginOnConnect = TRUE
  MaxListeners = 2
  MaxTasks = 1
  MaxDelayed = 2
  MaxRestarts = 1
INVARIANTS TypeOK OnlineIsWatched OnlineOnlyBesideRelogin WaitingIsNotForgotten
PROPERTIES RetryOrGiveUp LossLeadsToDial
CHECK_DEADLOCK FALSE

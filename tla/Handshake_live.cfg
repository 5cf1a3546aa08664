SPECIFICATION FairSpec
CONSTANTS
  Addrs = {"a", "b"}
  MTUSizes <- MCMTUSizes
  TriesPerSize = 2
  Outdated = {}
  HostOf <- OwnHosts
  Workers = {1}
  IncomingSize = 1
  MinMTU = 576
  MaxMTU = 1200
  DisableCookies = FALSE
  Blocking = TRUE
  FilterMayFail = FALSE
  MaxConns = 3
  MaxRotations = 2
  LossyTypes = {"Request1", "Reply1", "Request2", "Disconnect"}
  MaxLosses = 1
  MaxDuplicates = 0
  SlowNetwork = FALSE
  MaxPending = 0
  DialsMayTimeOut = FALSE
  MayClose = FALSE
CHECK_DEADLOCK FALSE
PROPERTIES
  DialsFinish
  ConnectedIsAccepted

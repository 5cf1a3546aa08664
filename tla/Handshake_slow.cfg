SPECIFICATION FairSpec
CONSTANTS
  Addrs = {"a"}
  MTUSizes <- FirstSize
  TriesPerSize = 2
  Outdated = {}
  HostOf <- OwnHosts
  Workers = {1, 2}
  IncomingSize = 1
  MinMTU = 576
  MaxMTU = 1200
  DisableCookies = TRUE
  Blocking = TRUE
  FilterMayFail = TRUE
  MaxConns = 2
  MaxRotations = 0
  LossyTypes = {}
  MaxLosses = 0
  MaxDuplicates = 1
  SlowNetwork = TRUE
  MaxPending = 1
  DialsMayTimeOut = TRUE
  MayClose = FALSE
CHECK_DEADLOCK FALSE
INVARIANTS AcceptedOnce AcceptedAreConnected MapHoldsOpenConns
PROPERTIES
  ConnsSettle

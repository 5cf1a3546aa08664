SPECIFICATION FairSpec
CONSTANTS
  IndexSpace = 16
  SplitSpace = 16
  EffectiveMTU = 40
  Lengths = {10}
  WriteKinds = {"ReliableOrdered"}
  MaxNackQueueSize = 1
  NackBudgetPerSecond = 2
  ListenerMayClose = FALSE
  MaxBudget = 1
  MaxWrites = 2
  MaxSeq = 6
  LimitsEnabled = FALSE
  MaxWindowSize = 2
  MaxSplitCount = 8
  MaxConcurrentSplits = 2
  MaxLosses = 1
  SpuriousTimeouts = FALSE
PROPERTIES EventuallyDelivered EventuallyAcknowledged
CHECK_DEADLOCK FALSE

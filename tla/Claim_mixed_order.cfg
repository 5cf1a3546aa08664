SPECIFICATION FairSpec
CONSTANTS
  IndexSpace = 16
  SplitSpace = 16
  EffectiveMTU = 40
  Lengths = {10}
  WriteKinds = {"ReliableSequenced","ReliableOrdered"}
  MaxNackQueueSize = 2
  NackBudgetPerSecond = 2
  ListenerMayClose = FALSE
  MaxBudget = 1
  MaxWrites = 2
  MaxSeq = 6
  LimitsEnabled = FALSE
  MaxWindowSize = 2
  MaxSplitCount = 8
  MaxConcurrentSplits = 2
  MaxLosses = 0
  SpuriousTimeouts = FALSE
PROPERTIES EventuallyDelivered
CHECK_DEADLOCK FALSE

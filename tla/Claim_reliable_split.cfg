SPECIFICATION Spec
CONSTANTS
  IndexSpace = 16
  SplitSpace = 16
  EffectiveMTU = 40
  Lengths = {30}
  WriteKinds = {"Reliable"}
  MaxNackQueueSize = 2
  NackBudgetPerSecond = 2
  ListenerMayClose = FALSE
  MaxBudget = 1
  MaxWrites = 1
  MaxSeq = 4
  LimitsEnabled = FALSE
  MaxWindowSize = 2
  MaxSplitCount = 8
  MaxConcurrentSplits = 2
  MaxLosses = 0
  SpuriousTimeouts = TRUE
INVARIANT ReliableNotDuplicated
CHECK_DEADLOCK FALSE

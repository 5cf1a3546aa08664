SPECIFICATION Spec
CONSTANTS
  IndexSpace = 4
  SplitSpace = 16
  EffectiveMTU = 40
  Lengths = {10}
  WriteKinds = {"UnreliableSequenced"}
  MaxNackQueueSize = 2
  NackBudgetPerSecond = 2
  ListenerMayClose = FALSE
  MaxBudget = 1
  MaxWrites = 4
  MaxSeq = 4
  LimitsEnabled = FALSE
  MaxWindowSize = 2
  MaxSplitCount = 8
  MaxConcurrentSplits = 2
  MaxLosses = 0
  SpuriousTimeouts = TRUE
INVARIANT SequenceSpaceIsCircular
CHECK_DEADLOCK FALSE

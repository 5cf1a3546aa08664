SPECIFICATION Spec
CONSTANTS
  IndexSpace = 16
  SplitSpace = 16
  EffectiveMTU = 40
  Lengths = {10, 30}
  WriteKinds = {"Unreliable", "UnreliableSequenced", "Reliable", "ReliableSequenced"}
  MaxNackQueueSize = 2
  NackBudgetPerSecond = 2
  ListenerMayClose = TRUE
  MaxBudget = 1
  MaxWrites = 2
  MaxSeq = 3
  LimitsEnabled = TRUE
  MaxWindowSize = 2
  MaxSplitCount = 8
  MaxConcurrentSplits = 0
  MaxLosses = 0
  SpuriousTimeouts = TRUE
INVARIANTS ReliableOnce SequencedInOrder LimitsRespected NothingForgotten
CHECK_DEADLOCK FALSE

SPECIFICATION Spec
CONSTANTS
  IndexSpace = 16
  SplitSpace = 16
  EffectiveMTU = 40
  Lengths = {10, 30}
  WriteKinds = {"ReliableOrdered"}
  MaxNackQueueSize = 2
  NackBudgetPerSecond = 2
  ListenerMayClose = FALSE
  MaxBudget = 1
  MaxWrites = 3
  MaxSeq = 3
  LimitsEnabled = TRUE
  MaxWindowSize = 2
  MaxSplitCount = 8
  MaxConcurrentSplits = 1
  MaxLosses = 0
  SpuriousTimeouts = TRUE
INVARIANTS TypeInv OrderedDelivery NothingForgotten SingleOwner NackQueueConsistent NoOvertaking AcksWereReceived LimitsRespected
PROPERTIES ImplementsChannel WindowsAdvance
CHECK_DEADLOCK FALSE

SPECIFICATION Spec
CONSTANTS
  IndexSpace = 16
  MTU = 12
  AckMTU = 11
  MaxAcknowledgementPackets = 4
  CwndMin = 2
  CwndMaxThreshold = 3
  CwndOffset = 2
  Syn = 1
  DefaultRtt = 5
  DefaultSnd = 2
  SndCap = 3
  IntervalSize = 2
  IdleCap = 30
  Kinds = {"UDT", "SlidingWindow"}
  Writes <- MCWrites
  Elapsed = {3, 36}
  RoundTrips = {10, 20}
  MaxNackQueueSize = 1
  ReusedIndices = {1}
  RacedNumbers = {1}
  MaxWrites = 2
  MaxSeq = 4
INVARIANTS TypeOK InFlightExact SlowStartWindowKept NeverStarved BlocksFollowSeq AcknowledgementIntact CalledOnce
CHECK_DEADLOCK FALSE

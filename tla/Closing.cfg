SPECIFICATION FairSpec
CONSTANTS
  Sides = {"dialer", "listener"}
  Budgets = {0, 1}
  MaxWrites = 1
INVARIANTS TypeOK GraceKept PoolUnused
PROPERTIES CloseEnds SilenceEnds
CHECK_DEADLOCK FALSE

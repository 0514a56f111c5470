SPECIFICATION Spec
CONSTANTS
  Chunks = {1, 2}
  Peers = {1, 2}
  Bins = {1}
  MaxBinId = 3
  Cfg <- PRODUCTION
  Radius = 1
  Cumulative = TRUE
  WindowCap = 1
  Reserve0 <- OneBin
  Landing = {}
  Bad = {2}
  Page = 2
  MaxMiss = 0
  MaxUnder = 1
  MaxGone = 1
  MaxTick = 1
  MaxEvict = 1
  MaxAssigned = 3
INVARIANTS
  MachineSafe SettleBeforeForget LeaseBacked
PROPERTIES
  ImplementsExactlyOnce
CHECK_DEADLOCK FALSE

SPECIFICATION Spec
CONSTANTS
  Chunks = {1, 2, 3, 4}
  Peers = {1, 2}
  Bins = {1}
  MaxBinId = 5
  Cfg <- PRODUCTION
  Radius = 1
  Cumulative = TRUE
  WindowCap = 2
  Reserve0 <- FullPages
  Landing = {}
  Bad = {}
  Page = 2
  MaxFail = 0
  MaxUnder = 0
  MaxDrop = 0
  MaxClose = 0
  MaxAbandon = 0
  MaxEvict = 0
  MaxAssigned = 20
INVARIANTS
  HonestNeverBarred
CHECK_DEADLOCK FALSE

SPECIFICATION Spec
CONSTANTS
  Chunks = {1, 2, 3, 4}
  Peers = {1, 2}
  Bins = {0, 1, 2}
  MaxBinId = 5
  Cfg <- PRODUCTION
  Radius = 1
  Cumulative = TRUE
  WindowCap = 2
  Reserve0 <- TwoPages
  Landing <- Upload
  Bad = {2}
  Page = 2
  MaxFail = 2
  MaxUnder = 1
  MaxDrop = 1
  MaxClose = 1
  MaxAbandon = 1
  MaxEvict = 1
  MaxAssigned = 10
INVARIANTS
  DurableSettled LeasesMatch QuiescentConverged
PROPERTIES
  Terminates
CHECK_DEADLOCK FALSE

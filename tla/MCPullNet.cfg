SPECIFICATION Spec
CONSTANTS
  Chunks = {1, 2, 3}
  Peers = {1, 2}
  Bins = {0, 1, 2}
  MaxBinId = 3
  Cfg <- PRODUCTION
  Radius = 1
  Cumulative = TRUE
  WindowCap = 1
  Reserve0 <- CrossFiled
  Landing <- OneUpload
  Bad = {2}
  Page = 1
  MaxMiss = 2
  MaxUnder = 1
  MaxGone = 0
  MaxTick = 0
  MaxEvict = 0
  MaxAssigned = 9
INVARIANTS
  SettleBeforeForget DeliveryLeased OneOffer WorkingSetWindowed
PROPERTIES
  Converges
CHECK_DEADLOCK FALSE

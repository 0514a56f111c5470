SPECIFICATION WorldSpec
CONSTANTS
  Chunks = {1, 2, 4}
  Peers = {1, 2, 3, 4}
  Depths = {1, 2, 4}
  Configs <- Prod
  Holds <- Storm
  Byzantine = {4}
  LiveChunks = {4}
  PrioOf <- StormPrio
  AssignOf <- NoAssign
  TimeoutBudget = 1
  ChurnBudget = 1
INVARIANTS
  NoFalseExclusion
  NeverStranded
PROPERTIES
  Completes
CHECK_DEADLOCK FALSE

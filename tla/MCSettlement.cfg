SPECIFICATION Spec
CONSTANTS
  Triples = {t1, t2}
  MaxBinId = 4
INVARIANTS
  NoDrop WindowComplete AdvanceIsLoop
PROPERTIES
  Monotone

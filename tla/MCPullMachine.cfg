SPECIFICATION Spec
CONSTANTS
  Chunks = {c1, c2}
  Peers = {p1, p2}
  Depths = {0, 1}
  Configs <- ProductionOnly
INVARIANTS
  TypeOK ConflictFree DeliveryFloor LeaseSafe
PROPERTIES
  BarsStick
  ForgetNeutral
  ImplementsExactlyOnce

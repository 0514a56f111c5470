SPECIFICATION Spec
CONSTANTS
  bn = bn  near = near  far = far
  a1 = a1  a2 = a2  a3 = a3  a4 = a4
  None = None
  Peers = {bn, near, far}
  OverlayOf <- Overlays
  PeerAt <- Addresses
  AddressBits = 3
  Nonces <- OurNonces
  GrindBits = 1
  Radius = 1
  Depths = {1, 2}
  Pushes <- AllPushes
  MaxPushes = 2
  MaxTries = 2
  MaxBatch = 2
  NodePeerMax = 2
  Apex <- TheApex
  Zones <- AllZones
  NoDomain = ""
  Unparseable = {a3}
  WebSocket = {a2}
  MaxDepth = 3
INVARIANTS
  ResolvesReachable
  SupplyExact
  NumbersRoute
PROPERTIES
  DirectKept
  Reports
  ImplementsNeighbourhood
CHECK_DEADLOCK FALSE

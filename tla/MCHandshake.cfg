SPECIFICATION Spec
CONSTANTS
  Nets = {1, 2}
  NoNet = 0
  FrameLen = 3
INVARIANTS
  VerifiedPeer Agreement
PROPERTIES
  BothReturn
CHECK_DEADLOCK FALSE

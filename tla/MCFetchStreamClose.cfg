SPECIFICATION Spec
CONSTANTS
  own = own  other = other
  batch1 = batch1  batch2 = batch2
  p1 = p1  p2 = p2  p3 = p3
  Nobody = Nobody
  None = None
  Garbled = Garbled
  ByteBits = 2
  Entries <- AllEntries
  Codecs <- TheCodecs
  Wants <- AllWants
  Reserves <- SomeReserves
  RogueOffers <- OddOffers
  Forgeries <- Mixtures
  Page = 3
  Zero = Zero
  MaxAhead = 1
  Faults = TRUE
INVARIANTS
  DoneReportsAll
CHECK_DEADLOCK FALSE

SPECIFICATION FairSpec
CONSTANTS
  m1 = m1
  m2 = m2
  m3 = m3
  m4 = m4
  m5 = m5
  NoPage = NoPage
  Msg <- MCMsg
  Ts <- MCTs
  Count = 1
  MaxStores = 2
  MaxCrashes = 1
  MaxFaults = 1
INVARIANTS NoGapBehind DoneMeansDelivered
PROPERTIES LossOnlyAtEdge BackfillFinishes
CHECK_DEADLOCK FALSE

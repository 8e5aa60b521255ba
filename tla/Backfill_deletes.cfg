SPECIFICATION Spec
CONSTANTS
  m1 = m1
  m2 = m2
  m3 = m3
  m4 = m4
  m5 = m5
  NoPage = NoPage
  Msg <- MCMsg
  Ts <- MCTs
  Count = 2
  MaxStores = 1
  MaxCrashes = 0
  MaxFaults = 0
PROPERTY DeletesOnlyBackfilled
CHECK_DEADLOCK FALSE

SPECIFICATION Spec
CONSTANTS
  c1 = c1
  c2 = c2
  p1 = p1
  p3 = p3
  None = None
  Chat <- MCChat
  Payload <- MCTwoPayload
  ConvsOf <- MCTwoConvsOf
  Resetting <- MCTwoResetting
  Ignored = {}
  Unbridged = {}
  Round = {r1, r2}
  ManualDownload = TRUE
  QueueReadFails = TRUE
  Limit <- MCNoLimit
  InboxCap = 1
  MaxRateLimits = 0
  MaxFaults = 1
  MaxStops = 1
INVARIANTS NoLostDispatch QueueNeverSleeps WaitGroupCounts
PROPERTIES FlagOutlivesRound ImportsAtomically
CHECK_DEADLOCK FALSE

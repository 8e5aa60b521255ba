SPECIFICATION Spec
CONSTANTS
  c1 = c1
  c2 = c2
  p1 = p1
  p3 = p3
  None = None
  Chat <- MCChat
  Payload <- MCTwoPayload
  ConvsOf <- MCTwoConvsOf
  Resetting <- MCTwoResetting
  Ignored = {}
  Unbridged = {c2}
  Round = {r1, r2}
  ManualDownload = FALSE
  QueueReadFails = FALSE
  Limit = 1
  InboxCap = 1
  MaxRateLimits = 1
  MaxFaults = 1
  MaxStops = 1
INVARIANT NoLostDispatch
CHECK_DEADLOCK FALSE

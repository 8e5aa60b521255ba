SPECIFICATION FairSpec
CONSTANTS
  Reader = {r1, r2}
  Path = {p1, p2}
  NoPath = NoPath
  AutoRequest = TRUE
  EventLoop = EventLoop
  Nobody = Nobody
  MaxTroubles = 1
INVARIANTS OneRequest NoLostAnswer PublishedIsSaved
PROPERTY ReadersFinish

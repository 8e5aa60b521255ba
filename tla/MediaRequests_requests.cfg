SPECIFICATION FairSpec
CONSTANTS
  Msg = {m1, m2}
  Methods = {"immediate", "local_time"}
  Worker = {Loop, w1}
  Loop = Loop
  MaxAsync = 1
  MaxConnects = 2
  MaxTroubles = 1
INVARIANTS NothingForgotten RequestedOnce
PROPERTIES  NightlyRequests AnswersHandled
CHECK_DEADLOCK FALSE

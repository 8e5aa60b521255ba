SPECIFICATION FairSpec
CONSTANTS
  Intervals = 2
  Codes = 2
  Prompt = TRUE
  Loops = {l1, l2}
  NoLoops = NoLoops
  MaxEvents = 2
INVARIANTS OutcomeIsReal LoopsOwned ShownIsTrue
PROPERTIES CodesAdvance LoginEnds
CHECK_DEADLOCK FALSE

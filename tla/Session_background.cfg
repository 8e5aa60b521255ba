SPECIFICATION Spec
CONSTANTS
  Intervals = 2
  Codes = 2
  Prompt = TRUE
  Loops = {l1, l2}
  NoLoops = NoLoops
  MaxEvents = 2
PROPERTY BackgroundAnswers
CHECK_DEADLOCK FALSE

SPECIFICATION FairSpec
CONSTANTS
  IsDefaultSubGroup = FALSE
  MaxTopic = 3
  MaxFaults = 1
  MaxUpsets = 2
  Again = {"topic"}
INVARIANT CreatedForRoom
PROPERTIES  NoTopicOverwritten
CHECK_DEADLOCK FALSE

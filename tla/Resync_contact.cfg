SPECIFICATION FairSpec
CONSTANTS
  PN = PN
  LID = LID
  Unset = Unset
  MaxName = 1
  MaxPic = 1
  MaxChanges = 1
  MaxFaults = 1
PROPERTIES NamesSettle AvatarsSettle
CHECK_DEADLOCK FALSE

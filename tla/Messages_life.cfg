SPECIFICATION Spec
CONSTANTS
  Person = {Me, peer}
  Me = Me
  Bot = Bot
  Group = Group
  Login = {MyLogin, other}
  MyLogin = MyLogin
  NEdits = 2
INVARIANTS FiledOnce TargetsFound PlaceholderResolves OldMediaRetryable RevokedIsGone ReferencesArrive QuotesAndReceiptsFind OneReactionSender
PROPERTY NoUndo
CONSTRAINT Filed
CHECK_DEADLOCK FALSE

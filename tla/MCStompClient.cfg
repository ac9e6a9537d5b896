CONSTANTS
  None = None
  a = a
  Channels = {a}
  MaxLogins = 2
  MaxCommands = 5
  MaxEvents = 2
  MaxMessages = 1
SPECIFICATION FairSpec
INVARIANTS TypeOK ReceiptsMatch SubscriptionsAgree NothingLeft EndsForAReason
PROPERTIES LogoutEnds
\* the user may type nothing more
CHECK_DEADLOCK FALSE

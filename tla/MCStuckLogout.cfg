CONSTANTS
  None = None
  a = a
  Channels = {a}
  MaxLogins = 2
  MaxCommands = 5
  MaxEvents = 2
  MaxMessages = 1
SPECIFICATION FairSpec
PROPERTIES LogoutAnswered
\* the user may type nothing more
CHECK_DEADLOCK FALSE

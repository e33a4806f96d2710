SPECIFICATION Safety
CONSTANTS
  Providers = {a}
  Nameless = {}
  MaxQueued = 3
  MaxMessages = 2
  MaxChats = 1
  MaxDrops = 1
  MaxUpsets = 0
  MaxMoves = 0
INVARIANT StartStillComing
\* Every message has been sent, every drop and upset used up.
CHECK_DEADLOCK FALSE

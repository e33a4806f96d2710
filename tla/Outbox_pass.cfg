SPECIFICATION Spec
CONSTANTS
  Providers = {a, b}
  Nameless = {b}
  MaxQueued = 3
  MaxMessages = 2
  MaxChats = 2
  MaxDrops = 1
  MaxUpsets = 1
  MaxMoves = 1
INVARIANTS TypeOK HeardOnceAtHome InOrder OutboxKeeps RowFindable
PROPERTY WaitingGoesOut
\* Every message has been sent, every drop and upset used up.
CHECK_DEADLOCK FALSE

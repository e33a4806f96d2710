SPECIFICATION Spec
CONSTANTS
  Phones = {p, q}
  MaxSends = 2
  MaxPipe = 1
  MaxDrops = 1
INVARIANTS TypeOK FramesOpen
PROPERTY NoneStaysDeaf
\* Every frame has been delivered, every drop used up.
CHECK_DEADLOCK FALSE

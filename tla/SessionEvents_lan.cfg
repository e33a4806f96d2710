SPECIFICATION Spec
CONSTANTS
  Phones = {p, q}
  MaxEvents = 5
  Keep = 2
  Slack = 1
  BatchSize = 2
  MaxDrops = 2
  RelayRoom = FALSE
  PromptsEarly = FALSE
  DropsEarly = FALSE
INVARIANTS TypeOK NoGap ShownOnce
PROPERTY CatchesUp
\* Every event has been logged and delivered, every drop used up.
CHECK_DEADLOCK FALSE

SPECIFICATION Safety
CONSTANTS
  Phones = {p}
  MaxEvents = 3
  Keep = 10
  Slack = 1
  BatchSize = 2
  MaxDrops = 1
  RelayRoom = TRUE
  PromptsEarly = FALSE
  DropsEarly = FALSE
INVARIANT NoGap
\* Every event has been logged and delivered, every drop used up.
CHECK_DEADLOCK FALSE

SPECIFICATION Safety
CONSTANTS
  Msgs = {a, b, f, l}
  Late = {l}
  Files = {f}
  GGQueue = TRUE
  DiskMayFail = TRUE
  AgentMayFail = TRUE
  MaxStops = 1
  MaxControls = 0
INVARIANTS NeverReadTwice NothingLost HeardIsShown OneTurnAtATime
PROPERTY WithdrawalIsHonest
\* A conversation whose users have nothing left to say may rest.
CHECK_DEADLOCK FALSE

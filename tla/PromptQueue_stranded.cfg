SPECIFICATION Safety
CONSTANTS
  Msgs = {a, f}
  Late = {}
  Files = {f}
  GGQueue = FALSE
  DiskMayFail = TRUE
  AgentMayFail = FALSE
  MaxStops = 0
  MaxControls = 0
INVARIANT NeverStranded
\* A conversation whose users have nothing left to say may rest.
CHECK_DEADLOCK FALSE

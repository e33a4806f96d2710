SPECIFICATION Spec
CONSTANTS
  Msgs = {a, b, f}
  Late = {}
  Files = {f}
  GGQueue = FALSE
  DiskMayFail = FALSE
  AgentMayFail = TRUE
  MaxStops = 2
  MaxControls = 1
INVARIANTS NeverStranded OneFate
PROPERTIES RefinesMessageFate NoneWaitsForEver
\* A conversation whose users have nothing left to say may rest.
CHECK_DEADLOCK FALSE

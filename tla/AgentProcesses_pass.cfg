SPECIFICATION Spec
CONSTANTS
  Home = home
  Projects = {proj}
  MaxLive = 1
  MaxSpares = 1
  MaxOpens = 3
  MaxEvents = 3
INVARIANTS TypeOK OneHolder RightDirectory ProbeKeepsItsProcess NoneLeftRunning
PROPERTY OpensSettle
\* Every conversation is open or closed, every bound used up.
CHECK_DEADLOCK FALSE

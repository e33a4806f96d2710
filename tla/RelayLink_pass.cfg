SPECIFICATION Spec
CONSTANTS
  Daemons = {a, b}
  MaxSockets = 2
  MaxRekeys = 1
  MaxUpsets = 2
INVARIANTS OneSocket HoldsOn
PROPERTIES OnlyTheKeyReplaces NoEvictionWar SomeoneServes
\* Connected daemons have nothing to do: their keepalives change no state.
CHECK_DEADLOCK FALSE

SPECIFICATION Safety
CONSTANTS
  Phones = {p, q}
  Placeholder = placeholder
  Guests = {watcher}
  Nobody = nobody
  FirstClaims = {nobody, placeholder}
  MaxRotations = 1
  MaxUpsets = 1
  MaxPushes = 1
  MaxReloadFailures = 1
INVARIANT NeverResurrected
CHECK_DEADLOCK FALSE

SPECIFICATION Spec
CONSTANTS
  Phones = {p, q}
  Placeholder = placeholder
  Guests = {watcher}
  Nobody = nobody
  FirstClaims = {nobody, placeholder}
  MaxRotations = 1
  MaxUpsets = 1
  MaxPushes = 1
  MaxReloadFailures = 1
INVARIANTS TypeOK OneOwner LinkAdmitsOne ClaimIsEarned BannersStayInside
PROPERTIES FollowsFile PhonesRemembered
CHECK_DEADLOCK FALSE

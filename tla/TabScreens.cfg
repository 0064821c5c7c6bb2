SPECIFICATION Spec
CONSTANTS
  Tab = {p, q}
  MaxSessions = 2
  Timeout = 1
  MaxOps = 3
  MaxSame = 1
  Operations = {"unlock", "lock", "refresh", "change", "regenerate", "reload"}
  Background = {}
  Keep = Keep
SYMMETRY Symmetry
INVARIANTS
  LockingMeansGone
  ScreenFollowsKey
CHECK_DEADLOCK FALSE

SPECIFICATION FairSpec
CONSTANTS
  Tab = {p}
  MaxSessions = 2
  Timeout = 2
  MaxOps = 2
  MaxSame = 1
  Operations = {"unlock", "change"}
  Background = {"touch", "heartbeat"}
  Keep = Keep
PROPERTIES
  IdleTabsLock
  SessionlessTabsLock
CHECK_DEADLOCK FALSE

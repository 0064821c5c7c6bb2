SPECIFICATION Spec
CONSTANTS
  MaxAttempts = 4
  FailureWindow = 3
  Lockout = 2
  ChallengeTtl = 1
  MaxOpen = 2
  Null = Null
INVARIANTS
  TypeOK
  BurstBounded
PROPERTIES
  LockoutServed
CHECK_DEADLOCK TRUE

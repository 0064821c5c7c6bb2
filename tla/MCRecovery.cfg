SPECIFICATION Spec
CONSTANTS
  b1 = b1
  Entry = {e1}
  Value = {v1}
  Code = {c1, c2}
  Session = {s1, s2}
  Ticket = {t1, t2}
  Null = Null
  MaxVersion = 2
  MaxIv = 2
  Tab = {p, q}
  Browser <- OneBrowser
  BrowserOf <- SharedJar
  UnlockDuringSetup = FALSE
  MaxCalls = 2
  Operations = {"setup", "unlock", "create", "claim", "reset"}
SYMMETRY Symmetry
INVARIANTS
  HeldClaimCurrent
  PinMatchesKey
PROPERTIES
  KeepsThePromise
CHECK_DEADLOCK FALSE

SPECIFICATION Spec
CONSTANTS
  b1 = b1
  Entry = {e1}
  Value = {v1}
  Code = {c1}
  Session = {s1, s2, s3}
  Ticket = {t1}
  Null = Null
  MaxVersion = 2
  MaxIv = 2
  Tab = {p, q}
  Browser <- OneBrowser
  BrowserOf <- SharedJar
  UnlockDuringSetup = TRUE
  MaxCalls = 2
  Operations = {"setup", "unlock", "change"}
SYMMETRY Symmetry
INVARIANTS
  PinMatchesKey
CHECK_DEADLOCK FALSE

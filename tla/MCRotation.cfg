SPECIFICATION Spec
CONSTANTS
  b1 = b1
  Entry = {e1}
  Value = {v1, v2}
  Code = {c1}
  Session = {s1, s2}
  Ticket = {t1}
  Null = Null
  MaxVersion = 2
  MaxIv = 3
  Tab = {p, q}
  Browser <- OneBrowser
  BrowserOf <- SharedJar
  UnlockDuringSetup = FALSE
  MaxCalls = 2
  Operations = {"setup", "unlock", "create", "update", "change", "regen", "poll", "lock"}
SYMMETRY Symmetry
INVARIANTS
  TypeOK
  VaultDecryptable
PROPERTIES
  RotationKeepsValues
CHECK_DEADLOCK FALSE

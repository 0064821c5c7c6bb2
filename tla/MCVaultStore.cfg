SPECIFICATION StoreSpec
CONSTANTS
  Entry = {e1}
  Value = {v1}
  Code = {c1, c2}
  Session = {s1, s2, s3}
  Ticket = {t1, t2}
  Null = Null
  MaxVersion = 3
  MaxIv = 2
SYMMETRY StoreSymmetry
INVARIANTS
  StoreTypeOK
  StampsCurrent
  OpenTicketFreezesSessions
  TicketsBackedByCodes
PROPERTIES
  RotationEvictsSessions
CHECK_DEADLOCK FALSE

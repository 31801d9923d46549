SPECIFICATION Spec
CONSTANTS
  Threads = {t1, t2}
  Kids = {k1, k2}
  Issued = {k1}
  NoKid = NoKid
  Ttl = 1
  Longest = 1
  MaxClock = 6
CHECK_DEADLOCK FALSE
PROPERTY WithdrawnIsRefused
PROPERTY RotationIsSeen

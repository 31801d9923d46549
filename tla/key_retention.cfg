SPECIFICATION Spec
CONSTANTS
  Applies = {a1, a2, a3}
  Replicas = {p1, p2}
  NoRow = NoRow
  Offsets <- MCOffsets
  Ttl = 3
  Interval = 2
  Longest = 1
  Late = 1
  MaxClock = 8
SYMMETRY Symmetry
CHECK_DEADLOCK FALSE
INVARIANT RetryIsReplayed
INVARIANT SpacedApplications
INVARIANT StaleRowIsShort
PROPERTY ImplementsKeyRow

SPECIFICATION Spec
CONSTANTS
  u1 = u1
  u2 = u2
  c1 = c1
  c2 = c2
  Requests = {r1, r2, r3, r4}
  CRs <- OneCR
  Users <- OneUser
  Keys = {k1}
  NoKey = NoKey
  Editors <- AllByU1
  ExpiringKeys = {}
  LegacyRows = 0
  ChainEnabled = TRUE
  Workers = 2
  Failures = {}
  None = None
  NoHash = NoHash
SYMMETRY Symmetry
CHECK_DEADLOCK FALSE
INVARIANT OneUnleashApplyPerKey

SPECIFICATION LiveSpec
CONSTANTS
  u1 = u1
  u2 = u2
  c1 = c1
  c2 = c2
  Requests = {r1, r2, r3}
  CRs <- OneCR
  Users <- TwoUsers
  Keys = {k1}
  NoKey = NoKey
  Editors <- AllByU1
  ExpiringKeys = {}
  LegacyRows = 0
  ChainEnabled = TRUE
  Workers = 3
  Failures = {"unleash", "handler", "commit"}
  None = None
  NoHash = NoHash
CHECK_DEADLOCK FALSE
INVARIANT IInv
INVARIANT EffectsAreApproved
PROPERTY EveryRequestEnds

SPECIFICATION Spec
CONSTANTS
  u1 = u1
  u2 = u2
  c1 = c1
  c2 = c2
  Requests = {r1, r2, r3, r4}
  CRs <- TwoCRs
  Users <- OneUser
  Keys = {k1, k2}
  NoKey = NoKey
  Editors <- AllByU1
  ExpiringKeys = {k2}
  LegacyRows = 1
  ChainEnabled = TRUE
  Workers = 4
  Failures = {"unleash", "handler", "commit"}
  None = None
  NoHash = NoHash
SYMMETRY Symmetry
CHECK_DEADLOCK FALSE
INVARIANT TypeOK
INVARIANT StatusIsAudited
INVARIANT AuditIsCausal
INVARIANT AuditNeverOverclaims
INVARIANT SuccessIsDurable
INVARIANT UnloggedEffectsAreErrors
INVARIANT OneApplicationPerKey
INVARIANT SameKeySameBody
INVARIANT LinksAreCommitted
PROPERTY StaleTailBreaksChain
PROPERTY BrokenStaysBroken

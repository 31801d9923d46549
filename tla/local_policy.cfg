SPECIFICATION Spec
CONSTANTS
  Threads = {t1, t2, t3}
  Users = {u1}
  None = None
  MaxTime = 3
SYMMETRY Symmetry
CHECK_DEADLOCK FALSE
INVARIANT TypeOK
PROPERTY DecisionIsCurrent

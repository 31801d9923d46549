SPECIFICATION LiveSpec
CONSTANTS
  e1 = e1
  s1 = s1
  s2 = s2
  Applies = {a1, a2}
  Changes <- SomeChanges
  Envs = {e1}
  Strategies = {s1, s2}
  Attempts = 3
  Faults = {"transient", "rejected", "broken"}
CHECK_DEADLOCK FALSE
INVARIANT TypeOK
INVARIANT OkIsApplied
INVARIANT OnAsAsked
INVARIANT DuplicatesAreBounded
PROPERTY OnOnlyWithStrategies
PROPERTY ImplementsUnleashCall
PROPERTY EveryApplyEnds

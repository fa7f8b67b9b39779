SPECIFICATION Spec
CONSTANTS
  Sets = {s1, s2, s3, s4}
  None = None
  Images = {i1, i2}
  Rules = {r1, r2}
  ReplicaCounts = {1, 2}
  Strategies = {"RollingUpdate", "Recreate"}
  CachedReads = TRUE
  Disturbances = {"image", "rules", "roll", "scale", "degrade", "delete"}
  MaxDisturbances = 2
  Faults = {"restart", "apiError"}
  MaxFaults = 1
  MaxEvents = 3
SYMMETRY Symmetry
INVARIANT TypeOK
INVARIANT OnePreferredSet
INVARIANT SetsBounded
INVARIANT RevisionsUnique
PROPERTY ImplementsRollout
PROPERTY ServiceKept
PROPERTY NewestSurvives
PROPERTY ObservedRevisionGrows
PROPERTY FinalizerGuardsSets
CHECK_DEADLOCK FALSE

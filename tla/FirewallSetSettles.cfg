SPECIFICATION RecoveringSpec
CONSTANTS
  Firewalls = {f1, f2}
  ReplicaCounts = {1, 2}
  Distances = {0, 8}
  Templates = {t1, t2}
  Weights = {0, 1}
  Reports = {"allocated", "working"}
  CreateTimeout = 0
  HealthTimeout = 0
  MaxTime = 0
  CachedReads = TRUE
  Disturbances = {"scale", "firewallDeleted", "orphaned", "distance", "template", "weight", "delete"}
  MaxDisturbances = 1
  MaxFaults = 1
  MaxOvertaken = 0
  MonitorWrites = FALSE
INVARIANT TypeOK
PROPERTY CreatesNoSurplus
PROPERTY EventuallySettled
PROPERTY RolesSettle
PROPERTY DeletionCompletes
CHECK_DEADLOCK FALSE

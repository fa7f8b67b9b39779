SPECIFICATION FairSpec
CONSTANTS
  Firewalls = {f1}
  ReplicaCounts = {1}
  Distances = {0}
  Templates = {t1}
  Weights = {0}
  Reports = {"allocated", "rejected", "working", "seedLost"}
  CreateTimeout = 0
  HealthTimeout = 1
  MaxTime = 2
  CachedReads = TRUE
  Disturbances = {}
  MaxDisturbances = 0
  MaxFaults = 0
  MaxOvertaken = 1
  MonitorWrites = TRUE
PROPERTY TimeoutsRespected
PROPERTY OverdueReplaced

SPECIFICATION Spec
CONSTANTS
  Firewalls = {f1, f2}
  ReplicaCounts = {1}
  Distances = {0}
  Templates = {t1}
  Weights = {0}
  Reports = {"allocated", "progressing", "booted", "working"}
  CreateTimeout = 2
  HealthTimeout = 0
  MaxTime = 3
  CachedReads = FALSE
  Disturbances = {}
  MaxDisturbances = 0
  MaxFaults = 0
  MaxOvertaken = 1
  MonitorWrites = TRUE
PROPERTY CreateTimeoutRespected

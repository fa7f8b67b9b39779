SPECIFICATION FairSpec
CONSTANTS
  Sets = {s1, s2, s3}
  None = None
  Images = {i1, i2}
  Rules = {r1}
  ReplicaCounts = {1}
  Strategies = {"RollingUpdate", "Recreate"}
  CachedReads = TRUE
  Disturbances = {"image", "strategy", "degrade", "delete"}
  MaxDisturbances = 2
  Faults = {"restart", "lostAnswer", "apiError"}
  MaxFaults = 1
  MaxEvents = 2
PROPERTY EventuallyConverges
PROPERTY DeletionCompletes
CHECK_DEADLOCK FALSE

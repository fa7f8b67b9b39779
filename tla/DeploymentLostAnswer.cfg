SPECIFICATION Spec
CONSTANTS
  Sets = {s1, s2, s3, s4}
  None = None
  Images = {i1, i2}
  Rules = {r1}
  ReplicaCounts = {1}
  Strategies = {"RollingUpdate"}
  CachedReads = TRUE
  Disturbances = {"image"}
  MaxDisturbances = 1
  Faults = {"lostAnswer"}
  MaxFaults = 1
  MaxEvents = 2
SYMMETRY Symmetry
PROPERTY ServiceKept

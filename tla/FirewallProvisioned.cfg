SPECIFICATION Spec
CONSTANTS
  None = None
  Machines = {m1}
  Configs = {c1}
  Disturbances = {"controller"}
  MaxDisturbances = 0
  Faults = {}
  MaxFaults = 0
PROPERTY ProvisionedStays

SPECIFICATION FairSpec
CONSTANTS
  Released = 1
  MaxVersion = 2
  SpecImages = {0}
  Changes = {"maintain", "release"}
  MaxChanges = 2
  Faults = {}
  MaxFaults = 0
  MaxEvents = 2
PROPERTY ImageUpdated
CHECK_DEADLOCK FALSE

SPECIFICATION FairSpec
CONSTANTS
  None = None
  Machines = {m1, m2}
  Configs = {c1, c2}
  Disturbances = {"config", "restart", "roll", "delete", "freed", "machine", "controller"}
  MaxDisturbances = 1
  Faults = {"apiError", "lostAnswer", "restart"}
  MaxFaults = 1
INVARIANT TypeOK
INVARIANT OneMachine
INVARIANT NothingLeaks
INVARIANT NeverForgotten
PROPERTY EventuallyUp
PROPERTY RestartHandled
PROPERTY RollReachesSet
PROPERTY DeletionCompletes
CHECK_DEADLOCK FALSE

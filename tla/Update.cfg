SPECIFICATION FairSpec
CONSTANTS
  Released = 2
  MaxVersion = 3
  SpecImages = {0, 1}
  Changes = {"maintain", "changeAndMaintain", "image", "auto", "reconcile", "delete", "release"}
  MaxChanges = 3
  Faults = {"apiError", "restart"}
  MaxFaults = 1
  MaxEvents = 2
INVARIANT TypeOK
INVARIANT OneUpdatePerRequest
PROPERTY FinalizerGuardsSets
PROPERTY MaintenanceCleanedUp
PROPERTY SpecCarriedOut
PROPERTY StatusCatchesUp
PROPERTY FullNotationUpdated
CHECK_DEADLOCK FALSE

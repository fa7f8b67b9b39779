SPECIFICATION Spec
CONSTANTS
  Places = {1, 2, 3}
  Levels <- AllLevels
  Weights = {0, 1}
  Distances = {0, 1}
  Births = {0, 1}
  Distance = 0
INVARIANT SortedByImportance
INVARIANT RolesKept
CHECK_DEADLOCK FALSE

SPECIFICATION FairSpec
CONSTANTS
  None = None
  Addresses = {a1}
  Disturbances = {"remove", "renew", "lose", "clear", "addresses", "rules", "rollout"}
  MaxDisturbances = 2
  MaxFaults = 1
INVARIANT TypeOK
PROPERTY AccessWorks
PROPERTY ConditionTruthful
PROPERTY CidrsConverge
PROPERTY AclFollows
CHECK_DEADLOCK FALSE

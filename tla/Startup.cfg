SPECIFICATION FairSpec
CONSTANTS
  Instances = {i1, i2}
  None = None
  Envs <- MCEnvs
  MaxFaults = 2
CHECK_DEADLOCK FALSE
INVARIANTS
  TypeOK
  ServingHasSchema
  TurnedAwayOnce
PROPERTY EventuallyServes

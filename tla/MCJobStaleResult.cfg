\* One Recover whose name is used again.
CONSTANTS
  x = x  y = y  n1 = n1  n2 = n2
  None = None
  CRs <- OneCR
  Names <- OneName
  KindOf <- RecoverOnly
  NameOf <- SharedName
  RefOf <- NoRefs
  Unconfigured = {}
  Unmeasured = {}
  Disturbances = {"deletecr"}
  MaxFaults = 1
  MaxUid <- Twice
  MaxTimers = 1
  MaxMade = 3
SPECIFICATION Spec
INVARIANTS OwnResult
CHECK_DEADLOCK FALSE

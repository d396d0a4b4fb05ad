\* One Backup and one crash, under fairness.
CONSTANTS
  x = x  y = y  n1 = n1  n2 = n2
  None = None
  CRs <- OneCR
  Names <- OneName
  KindOf <- BackupOnly
  NameOf <- SharedName
  RefOf <- NoRefs
  Unconfigured = {}
  Unmeasured = {}
  Disturbances = {"crash"}
  MaxFaults = 1
  MaxUid <- Once
  MaxTimers = 1
  MaxMade = 2
SPECIFICATION FairSpec
PROPERTIES ActiveGetsJob
CHECK_DEADLOCK FALSE

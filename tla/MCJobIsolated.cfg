\* A Backup and the Restore of it, each name used once, under fairness.
CONSTANTS
  x = x  y = y  n1 = n1  n2 = n2
  None = None
  CRs <- TwoCRs
  Names <- TwoNames
  KindOf <- BackupAndRestore
  NameOf <- OwnNames
  RefOf <- RestoreOfBackup
  Unconfigured = {}
  Unmeasured = {}
  Disturbances = {"crash", "apierror"}
  MaxFaults = 1
  MaxUid <- Once
  MaxTimers = 1
  MaxMade = 2
SPECIFICATION FairSpec
INVARIANTS TypeOK OwnResult AtMostOneJob
PROPERTIES CleanedAfterReport ImplementsTask EventuallyReported EventuallyCleaned
CHECK_DEADLOCK FALSE

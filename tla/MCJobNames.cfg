\* A Backup (on helm: no size) and a Snapshot of one name; the Backup may be created
\* again.
CONSTANTS
  x = x  y = y  n1 = n1  n2 = n2
  None = None
  CRs <- TwoCRs
  Names <- OneName
  KindOf <- BackupAndSnapshot
  NameOf <- SharedName
  RefOf <- NoRefs
  Unconfigured = {}
  Unmeasured = {x}
  Disturbances = {"crash", "apierror", "deleteerror", "podloss", "deletecr", "deletejob"}
  MaxFaults = 1
  MaxUid <- FirstTwice
  MaxTimers = 1
  MaxMade = 2
SPECIFICATION Spec
INVARIANTS ClaimIsOwn ResultOfName
PROPERTIES ResultIsFinal
CHECK_DEADLOCK FALSE

\* Two workers, two namespaces, one disturbance of any kind.
CONSTANTS
  backups = backups  restores = restores  east = east  west = west
  Role = Role  Other = Other
  Workers <- TwoWorkers
  Namespaces <- TwoNamespaces
  Resources <- ThreeResources
  Disturbances = {"crash", "apierror", "subject", "delete"}
  MaxFaults = 1
SPECIFICATION FairSpec
INVARIANTS TypeOK StaysBound OneSubjectEach
PROPERTIES KeepsSubjects EventuallyBound
CHECK_DEADLOCK FALSE

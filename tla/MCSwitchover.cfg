\* Two switchovers, there and back, one after the other.
CONSTANTS
  n1 = n1  n2 = n2  k1 = k1  k2 = k2  a = a  b = b
  Nodes <- AllNodes
  Accounts <- AllAccounts
  AccountOf <- OwnAccount
  Jobs <- TwoJobs
  Source <- SourceBack
  Dest <- DestBack
  Retries = 3
  AtOnce = 1
  RunAgain = FALSE
  Disturbances = {"call", "kill", "unready"}
  MaxFaults = 1
SPECIFICATION FairSpec
INVARIANTS TypeOK OneSigner
PROPERTIES ImplementsSwitch NodesComeBack
CHECK_DEADLOCK FALSE

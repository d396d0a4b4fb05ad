\* A switchover is repeated after it was killed.
CONSTANTS
  n1 = n1  n2 = n2  k1 = k1  k2 = k2  a = a  b = b
  Nodes <- AllNodes
  Accounts <- AllAccounts
  AccountOf <- OwnAccount
  Jobs <- TwoJobs
  Source <- SourceAgain
  Dest <- DestAgain
  Retries = 3
  AtOnce = 1
  RunAgain = TRUE
  Disturbances = {"call", "kill"}
  MaxFaults = 1
SPECIFICATION Spec
PROPERTIES SwitchesAccounts
CHECK_DEADLOCK FALSE

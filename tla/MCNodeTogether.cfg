\* Two programs at a time on a cloud-config node, under fairness.
CONSTANTS
  a = a  b = b  c = c
  Jobs <- TwoJobs
  OpOf <- BackupAndRestore
  ActionOf <- AllStop
  Method = "cloud-config"
  Size = 1
  Retries = 3
  AtOnce = 2
  Disturbances = {"command", "evict"}
  MaxFaults = 1
SPECIFICATION FairSpec
PROPERTIES EventuallyEnds EventuallyUp
CHECK_DEADLOCK FALSE

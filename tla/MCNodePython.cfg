\* Three programs, one at a time, on a python node.
CONSTANTS
  a = a  b = b  c = c
  Jobs <- ThreeJobs
  OpOf <- SnapshotAndMore
  ActionOf <- AllStop
  Method = "python"
  Size = 1
  Retries = 3
  AtOnce = 1
  Disturbances = {"command", "call", "kill", "unready"}
  MaxFaults = 2
SPECIFICATION Spec
INVARIANTS TypeOK NodeIsDown SizeReported
PROPERTIES StartedAgain TornIsNotStarted
CHECK_DEADLOCK FALSE

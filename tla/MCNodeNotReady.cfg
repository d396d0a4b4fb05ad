\* One program on a cloud-config node, nothing goes wrong.
CONSTANTS
  a = a  b = b  c = c
  Jobs <- OneJob
  OpOf <- RestoreOnly
  ActionOf <- AllStop
  Method = "cloud-config"
  Size = 1
  Retries = 3
  AtOnce = 1
  Disturbances = {}
  MaxFaults = 0
SPECIFICATION Spec
INVARIANTS NodeIsDown
CHECK_DEADLOCK FALSE

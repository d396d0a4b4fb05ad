\* One CitaNode, which is created and then changed, or deleted and created again, and
\* one disturbance.
CONSTANTS
  i1 = i1  i2 = i2
  Images <- TwoImages
  NewImages <- OneImage
  Disturbances = {"crash", "apierror", "delete", "scale", "evict", "unready"}
  MaxFaults = 1
  MaxEdits = 2
SPECIFICATION FairSpec
INVARIANTS TypeOK
PROPERTIES ImplementsNodeStatus EventuallyAsWanted EventuallyRunning
CHECK_DEADLOCK FALSE

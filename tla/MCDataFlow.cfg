\* Three resources of thirteen, on two nodes of each deployment method.
CONSTANTS
  Nodes <- TwoNodes
  Images <- ImagesOfTwo
  CRs <- AllCRs
  Specs <- AllSpecs
  CopyOf <- Copies
  Owners = {0, 1000, 2000}
  StartOwner = 2000
  StartHeight <- Heights
  MaxHeight = 3
  MaxRequests = 3
  MaxFaults = 1
SPECIFICATION Spec
INVARIANTS TypeOK
PROPERTIES RestoresWhatWasSaved CheckedIsAtomic AsAsked ConsensusCleared NodesApart
CHECK_DEADLOCK FALSE

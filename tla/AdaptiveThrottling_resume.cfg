SPECIFICATION FairSpec
CONSTANTS
  NoPolicy = NoPolicy
  p1 = p1
  p2 = p2
  n1 = n1
  n2 = n2
  Policies <- MCPolicies
  Nodes <- MCNodes
  Throttling <- MCThrottling
  Clusters <- MCClusters
  Workloads <- MCWorkloads
  Commanded <- MCCommanded
  MaxOps = 2
  MaxErrors = 1
  MaxMisses = 1
INVARIANTS TypeOK BatchWithinBounds EachBatchMeasured YieldsToCommand 
PROPERTIES ResumeEnds 
CHECK_DEADLOCK FALSE

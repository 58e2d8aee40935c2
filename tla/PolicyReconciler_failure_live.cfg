SPECIFICATION FairSpec
CONSTANTS
  p1 = p1
  p2 = p2
  w1 = w1
  NoPolicy = NoPolicy
  Policies <- OnePolicy
  Workloads <- OneWorkload
  Config <- OneFailing
  Commanded <- OnePolicy
  MaxOps = 1
  MaxCrashes = 1
  MaxFailures = 2
  Features = {}
PROPERTIES NodeFailureRecovers
CHECK_DEADLOCK FALSE

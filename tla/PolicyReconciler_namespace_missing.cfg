SPECIFICATION FairSpec
CONSTANTS
  p1 = p1
  p2 = p2
  w1 = w1
  NoPolicy = NoPolicy
  Policies <- OnePolicy
  Workloads <- OneWorkload
  Config <- OnePlain
  Commanded <- OnePolicy
  MaxOps = 1
  MaxCrashes = 0
  MaxFailures = 0
  Features = {"missingNamespace"}
PROPERTIES CommandCarriedOut
CHECK_DEADLOCK FALSE

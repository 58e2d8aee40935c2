SPECIFICATION Spec
CONSTANTS
  p1 = p1
  p2 = p2
  w1 = w1
  NoPolicy = NoPolicy
  Policies <- TwoPolicies
  Workloads <- OneWorkload
  Config <- TwoFreezes
  Commanded <- OnePolicy
  MaxOps = 2
  MaxCrashes = 1
  MaxFailures = 0
  Features = {"apiError"}
 
PROPERTIES  ManualFreezeHolds
CHECK_DEADLOCK FALSE

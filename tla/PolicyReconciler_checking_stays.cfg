SPECIFICATION FairSpec
CONSTANTS
  p1 = p1
  p2 = p2
  w1 = w1
  NoPolicy = NoPolicy
  Policies <- TwoPolicies
  Workloads <- OneWorkload
  Config <- AsyncChecked
  Commanded <- TwoPolicies
  MaxOps = 1
  MaxCrashes = 0
  MaxFailures = 0
  Features = {}
PROPERTIES CommandCarriedOut
CHECK_DEADLOCK FALSE

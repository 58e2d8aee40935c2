SPECIFICATION Spec
CONSTANTS
  p1 = p1
  p2 = p2
  w1 = w1
  NoPolicy = NoPolicy
  Policies <- TwoPolicies
  Workloads <- OneWorkload
  Config <- CheckedAndFailure
  Commanded <- TwoPolicies
  MaxOps = 1
  MaxCrashes = 0
  MaxFailures = 1
  Features = {}
PROPERTIES FailureNotForgotten
CHECK_DEADLOCK FALSE

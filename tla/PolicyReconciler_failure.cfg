SPECIFICATION Spec
CONSTANTS
  p1 = p1
  p2 = p2
  w1 = w1
  NoPolicy = NoPolicy
  Policies <- OnePolicy
  Workloads <- OneWorkload
  Config <- ResumeAndFailure
  Commanded <- OnePolicy
  MaxOps = 1
  MaxCrashes = 1
  MaxFailures = 2
  Features = {"conflict"}
INVARIANTS NoLostWakeup
PROPERTIES FailureNotForgotten
CHECK_DEADLOCK FALSE

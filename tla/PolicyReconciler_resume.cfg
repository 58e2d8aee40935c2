SPECIFICATION Spec
CONSTANTS
  p1 = p1
  p2 = p2
  w1 = w1
  NoPolicy = NoPolicy
  Policies <- TwoPolicies
  Workloads <- OneWorkload
  Config <- CheckedResumes
  Commanded <- TwoPolicies
  MaxOps = 1
  MaxCrashes = 1
  MaxFailures = 0
  Features = {"preError", "missingNamespace"}
INVARIANTS TypeOK ResumeInPriorityOrder NoLostWakeup
CHECK_DEADLOCK FALSE

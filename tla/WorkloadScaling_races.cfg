SPECIFICATION Spec
CONSTANTS
  Workloads <- MCOneWorkload
  Grace     <- MCGrace
  Override  <- MCNoOverride
  MaxReplicas = 2
  Lag         = 1
  Features    = {"startup", "nodeFailure", "crash", "strictError", "lenientError", "racyScale"}
INVARIANT NeverStranded

SPECIFICATION Spec
CONSTANTS
  Workloads <- MCWorkloads
  Grace     <- MCGrace
  Override  <- MCOverride
  MaxReplicas = 2
  Lag         = 2
  Features    = {"startup", "crash", "strictError", "lenientError"}
INVARIANTS
  TypeOK
  OriginalCountKept
  OriginalGraceKept
PROPERTY
  KeepsPromise

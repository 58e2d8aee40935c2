SPECIFICATION FairSpec
CONSTANTS
  p1 = p1
  p2 = p2
  NoPolicy = NoPolicy
  Policies <- OnePolicy
  Balances <- OnePolicy
  Window = 2
  MaxTime = 4
  MaxEvents = 2
  MaxOps = 2
  MaxLag = 2
INVARIANTS TypeOK NoEventSwallowed
PROPERTIES BalancingDecided
CHECK_DEADLOCK FALSE

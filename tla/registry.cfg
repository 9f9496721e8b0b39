SPECIFICATION Spec
CONSTANTS
  Caller = {c1, c2}
  Agents0 <- MCAgents
  Offers <- MCOffers
  Requests <- MCRequests
  MaxVersions = 3
  MaxCalls = 3
SYMMETRY Alike
INVARIANTS
  RInv
  DecisionsWarranted
  RefusalsWarranted
  NobodyTwice
PROPERTY HiringKeepsServing
CHECK_DEADLOCK FALSE

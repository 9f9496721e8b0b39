SPECIFICATION Spec
CONSTANTS
  Runner = {r1, r2}
  Capability <- MCCapability
  Plans <- RivalPlans
  MaxRevisions = 1
  HighRisk = FALSE
  Registry0 <- Agents
  Offers <- Reassign
  MaxCandidates = 10
  MaxCalls = 3
  MaxCrashes = 0
SYMMETRY Rivals
INVARIANTS
  CanonicalArtifactsReviewed
  IInv
  WorkBoundedByCalls
PROPERTIES
  DeliversPlan
CHECK_DEADLOCK FALSE

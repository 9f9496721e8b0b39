SPECIFICATION Spec
CONSTANTS
  Client = {c1, c2}
  Item = {i1, i2}
  RequestId = {q1, q2, q3}
  Initials = {"executing", "revision"}
  Targets <- Worked
  Strays <- Jump
  LedgerOnly = {i2}
  MaxVersion = 3
SYMMETRY Alike
INVARIANTS
  LInv
  SnapshotReplays
  CanonicalThroughReview
PROPERTIES
  FollowsLifecycle
CHECK_DEADLOCK FALSE

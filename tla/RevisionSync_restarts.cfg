SPECIFICATION FairSpec
CONSTANTS
  c1 = c1
  c2 = c2
  NoClient = none
  Clients = {c1}
  MaxRev = 2
  MaxOps = 2
  MaxRestarts = 1
  ExplicitTargets <- NoTargets
INVARIANTS CanonicalAckWasApplied Evidence
PROPERTIES RequestIsAcknowledged SaveLockIsReleased

SPECIFICATION Spec
CONSTANTS
  c1 = c1
  c2 = c2
  NoClient = none
  Clients = {c1}
  MaxRev = 2
  MaxOps = 3
  MaxRestarts = 0
  ExplicitTargets <- OldTarget
INVARIANTS TypeOK InSyncMeansRunning
PROPERTY ImplementsRevisionCommit

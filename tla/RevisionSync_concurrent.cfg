SPECIFICATION Spec
CONSTANTS
  c1 = c1
  c2 = c2
  NoClient = none
  Clients = {c1, c2}
  MaxRev = 2
  MaxOps = 2
  MaxRestarts = 0
  ExplicitTargets <- NoTargets
SYMMETRY ClientSymmetry
INVARIANT CommittedWasApplied

--------------------------- MODULE MCRevisionSync ---------------------------
(* Model checking of RevisionSync: the cfg files give small instances.       *)
EXTENDS RevisionSync, TLC

CONSTANTS c1, c2

NoTargets == {}
OldTarget == {1}

\* The clients run the same code and differ in nothing.
ClientSymmetry == Permutations(Clients)
=============================================================================

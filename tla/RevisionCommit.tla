--------------------------- MODULE RevisionCommit ---------------------------
(***************************************************************************)
(* What ADR-007 promises of a configuration change, without files, clients *)
(* or acknowledgements: participants apply revisions in any order, and a   *)
(* revision becomes the committed one only when all of them applied it.    *)
(***************************************************************************)
CONSTANTS Participants, Rev, NoRev

VARIABLES applied, committed

avars == <<applied, committed>>

Init ==
  /\ applied = [p \in Participants |-> {}]
  /\ committed = NoRev

Apply(p, r) ==
  /\ applied' = [applied EXCEPT ![p] = @ \union {r}]
  /\ UNCHANGED committed

Commit(r) ==
  /\ \A p \in Participants : r \in applied[p]
  /\ committed' = r
  /\ UNCHANGED applied

Next ==
  \/ \E p \in Participants, r \in Rev : Apply(p, r)
  \/ \E r \in Rev : Commit(r)

Spec == Init /\ [][Next]_avars
=============================================================================

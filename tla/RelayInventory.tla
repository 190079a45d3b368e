--------------------------- MODULE RelayInventory ---------------------------
(***************************************************************************)
(* What the packet runtime makes of a configuration: which drones are      *)
(* active or on standby, and the branches traffic takes through them.      *)
(* Shared by the packet runtime's specification and by the planning        *)
(* functions of Mission Control, which announce what the runtime will do.  *)
(***************************************************************************)
EXTENDS Selection, Sequences, Functions, SequencesExt

CONSTANT MaxDrones    \* the largest drone_count of a configuration

ASSUME MaxDronesAssumption == MaxDrones \in Nat \ {0}

Drones  == 1..MaxDrones

-----------------------------------------------------------------------------
(* The swarm: what a configuration, the failures and the roles make of it.   *)

\* _active_chain and _standby_indices.
Active(s) ==
  {d \in 1..s.count : d \notin s.failed /\ d \in s.integrated /\ d \notin s.standby}
Standby(s) ==
  {d \in 1..s.count : d \notin s.failed /\ (d \notin s.integrated \/ d \in s.standby)}

\* _sanitize_manual_branches: a relay belongs to the first row that names it, once.
Sanitized(rows, visible) ==
  LET clean(k) == Kept(rows[k], {i \in DOMAIN rows[k] :
                    /\ rows[k][i] \in visible
                    /\ \A j \in 1..(i - 1) : rows[k][j] # rows[k][i]
                    /\ \A j \in 1..(k - 1) : rows[k][i] \notin Range(rows[j])})
  IN Kept([k \in DOMAIN rows |-> clean(k)], {k \in DOMAIN rows : clean(k) # <<>>})

\* n rows dealt from a sequence in turn; the last rows may be empty.
Dealt(seq, n) ==
  [k \in 1..n |-> [i \in 1..((Len(seq) - k) \div n + 1) |-> seq[(i - 1) * n + k]]]

AtLeast1(n) == IF n < 1 THEN 1 ELSE n
AtMost(n, m) == IF n > m THEN m ELSE n

\* _active_branches.
ManualBranches(s) ==
  LET rows == Sanitized(s.rows, Active(s))
      rest == InOrder(Active(s) \ UNION {Range(rows[k]) : k \in DOMAIN rows})
  IN IF rows = <<>> THEN <<rest>>
     ELSE [k \in DOMAIN rows |-> rows[k] \o Dealt(rest, Len(rows))[k]]

Branches(s) ==
  IF Active(s) = {} THEN <<>>
  ELSE CASE s.mode = "manual" /\ s.rows # <<>> -> ManualBranches(s)
         [] s.mode = "chain"                   -> <<InOrder(Active(s))>>
         [] OTHER -> Dealt(InOrder(Active(s)),
                           AtLeast1(AtMost(s.branchCount, Cardinality(Active(s)))))

\* _parallel_enabled.
Parallel(s) == s.mode # "chain" /\ Len(Branches(s)) > 1

\* The inventory _update_config_cb and _sync_drone_inventory make of a payload.
Configured(c) ==
  [count       |-> c.count,
   failed      |-> c.failed,
   standby     |-> c.standby,
   integrated  |-> (1..c.count) \ (c.standby \union c.failed),
   mode        |-> c.mode,
   branchCount |-> AtLeast1(AtMost(Len(c.rows), Cardinality((1..c.count) \ c.standby))),
   rows        |-> Sanitized(c.rows, 1..c.count)]

\* What the node makes of the configuration file when it starts: the failures in
\* the file are not read.
Loaded(c) ==
  [Configured(c) EXCEPT !.failed = {},
                        !.integrated = (1..c.count) \ c.standby,
                        !.branchCount = AtLeast1(Len(c.rows))]
=============================================================================

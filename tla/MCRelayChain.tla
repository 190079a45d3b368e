---------------------------- MODULE MCRelayChain ----------------------------
(* Model checking of RelayChain: configurations for small instances.         *)
EXTENDS RelayChain

Config(count, standby, failed, mode, rows) ==
  [count |-> count, standby |-> standby, failed |-> failed, mode |-> mode, rows |-> rows]

\* Two branches and a spare drone, dealt in turn or by hand (a shared relay stays
\* in the first row), and a smaller swarm as a chain with a configured failure.
MixedConfigs ==
  {Config(3, {}, {}, "parallel", <<<<1, 3>>, <<2>>>>),
   Config(3, {3}, {}, "manual", <<<<2, 1>>, <<1, 3>>>>),
   Config(2, {}, {2}, "chain", <<<<1, 2>>>>)}

\* A chain with a spare drone.
ChainConfigs == {Config(3, {3}, {}, "chain", <<<<1, 2>>>>)}

\* Two parallel branches of one drone each.
ForestConfigs == {Config(2, {}, {}, "forest", <<<<1>>, <<2>>>>)}
=============================================================================

SPECIFICATION Spec
CONSTANTS
  MaxDrones = 3
  Configs <- ChainConfigs
  MaxCommands = 2
INVARIANT InjectedFailureTakesEffect

SPECIFICATION FairSpec
CONSTANTS
  MaxDrones = 2
  Configs <- ForestConfigs
  MaxCommands = 2
PROPERTIES PendingFailureIsSettled BranchesAreIndependent

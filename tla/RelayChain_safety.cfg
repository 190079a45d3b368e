SPECIFICATION Spec
CONSTANTS
  MaxDrones = 3
  Configs <- MixedConfigs
  MaxCommands = 3
INVARIANTS TypeOK PacketFollowsItsBranch
PROPERTIES ForwardsOverActiveDrones OutageRetainsCursor

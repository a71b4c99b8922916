SPECIFICATION ScenarioSpec
CONSTANTS
  MaxAmount = 30000
  Accounts = {"payer", "payee", "operator", "stranger"}
  DeclaredAccounts = {"payer", "payee", "operator"}
  Assets = {"usd"}
  LaneIds = {"fast", "slow", "lost"}
  DeclaredLanes = {"fast", "slow"}
  Packets = {"p1", "p2"}
  Acks = {k1}
  Priorities = {"normal"}
  Seed <- MCSeed
  LaneConfigs <- MCLaneConfigs
  Templates <- MCTemplates
  StartEpoch = 0
  MaxEpoch = 2
  EpochLimit = 100
  MaxEvents = 8
  MaxDuplicates = 1
CHECK_DEADLOCK FALSE
INVARIANT EpochsAreCoherent

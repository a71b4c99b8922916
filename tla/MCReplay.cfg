SPECIFICATION Spec
CONSTANTS
  MaxAmount = 30000
  Accounts = {"payer", "payee", "operator"}
  Assets = {"usd"}
  LaneIds = {"fast", "slow"}
  DeclaredLanes = {"fast", "slow"}
  Packets = {"p1", "system"}
  Acks = {k1, k2}
  Priorities = {"normal"}
  Seed <- MCSingleSeed
  LaneConfigs <- MCLaneConfigs
  Templates <- MCReplayTemplates
  StartEpoch = 1
  MaxEpoch = 3
  EpochLimit = 100
  MaxEvents = 8
  MaxDuplicates = 2
SYMMETRY AckSymmetry
VIEW WithoutFailedRuns
CHECK_DEADLOCK FALSE
INVARIANTS LogReplays LogReconciles DuplicatesFollowSettlement

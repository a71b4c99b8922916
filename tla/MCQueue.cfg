SPECIFICATION Spec
CONSTANTS
  MaxAmount = 30000
  Accounts = {"payer", "payee", "operator"}
  Assets = {"usd"}
  LaneIds = {"fast", "slow"}
  DeclaredLanes = {"fast", "slow"}
  Packets = {"p1", "p2"}
  Acks = {k1}
  Priorities = {"normal", "critical"}
  PacketOrder <- MCPacketOrder
  Seed <- MCQueueSeed
  LaneConfigs <- MCQueueLanes
  Templates <- MCQueueTemplates
  StartEpoch = 196
  MaxEpoch = 200
  EpochLimit = 200
  MaxEvents = 40
  MaxDuplicates = 0
VIEW LiveWithoutLog
CHECK_DEADLOCK FALSE
INVARIANTS QueueMatchesLedger OrderIsDeterministic OlderGoesFirst TimeoutViewsAgree
PROPERTIES BucketMoves PendingConfirms

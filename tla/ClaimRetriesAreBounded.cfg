SPECIFICATION Spec
CONSTANTS
  MaxAmount = 30000
  LongMantissa = 131072
  DoubleMantissa = 65536
  Accounts = {"payer", "payee", "operator"}
  Assets = {"usd"}
  LaneIds = {"fast", "slow"}
  DeclaredLanes = {"fast", "slow"}
  Packets = {"p1", "p2"}
  Acks = {k1, k2}
  Priorities = {"normal"}
  PacketOrder <- MCPacketOrder
  Seed <- MCQueueSeed
  LaneConfigs <- MCClaimLanes
  Templates <- MCClaimTemplates
  StartEpoch = 0
  MaxEpoch = 3
  EpochLimit = 100
  MaxEvents = 40
  MaxDuplicates = 1
VIEW LiveWithoutLog
CHECK_DEADLOCK FALSE
INVARIANT RetriesAreBounded

SPECIFICATION Spec
CONSTANTS
  MaxAmount = 12
  LongMantissa = 131072
  DoubleMantissa = 65536
  Accounts = {"payer", "payee"}
  Assets = {"usd", "eur"}
  LaneIds = {"free", "cheap"}
  DeclaredLanes = {"free", "cheap"}
  Packets = {"p1", "p2", "p3"}
  Acks = {k1}
  Priorities = {"normal"}
  PacketOrder <- MCPacketOrder
  Seed <- MCSeed
  LaneConfigs <- MCLaneConfigs
  Templates <- MCTemplates
  StartEpoch = 0
  MaxEpoch = 1
  EpochLimit = 100
  MaxEvents = 40
  MaxDuplicates = 0
VIEW WithoutLog
CHECK_DEADLOCK FALSE
INVARIANTS TypeOK ReservesMatch PlanesAgree ReportsWithinLimits ThrowsMakeNothing

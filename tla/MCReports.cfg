SPECIFICATION Spec
CONSTANTS
  MaxAmount = 30000
  LongMantissa = 131072
  DoubleMantissa = 65536
  Accounts = {"payer", "payee", "operator"}
  Assets = {"usd", "eur"}
  LaneIds = {"fast", "slow"}
  DeclaredLanes = {"fast", "slow"}
  Packets = {"p1", "p2"}
  Acks = {k1}
  Priorities = {"normal"}
  PacketOrder <- MCPacketOrder
  Seed <- MCReportSeed
  LaneConfigs <- MCReportLanes
  Templates <- MCReportTemplates
  StartEpoch = 0
  MaxEpoch = 3
  EpochLimit = 100
  MaxEvents = 40
  MaxDuplicates = 1
VIEW LiveWithoutLog
CHECK_DEADLOCK FALSE
INVARIANTS ExposureExplained BaseConserved RatiosTellReleased HeadroomIsTight CountsAgree
PROPERTIES ChangesAreTraced ImplementsLifecycle

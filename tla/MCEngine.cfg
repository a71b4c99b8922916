SPECIFICATION Spec
CONSTANTS
  MaxAmount = 30000
  Accounts = {"payer", "payee", "operator"}
  Assets = {"usd"}
  LaneIds = {"fast", "slow", "lost"}
  DeclaredLanes = {"fast", "slow"}
  Packets = {"p1", "p2"}
  Acks = {k1, k2}
  Priorities = {"normal"}
  Seed <- MCSeed
  LaneConfigs <- MCLaneConfigs
  Templates <- MCTemplates
  StartEpoch = 0
  MaxEpoch = 3
  EpochLimit = 100
  MaxEvents = 40
  MaxDuplicates = 1
SYMMETRY AckSymmetry
VIEW WithoutLog
CHECK_DEADLOCK FALSE
INVARIANTS TypeOK ReservesMatch AvailableReconciles CreditsReconcile NoInternalFault PlanesAgree
PROPERTY PacketHistory

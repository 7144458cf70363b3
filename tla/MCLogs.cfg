SPECIFICATION Spec
CONSTANTS
  WAL_CAPACITY = 3
  WalTime = {0, 1}
  Action = {"open", "close"}
  MaxAppends = 5
  Parts = 3
  Event = {"accept"}
  MaxWrites = 4
  MaxEvents = 3
  MERKLE_MAX_DEPTH = 3
  Leaf = {"x", "y"}
  MaxLeaves = 10
  TELEMETRY_RING_SIZE = 3
  Sample = {"accepted", "rejected"}
  NoSample = NoSample
  MaxSamples = 8
INVARIANTS
  HoldsTheLatest
  ChainUnbroken
  RecoversTheNewest
  TornWriteSpoilsRecovery
  LinksTellLosses
  RootOfTheLatest
  TelemetryHoldsTheLatest

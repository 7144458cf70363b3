SPECIFICATION Spec
CONSTANTS
  MaxMisses = 12
  Times = {1, 2, 3, 4, 5, 6, 7}
  Wrap = 16
  HB_MISS_LIMIT = 2
  HB_WINDOW_NS = 2
  Sequence = {1, 2, 3, 4}
  Interval = {1, 2}
  Issue = {1, 2}
INVARIANTS
  CommandsNeedHeartbeats
  NothingWhilePending
PROPERTIES
  HardIsForGood
  LockoutIsFinal
  OnceMissedAlwaysMissed

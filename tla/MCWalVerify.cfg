SPECIFICATION WalSpec
CONSTANTS
  WAL_CAPACITY = 3
  WalTime = {0, 1}
  Action = {"open", "close"}
  MaxAppends = 5
INVARIANT IntactLogVerifies

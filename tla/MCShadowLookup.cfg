SPECIFICATION ShadowSpec
CONSTANTS
  Address = {a1, a2}
  NoAddress = NoAddress
  SHADOW_TABLE_MAX = 3
  TARPIT_DELAY_NS = 1
  Times = {0, 1, 2}
  Wrap = 16
  MaxRefs = 2
INVARIANT LookupFindsTheAttacker

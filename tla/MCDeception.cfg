SPECIFICATION Spec
CHECK_DEADLOCK FALSE
CONSTANTS
  Address = {a1, a2}
  NoAddress = NoAddress
  SHADOW_TABLE_MAX = 3
  TARPIT_DELAY_NS = 1
  Times = {0, 2}
  Wrap = 16
  MaxRefs = 2
  Port = {1, 2}
  NoPeer = NoPeer
  EVICT_INTERVAL_NS = 2
  Attacker = {x1, x2}
  CAGE_MAX = 2
  Rounds = 2
  Readings = {0, 1, 2, 3, 4}
  PHANTOM_COUNT = 3
  MaxBinds = 2
  Entity = {e1, e2, e3}
  NoEntity = NoEntity
INVARIANTS
  EvictIsExact
  AllOnOneEntry
  OneSessionPerId
  KnownWhileBoundOnce
PROPERTIES
  PeersAreServed
  EveryoneSealed

SPECIFICATION Spec
CHECK_DEADLOCK FALSE
CONSTANTS
  MTK_MAX_READERS = 2
  MaxRotations = 2
  Thread = {t1, t2}
  Fingerprint = {f1, f2, f3}
  NoFingerprint = NoFingerprint
  ATTRIB_MAX_ACTORS = 2
  Points = {10, 25}
  MaxScore = 45
  RING_CAPACITY = 4
  MaxPushes = 9
INVARIANTS
  TornOnlyIfLate
  UnracedIsExact
  PopsInOrder
PROPERTY RotationFinishes

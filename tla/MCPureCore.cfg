SPECIFICATION Spec
CONSTANTS
  Key = {k1, k2}
  k1 = k1
  k2 = k2
  NoKey = NoKey
  NoSignature = NoSignature
  NodeBit = {n1, n2}
  n1 = n1
  n2 = n2
  Packets <- MCPackets
  Skew = 1
  Times = {0, 1, 5}
INVARIANTS
  ExecutedOverlapsGrant
  NoNodeClosesTheGate
PROPERTIES
  OnlySafeStateWhileUnsafe
  ImplementsGate

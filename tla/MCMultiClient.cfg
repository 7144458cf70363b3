SPECIFICATION Spec
CONSTANTS
  Key = {k1, k2, k3}
  k1 = k1
  k2 = k2
  k3 = k3
  NoKey = NoKey
  NoSignature = NoSignature
  Packets <- MCSent
  MaxSenders = 2
  Times = {0, 2, 3}
INVARIANTS
  OneRecordPerKey
PROPERTIES
  SendersIsolated
  ImplementsGate

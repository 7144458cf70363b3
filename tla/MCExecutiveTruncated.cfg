SPECIFICATION Spec
CONSTANTS
  Key = {k1, k2}
  k1 = k1
  k2 = k2
  NoKey = NoKey
  NoSignature = NoSignature
  Packets <- MCPackets
  Junk <- MCJunk
  Client = {c1, c2}
  NoClient = NoClient
  Cuts = {3, 6}
  Backlog = 2
  Times = {0, 1}
INVARIANT TruncatedNotAccepted

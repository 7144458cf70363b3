SPECIFICATION Spec
CONSTANTS
  Key = {k1, k2}
  k1 = k1
  k2 = k2
  NoKey = NoKey
  NoSignature = NoSignature
  Packets <- MCSent
  Junk <- MCJunk
  Flag = {estop, overtemp}
  Times = {0, 1, 3}
  Simulation = FALSE
PROPERTY InterlockLatches

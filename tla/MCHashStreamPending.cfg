CONSTANTS
  s1 = s1
  s2 = s2
  k1 = k1
  k2 = k2
  None = None
  Sessions <- MCSessions
  Algos <- MCAlgos
  BlockSize <- MCBlockSize
  Caps <- MCAlgos
  UsedModes <- MCHashOnly
  Keys <- MCKeys
  KeyLen <- MCKeyLen
  Lens <- MCLens
  MaxFed = 24
  MaxFaults = 0
  Misuse = FALSE

SYMMETRY MCSymmetry
SPECIFICATION Spec
INVARIANT PendingBelowThreshold

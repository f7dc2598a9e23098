CONSTANTS
  s1 = s1
  s2 = s2
  k1 = k1
  k2 = k2
  None = None
  Sessions <- MCSessions
  Algos <- MCAlgos
  BlockSize <- MCBlockSize
  Caps <- MCAlgos
  UsedModes <- MCModes
  Keys <- MCKeys
  KeyLen <- MCKeyLen
  Lens <- MCLens
  MaxFed = 16
  MaxFaults = 0
  Misuse = FALSE

SYMMETRY MCSymmetry
SPECIFICATION Spec
INVARIANT TypeOK
INVARIANT StreamConserved
INVARIANT DigestCorrect

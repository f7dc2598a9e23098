CONSTANTS
  s1 = s1
  s2 = s2
  k1 = k1
  k2 = k2
  None = None
  Sessions <- MCSessions
  Algos <- MCAlgos
  BlockSize <- MCDeviceBlock
  Caps <- MCAlgos
  UsedModes <- MCHashOnly
  Keys <- MCKeys
  KeyLen <- MCKeyLen
  Lens <- MCDeviceLens
  MaxFed = 14
  MaxFaults = 0
  Misuse = FALSE

SPECIFICATION DSpec
PROPERTY CallReturns
CHECK_DEADLOCK FALSE

CONSTANTS
  s1 = s1
  s2 = s2
  None = None
  Sessions <- MCSessions
  Algos <- MCAlgos
  Compat = "mp13"
  HwRegs <- MCHwRegs
  MaxTok = 3
SYMMETRY MCSymmetry
SPECIFICATION RSpec
INVARIANT OwnStateRestored
INVARIANT CsrMirrors

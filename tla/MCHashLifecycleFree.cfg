CONSTANTS
  s1 = s1
  s2 = s2
  b1 = b1
  b2 = b2
  b3 = b3
  b4 = b4
  b5 = b5
  NULLP = NULLP
  Sessions <- MCSessions
  Blocks <- MCBlocks
  Discipline = "spec"

SYMMETRY MCSymmetry
SPECIFICATION Spec
INVARIANT NoDoubleFree
CHECK_DEADLOCK FALSE

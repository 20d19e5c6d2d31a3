SPECIFICATION Spec
CONSTANTS
  Cards = {c1, c2}
  Runs = {r1, r2, r3}
  Paths = {p1, p2}
  None = None
  MaxKeys = 2
  MaxSwaps = 2
SYMMETRY Symmetry
INVARIANTS Recoverable VerifiedIsTrue DenyHonoured
CHECK_DEADLOCK FALSE

SPECIFICATION Spec
CONSTANTS
  s1 = s1
  p1 = p1
  p2 = p2
  c1 = c1
  c2 = c2
  None = None
  Signs = {s1}
  Spends = {p1}
  Cards = {c1, c2}
  MaxHosts = 2
  MaxReads = 2
INVARIANT PinToShownCard
INVARIANT SignedAsShown
INVARIANT SigningAttended
INVARIANT JobOwned
SYMMETRY CardsSymmetric

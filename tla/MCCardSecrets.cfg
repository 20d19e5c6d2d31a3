SPECIFICATION SecretsSpec
CONSTANTS
  Processes = {p1, p2}
  Jobs = {"list", "put", "rm", "run", "enroll", "enrollForced", "selftest", "selftestForced", "assert", "init", "cardPut", "cardRm", "cardHmac"}
  Cards = {c1, c2}
  NoCard = NoCard
  PinCards = {c1}
  None = None
  MaxCreds = 2
  MaxSwaps = 1
  MaxFaults = 1
  EntryNames = {n1, n2}
  VaultTries = 2
  MaxValues = 2
INVARIANTS VaultKept LoggedOut ProfileTrue
SYMMETRY Symmetry
CHECK_DEADLOCK FALSE

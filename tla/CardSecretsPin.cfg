SPECIFICATION SecretsSpec
CONSTANTS
  Processes = {p1}
  Jobs = {"put", "run"}
  Cards = {c1, c2}
  NoCard = NoCard
  PinCards = {c1}
  None = None
  MaxCreds = 1
  MaxSwaps = 0
  MaxFaults = 0
  EntryNames = {n1}
  VaultTries = 2
  MaxValues = 2
INVARIANT UnlockNeedsPin
CHECK_DEADLOCK FALSE

CONSTANTS
  Names = {n1, n2}
  NoName = noname
  Slots = 2
  PageSize = 1
  PinTries = 2
  MaxSecrets = 3
  MaxKeys = 2
SPECIFICATION Spec
INVARIANTS
  HmacNeverRevealed
  ListingComplete
PROPERTIES
  OwnerOnly
  ImplementsStore

SPECIFICATION Spec
CONSTANTS
  PinTries = 5
  PukTries = 3
  MaxPins = 3
  MaxKeys = 2
INVARIANTS
  LoginIsCurrent
  SignedByOwner
  OneIdentity
PROPERTIES
  ImplementsCounters

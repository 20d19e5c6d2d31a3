CONSTANTS
  PinTries = 2
  CounterMod = 4
  MaxDraws = 4
SPECIFICATION Spec
INVARIANTS
  NonceUsedOnce
  PartialsWellFounded
  SessionLifetime
PROPERTIES
  ImplementsSigner
  ImplementsCard

CONSTANTS
  Runs = {r1, r2}
  Nobody = nobody
SPECIFICATION FairSpec
INVARIANTS
  DurableBeforeSubmit
  FreshAtSubmit
PROPERTIES
  KeepsPromise
  Settles

SPECIFICATION BridgeSpec
CONSTANTS
  Order = 5
  Hashes = {1, 3}
  Processes = {p1, p2}
  Kinds = {"bridge", "e2e", "sign", "arkade", "proof", "setpin", "status"}
  Cards = {c1, c2}
  NoCard = NoCard
  CardTries = 3
  MaxNonces = 3
  MaxDrops = 1
  MaxFaults = 1
  MaxRequests = 3
PROPERTY ImplementsCards
INVARIANTS DriverView OnePartialPerNonce WrongPinBounded CosignVerifies
SYMMETRY Symmetry
CHECK_DEADLOCK FALSE

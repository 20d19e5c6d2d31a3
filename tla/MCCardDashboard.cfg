SPECIFICATION Spec
CONSTANTS
  old = old
  new = new
  pin = pin
  Cards = {old, new, pin}
  Applets <- MCApplets
  Guarded = {new}
  NumReaders = 2
  NoCard = NoCard
  DemoAllowed = TRUE
  MaxSwaps = 1
  MaxFaults = 1
  Starters = {server, client}
  None = None
  CodeTTL = 1
  SessionTTL = 2
  MaxFailures = 2
  MaxSessions = 1
  MaxTime = 2
  MaxCodes = 3
  Requests = {r1, r2, r3}
  Server = server
  Kinds = {"page", "pair", "select", "status", "eth", "sign", "keygen"}
  KeygenAllowed = TRUE
  MaxConnections = 2
  RequestDeadline = 1
  MaxServed = 2
INVARIANTS OneToken PairedOnce Eth1Contained ToolHonoursPolicy NothingLeaks
SYMMETRY Symmetry
CHECK_DEADLOCK FALSE

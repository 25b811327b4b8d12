\* Both handlers; the client of the JSON handler may also be a late one.
SPECIFICATION FairSpec
CONSTANTS
  Protocols = {"TEXT_JSON", "SPARKPLUG"}
  LateProtocols = {"TEXT_JSON"}
  Client = {a, b, c, d}
  CreateDelay = 2
INVARIANT Inv
PROPERTIES
  ImplementsLink
  Recovers
CHECK_DEADLOCK FALSE

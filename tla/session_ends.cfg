SPECIFICATION FairSpec
CONSTANTS
  Games = {g1}
  Profiles = {p1}
  Clients = {c1}
  Boot = boot
  Ticker = ticker
  None = none
  HasLoader = FALSE
  Arriving = {g1}
  MaxFaults = 1
PROPERTIES
  DeferredEnds
  HeldIsReplayed

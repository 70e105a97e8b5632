SPECIFICATION Spec
CONSTANTS
  Games = {g1, g2}
  Profiles = {p1, p2}
  Clients = {c1}
  Boot = boot
  Ticker = ticker
  None = none
  HasLoader = FALSE
  Arriving = {}
  MaxFaults = 1
INVARIANT MountedIsReal

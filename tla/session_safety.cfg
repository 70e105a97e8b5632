SPECIFICATION Spec
CONSTANTS
  Games = {g1}
  Profiles = {p1, p2}
  Clients = {c1, c2}
  Boot = boot
  Ticker = ticker
  None = none
  HasLoader = TRUE
  Arriving = {}
  MaxFaults = 1
SYMMETRY Symmetric
INVARIANTS
  TypeOK
  FenceExclusion
  NoReaderUnderRecovery
  LaunchIsRecorded
  MountedIsReal
  LoaderAlone
PROPERTY ReadersKeepMods

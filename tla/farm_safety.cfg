SPECIFICATION Spec
CONSTANTS
  Original = Original
  None = None
  d1 = d1 d2 = d2 d3 = d3 d4 = d4
  f1 = f1 f2 = f2
  lA = lA lB = lB
  x1 = x1
  Farms = {d1, d2, d3, d4}
  Foreign = {x1}
  Files = {f1}
  Layers = {lA, lB}
  MaxFaults = 2
  WriteWindows <- NoWindow
  Inherited = TRUE
SYMMETRY Interchangeable
INVARIANTS TypeOK OriginalTracked OriginalSafe OutputSafe MountedIsLive MaintenanceRecorded
PROPERTIES StrangersSafe 

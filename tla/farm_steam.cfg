SPECIFICATION Spec
CONSTANTS
  Original = Original
  None = None
  d1 = d1 d2 = d2 d3 = d3 d4 = d4
  f1 = f1 f2 = f2
  lA = lA lB = lB
  x1 = x1
  Farms = {d1, d2, d3, d4}
  Foreign = {}
  Files = {f1}
  Layers = {lA}
  MaxFaults = 1
  WriteWindows <- NoWindow
  Inherited = FALSE
SYMMETRY Interchangeable
PROPERTIES SteamOutputPreserved

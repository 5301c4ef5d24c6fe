SPECIFICATION Spec
CONSTANTS
  p1 = p1
  p2 = p2
  ca = ca
  cb = cb
  v1 = v1
  v2 = v2
  r1 = r1
  r2 = r2
  r3 = r3
  Packages = {p1, p2, p3}
  Cubes = {ca, cb, cc}
  Versions = {v1, v2}
  CubesOf <- MCCubesOf
  Sound <- MCSound
  Calls = {r1, r2, r3}
  Rest = Rest
  None = None
  MaxRunning = 2
  MaxBoots = 1
  MaxRough = 2
  Mixed = FALSE
SYMMETRY Symmetry
INVARIANTS
  CalmCallsStand
  ShelfIsPublishedWhole
CHECK_DEADLOCK FALSE

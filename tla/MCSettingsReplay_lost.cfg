SPECIFICATION Spec
CONSTANTS
  auth = auth
  booktags = booktags
  Settings = settings
  Bookmarks = bookmarks
  Cubes <- MCCubes
  Required = {auth}
  Parent <- MCParent
  Size <- MCSize
  Mounts <- MCMounts
  Values = {strict, relaxed}
  Calls = {c1, c2, c3, c4, c5}
  None = None
  Unreadable = Unreadable
  MaxRunning = 1
  MaxBoots = 0
SYMMETRY MCSymmetry
CHECK_DEADLOCK FALSE
INVARIANT CopyCatchesUp

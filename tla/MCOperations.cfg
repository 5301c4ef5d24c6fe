SPECIFICATION SpecOperations
CONSTANTS
  auth = auth
  booktags = booktags
  Settings = settings
  Bookmarks = bookmarks
  Cubes <- MCCubes
  Required = {auth}
  Parent <- MCParent
  Size <- MCSize
  Mounts <- MCMounts
  Values = {strict, relaxed}
  Calls = {c1, c2, c3}
  None = None
  Unreadable = Unreadable
  MaxRunning = 3
  MaxBoots = 1
  Users = {root, ana}
  Admins = {root}
  NoRow = NoRow
  Assigning = {c1, c2, c3, c4}
  Tables = {cubeAdmins, capabilities}
  Twins = {capabilities}
  Requests = {head, c1, c2}
  FirstChunk = head
  MaxLines = 3
  BatchSize = 2
  NoSet = NoSet
  Nodes = {n1, n2}
  Old = {n1}
  Writers = {k1, k2}
  NoVal = NoVal
  Ids = {1, 2}
  Ranks = {1, 2}
  Rests = {1, 2}
  Asks <- MCAsks
  Chunk = 1
  MaxLimit = 1
  DefaultLimit = 1
SYMMETRY MCSymmetry
INVARIANTS
  SwitchesSettle
  SharesSettle
  RightsAreRevoked
  StagingStands
  ListsKeepOrder
PROPERTIES
  SettledSwitchesSurvive
CHECK_DEADLOCK FALSE

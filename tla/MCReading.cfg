SPECIFICATION SpecReading
CONSTANTS
  Rows = {r1, r2}
  Users = {u1, u2}
  Entities = {"note"}
  Slots = {1, 2}
  Limit = 1
  MaxIds = 3
  MaxTalkIds = 2
  MaxChanges = 1
  FromRows = {1, 2, 3}
  Targets = {t1, t2}
  Readers = {w1}
  MaxLimit = 2
  GroupPages <- MCPages
  MaxRelinks = 3
  None = None
  Selections = {s1, s2}
  First = s1
  Packages = {r1, r2}
  MaxLoads = 4
  MaxSaves = 2
  MaxClicks = 3
  MaxOthers = 1
SYMMETRY SymRows
INVARIANTS
  FeedIsComplete
  CommentsStand
  RelatedWasReadable
  RelatedIsExact
  ScreensAreCurrent
  InstallPageMeasures
PROPERTIES
  FeedIsAllowed
CHECK_DEADLOCK FALSE

SPECIFICATION SpecBoth
CONSTANTS
  Cubes = {c1, c2}
  Writers = {w1, w2}
  Boot = Boot
  All = All
  MaxLives = 2
  MaxForeign = 1
  f = f
  g = g
  x = x
  y = y
  Fields = {f, g}
  Options <- MCOptions
  Payloads <- MCPayloads
  Callers = {k1, k2}
  Blank = Blank
  MaxKeys = 1
  PageSize = 1
  MaxDefs = 2
  MaxRows = 2
  MaxAsked = 4
SYMMETRY Symmetry
INVARIANTS
  TypeOK
  FinishedRefreshIsServed
  FieldsHold
  OrphansAreReported
PROPERTIES
  StepsBackOnlyOverPending
CHECK_DEADLOCK FALSE

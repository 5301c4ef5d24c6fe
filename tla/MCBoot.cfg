SPECIFICATION SpecBoot
CONSTANTS
  Layouts <- Layout
  Wanted <- MountedValues
  Links <- Link
  Shipped <- ShippedRecords
  MaxBoots = 2
  MaxEdits = 2
  Everything = Everything
  None = None
  Boots = {b1, b2, b3}
  N = 2
  Absent = Absent
  System = {"account"}
  MaxFaults = 1
SYMMETRY SymBoots
INVARIANTS
  MountsAreWired
  GatesOpen
  OffIsGone
  SchemaPerVersion
  MovesKeepData
  VerdictsAreJust
  CheckCleansUp
CHECK_DEADLOCK FALSE

CONSTANTS
  Layouts <- Layout
  Wanted <- MountedValues
  Links <- Link
  Shipped <- ShippedRecords
  MaxBoots = 2
  MaxEdits = 2
  Everything = Everything
  None = None
SPECIFICATION Spec
INVARIANT DriftIsOfTheCube
CHECK_DEADLOCK FALSE

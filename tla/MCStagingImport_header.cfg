SPECIFICATION Spec
CONSTANTS
  Calls = {c1, c2, c3}
  Head = c1
  MaxLines = 3
  BatchSize = 2
  None = None
  NoSet = NoSet
PROPERTY LaterChunkKeepsItsLines
CHECK_DEADLOCK FALSE

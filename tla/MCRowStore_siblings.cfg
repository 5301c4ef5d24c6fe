CONSTANTS
  Txs = {t1, t2, t3}
  Rows = {ent}
  Entities = {ent}
  Fields = {f, g}
  Vals = {v}
  NoVal = NoVal
  Absent = Absent
SYMMETRY Requests
SPECIFICATION Spec
PROPERTY PatchKeepsSiblings
CHECK_DEADLOCK FALSE

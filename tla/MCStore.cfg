CONSTANTS
  Txs = {t1, t2, t3}
  Rows = {ent, aux}
  Entities = {ent}
  Fields = {f}
  Vals = {v}
  NoVal = NoVal
  Absent = Absent
  sa = sa
  sb = sb
  Schemas = {sa, sb}
  Reader = sa
  Bursts <- MCBursts
  Procs = {1, 2}
  Pool = 2
  Files = 1
  MaxFaults = 1
SPECIFICATION SpecStore
INVARIANTS
  TypeOK
  OutboxTellsTheRow
  LogsTellTheRow
  FirstTouchesStand
  MigrationsStand
PROPERTIES
  ImplementsJournal
  RequestsEnd
CHECK_DEADLOCK FALSE

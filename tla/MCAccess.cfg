CONSTANTS
  Calls = {c1, c2, c3, c4}
  AccountCalls = {s1, s2, s3}
  Browsers = {b1}
  Accounts = {ana}
  TTL = 1
  MaxTime = 1
  None = None
SYMMETRY SymCalls
SPECIFICATION Spec
INVARIANTS
  SeedLetsOperatorIn
  SessionsDecide
PROPERTIES
  NamesStay
  BrowserKeeps
CHECK_DEADLOCK FALSE

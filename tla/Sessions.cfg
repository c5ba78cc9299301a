SPECIFICATION Spec
CONSTANTS
  None = None  Keep = Keep  Clear = Clear
  b1 = b1  r1 = r1  r2 = r2
  Browsers = {b1}
  Requests = {r1, r2}
  Ttl = 2
  MaxSessions = 2
  MaxTokens = 3
  MaxTime = 3
SYMMETRY Symmetry
INVARIANTS
  TypeOK
  StoreIsExact
  CookieChangeEndsSession
PROPERTIES
  OnlyLiveSessionsServe

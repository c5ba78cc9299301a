SPECIFICATION Spec
CONSTANTS
  None = None
  home = home  work = work  proxy = proxy  a = a  b = b
  Clients = {home, work, proxy}
  Proxies = {proxy}
  MaxHops = 2
  Paths <- MCPaths
  Claims <- MCClaims
  Requests = {a, b}
  MaxFailures = 2
  FailureWindow = 2
  BlockTime = 3
  MaxClients = 1
  MaxStarts = 2
  StartWindow = 2
  MaxTime = 4
SYMMETRY Symmetry
INVARIANTS
  BlockIsExact
  StartsAreBounded
  SlotIsHeldByCheck
  CountedBySender

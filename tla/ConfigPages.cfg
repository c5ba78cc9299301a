SPECIFICATION Spec
CONSTANTS
  silent = silent  loud = loud  fan1 = fan1  fan2 = fan2  flat = flat  broken = broken
  CurveNames = {silent, loud}
  Fans = {fan1}
  Points = {flat}
  GoodPoints = {flat}
  NewPoints = flat
  CurveRequests = {r1}
  FanRequests = {r2}
  r1 = r1  r2 = r2
  None = None
SYMMETRY Symmetry
 
PROPERTY
  CurvesKeepAssignments

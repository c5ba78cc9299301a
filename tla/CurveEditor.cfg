SPECIFICATION Spec
CONSTANTS
  None = None
  s1 = s1  s2 = s2  v1 = v1
  SensorIds = {s1, s2}
  VirtualIds = {v1}
  TempInputs = {36}
  PercentInputs = {120}
  MaxPoints = 3
  MaxTemp = 50
  FileCurves <- MCFileCurves
  Floor = 25
  Readable = {30, 34, 36, 52, 70}
INVARIANTS
  WithinCurve
  WarmerIsNeverSlower
  BetweenNeighbours
  PointsAreMet
  VirtualFollowsSources

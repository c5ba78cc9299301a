SPECIFICATION FairSpec
CONSTANTS
  None = None
  p1 = p1  p2 = p2  l1 = l1
  k1 = k1  t1 = t1
  auto = auto
  Manual = manual
  Gone = Gone
  Modes = {auto, manual}
  Firmware <- MCFirmware
  CurveNames = {k1}
  SensorIds = {t1}
  Temps = {1}
  PwmFans = {p1}
  LiquidFans = {l1}
  Slots = {s1}
  SavedConfigs <- LiveSaved
  FileConfigs <- SpeedFiles
  LiquidOutcomes = {"ok", "error"}
PROPERTIES
  ConfigTakesEffect
  ShutdownCompletes

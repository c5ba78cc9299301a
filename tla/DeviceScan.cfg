SPECIFICATION FairSpec
CONSTANTS
  None = None
  w1 = w1  s1 = s1  io = io  env = env  fan1 = fan1  v1 = v1
  Names = {w1, s1}  Ambiguous = {}  Blank = Blank
  SensorIds <- MCSensorIds
  VirtualIds <- MCVirtualIds
  FanIds <- MCFanIds
  Blocks <- Disks
  Supported <- Disks
  Slow = {2}
  SysWwid <- MCSysWwid
  SysSerial <- MCSysSerial
  SmartWwn <- MCSmartWwn
  SmartSerial <- MCSmartSerial
  Chips = {io, env}
  Numbers = {1, 2, 3}
  Boot <- MCBoot
  Loadable = {1, 2, io}
  Warmth <- MCWarmth
  Parent <- MCParent
  Channels <- MCChannels
  ReadOnly <- MCReadOnly
  Managed = {}
  Speed <- MCSpeed
  Reported <- MCReported
  DashboardConfigs <- MCConfigs
INVARIANTS
  TypeOK
  UndisturbedAreListed
  ReadingsAreTheDisks
  CardsAreComplete
  FanIdMeansHeader
PROPERTIES
  IdentifiersAreListedOnce
  SlowDisksReturn

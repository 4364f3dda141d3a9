CONSTANTS
  Stations = {1, 2}
  Mac = 1
  Requests <- Asked
  Pinned = {}
  DefaultWindow = 1
  WindowMax = 2
  DefaultInterval = 2
  IntervalMax = 3
  LastNumber = 3
  Periods = {1}
  Faults <- AllFaults
  Unknown = 0
  Unused = Unused
  BlobKeys = {"state"}
  TempOf <- TempOfState
  Blobs = {1, 2, 3}
  BlobMax = 2
  Debounce = 1
  Double = 2
  Long = 1
  Extra = 2
  StuckAfter = 3
  Ring = 3
  MaxTime = 5
  MaxEvents = 3
  CartInterval = 2
  CartBootMs = 1
  CartSilent = 1
  CartSettle = 1
  CartLimit = 2
  CartRetry = 1
  CartRetryMax = 2
  CartBeatsMin = 2
  CartWrap = 7
  CartFailsMod = 3
  CartMaxStep = 1
  CartMaxStreak = 3
  RadioConfigs = {"one", "two"}
  RadioGuard = 1
  RadioWait = 2
  RadioWrap = 6
  Scheduled <- ReportTypes
  Vendor = {"v1", "v2"}
  Seed <- AsShipped
  ReportMax = 3
  SettingsWindowMax = 2
  SettingsIntervalMax = 2
  Broadcast = 3
  Top = 7
  TextMod = 16
  Numbers = {0, 1, 2, 3, 9, 17}
  Packets <- Brought
  NoBlock = NoBlock
  HasStore = TRUE
  CommandsMax = 2
SPECIFICATION PartsSpec
INVARIANTS
  SavedIsNotReused
  StationAgrees
  ToldIsKept
  
  RecorderIsSound
  ControlIsSound
  ButtonTells
  
  CartIsSupervised
  SensorsAreSound
  BlobsSurvive
PROPERTIES
  SleepLosesNothing
  ConfigIsSound
  SettingsAreSound
CHECK_DEADLOCK FALSE

CONSTANTS
  Stations = {1, 2}
  Mac = 1
  Requests <- Asked
  Pinned = {}
  DefaultWindow = 1
  WindowMax = 2
  DefaultInterval = 2
  IntervalMax = 3
  LastNumber = 3
  Periods = {1}
  Faults = {}
SPECIFICATION RecordedSpec
PROPERTY NumbersNeverReturn

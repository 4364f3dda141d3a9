CONSTANTS
  Count = 3
  WordBits = 2
  Stride = 2
  Offset = 1
  RefMax = 3
  Holders = {c1, c2, c3}
  Threads = {t1, t2}
  Poller = t1
  Topics = {a, b}
  NoTopic = none
SPECIFICATION FramesSpec
INVARIANTS
  RefsExact
  FreeExact
  
  NothingStranded
PROPERTIES
  RewindsAlone
  LeavesInTheEnd
  MqttServes
  LightServes
CHECK_DEADLOCK FALSE

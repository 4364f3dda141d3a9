CONSTANTS
  Count = 1
  WordBits = 32
  Stride = 1
  Offset = 0
  RefMax = 255
  Threads = {t1, t2}
  Poller = t1
  Size = 2
  Wrap = 8
  Frames = {1, 2, 3}
  Tags = {1}
  Keys = {1}
  Delays = {0, 1}
  Ttls = {0, 2}
  Start = 7
  Horizon = 9
SPECIFICATION Spec
SYMMETRY Symmetry
INVARIANT QueueExact
PROPERTIES
  ImplementsPool
  FateIsFinal
  TimesHonoured

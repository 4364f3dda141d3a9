CONSTANTS
  Handles = {b1, b2}
  BUFFER_NONE = none
  Locals = {c1}
  Stations = {s1, s2, s3}
  One = {o1}
  Broadcast = everyone
  Station = {n1, n2, n3}
  FilterMax = 2
  StationsMax = 2
  Kind = {"unknown", "gateway"}
  Ticks = 2
  Horizon = 2
SPECIFICATION ScenesSpec
SYMMETRY Symmetry
INVARIANTS
  TableExact
  StationsAreSound
PROPERTIES
  FramesAreServed
CHECK_DEADLOCK FALSE

CONSTANTS
  Ids = {i1, i2}
  NoId = NoId
  Bundles <- Kinds
  Factory = 1
  Chunks = 1
  AttemptsMax = 2
  Absent = Absent
  Faults = {"begin", "write", "flash", "hash", "end", "save", "activate"}
  Codecs = {"none", "tinfl", "zlib"}
SPECIFICATION Scenes
SYMMETRY Symmetry
INVARIANTS
  AlwaysAWayBack
  OneBundleIsLimited
  BundleIsSound
PROPERTIES
  ActivatedIsProven
  NothingUnrecordedRuns

CONSTANTS
  Ids = {i1, i2}
  NoId = NoId
  Bundles <- Good
  Factory = 1
  Chunks = 1
  AttemptsMax = 2
  Absent = Absent
  Faults = {}
  Codecs = {"tinfl"}
SPECIFICATION StreamScene
INVARIANT IntactIsNeverRefused

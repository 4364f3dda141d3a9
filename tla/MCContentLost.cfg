CONSTANTS
  Ids = {1, 2, 3, 4}
  RealIds = {3, 4}
  Blocks = {"a", "b", "bent"}
  Bent = "bent"
  Payloads <- Uploads
  Budget = 3
  Absent = Absent
  Faults = {"rename"}
  Consumers = {1, 2}
  Claimable <- Interests
  Idle = {1}
  OwnedMax = 2
  ScanMax = 3
  Timeout = 1
  Reoffer = 1
  RamIds = {1, 2, 3}
  Slots = 2
  FileIds = {1, 2}
  Foreign = 9
  ByteValues = {"a"}
  MaxTotal = 2
  Chunk = 2
SPECIFICATION StoreSpec
PROPERTY FailedUploadCostsNothing
CHECK_DEADLOCK FALSE

\* The stream is bounded (MaxOffset), and a freed cache does nothing more.
SPECIFICATION FairSpec
CONSTANTS
  NSlots = 4
  SlotSize = 2
  PushSizes = {3}
  MaxOffset = 12
  SeekOffsets = {}
  InvalidOffset = 31
  Env = {"file", "diskfail", "stop", "flush"}
PROPERTIES
  StopCompletes
  CacheFreed
  MigrationEnds
CHECK_DEADLOCK FALSE

\* The stream is bounded (MaxOffset), and a freed cache does nothing more.
SPECIFICATION Spec
CONSTANTS
  NSlots = 4
  SlotSize = 2
  PushSizes = {1, 3}
  MaxOffset = 12
  SeekOffsets = {2, 5, 9}
  InvalidOffset = 31
  Env = {"file", "eos", "stop", "flush"}
INVARIANTS
  FileImage
  KeptFileComplete
  DiskHasOffset
PROPERTIES
  AlignedStays
CHECK_DEADLOCK FALSE

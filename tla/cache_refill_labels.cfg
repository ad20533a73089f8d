SPECIFICATION Spec
CONSTANTS
  NSlots = 4
  SlotSize = 2
  PushSizes = {1, 3}
  MaxOffset = 12
  SeekOffsets = {}
  InvalidOffset = 31
  Env = {"file"}
INVARIANTS
  LabelsTrue
CHECK_DEADLOCK FALSE

SPECIFICATION Spec
CONSTANTS
  NSlots = 4
  SlotSize = 2
  PushSizes = {1, 3}
  MaxOffset = 12
  SeekOffsets = {2, 5}
  InvalidOffset = 31
  Env = {"underrun", "drainedseek"}
INVARIANTS
  PopNullOnlyWhenEmpty
CHECK_DEADLOCK FALSE

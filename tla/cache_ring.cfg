\* The stream is bounded (MaxOffset), and a freed cache does nothing more.
SPECIFICATION Spec
CONSTANTS
  NSlots = 4
  SlotSize = 2
  PushSizes = {1, 3}
  MaxOffset = 13
  SeekOffsets = {1, 4, 6, 9}
  InvalidOffset = 31
  Env = {"eos", "tailseek", "underrun", "stop"}
INVARIANTS
  LabelsTrue
  RingHasOffset
  PopNullOnlyWhenEmpty
  SearchEnds
PROPERTIES
  SeekLands
  KeepsPromise
CHECK_DEADLOCK FALSE

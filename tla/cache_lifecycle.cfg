\* The stream is bounded (MaxOffset), and a freed cache does nothing more.
SPECIFICATION Spec
CONSTANTS
  NSlots = 4
  SlotSize = 2
  PushSizes = {3}
  MaxOffset = 9
  SeekOffsets = {3}
  InvalidOffset = 31
  Env = {"file", "explicit", "eos", "stop", "flush", "drainedseek", "underrun"}
INVARIANTS
  TypeOK
  Accounting
  HeldIsPop
  RefExact
PROPERTIES
  HeldBytesStable
CHECK_DEADLOCK FALSE

\* Upstream's stream is bounded (MaxPackets).
SPECIFICATION Spec
CONSTANTS
  NSlots = 2
  SlotSize = 2
  Margin = 1
  NoTime = NoTime
  MaxPackets = 5
  MaxSize = 1
  Deltas = {4}
  Targets = {1}
  Ends = {0}
  Jumps = {}
  MaxJumps = 0
  Scenarios = {{"restart"}}
INVARIANTS
  EntriesAligned
CHECK_DEADLOCK FALSE

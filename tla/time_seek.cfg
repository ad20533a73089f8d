\* Upstream's stream is bounded (MaxPackets).
SPECIFICATION Spec
CONSTANTS
  NSlots = 2
  SlotSize = 2
  Margin = 1
  NoTime = NoTime
  MaxPackets = 5
  MaxSize = 3
  Deltas = {4}
  Targets = {1, 4}
  Ends = {0}
  Jumps = {3}
  MaxJumps = 1
  Scenarios = {{"seek", "jump"},
               {"rap", "jump"},
               {"seek", "blocks"},
               {"seek", "overrun"},
               {"seek", "race"},
               {"seek", "latepmt"},
               {"seek", "restart"}}
INVARIANTS
  TypeOK
  LookupsNearest
  Spaced
  AlignedUndisturbed
  SeekNotAfter
  SegmentTrue
  DurationReached
  EntriesClose
PROPERTIES
  StampIsStart
CHECK_DEADLOCK FALSE

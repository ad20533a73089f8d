\* Upstream's stream is bounded (MaxSlots) and the element is stopped once.
SPECIFICATION FairSpec
CONSTANTS
  NSlots = 2
  MaxSlots = 4
  SeekSlots = {0, 1, 2}
  Scenarios = {{"eos", "seek", "stop", "downeos"},
               {"eos", "seek", "stop", "downerror"},
               {"eos", "stop", "file", "downeos"},
               {"eos", "file", "flush", "explicit", "downerror"},
               {"seek", "stop", "preroll"}}
INVARIANTS
  TypeOK
  StopsQuiet
PROPERTIES
  InOrder
  SegmentFirst
  EosComplete
  RecordingPaired
  Plays
  EosDelivered
  SeekReturns
  StopReturns
  FlushReturns
CHECK_DEADLOCK FALSE

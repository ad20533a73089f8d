\* Downstream fails while upstream has more.
SPECIFICATION FairSpec
CONSTANTS
  NSlots = 2
  MaxSlots = 4
  SeekSlots = {0, 1}
  Scenarios = {{"downerror"}}
PROPERTIES
  ErrorKnown
CHECK_DEADLOCK FALSE

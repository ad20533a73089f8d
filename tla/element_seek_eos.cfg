\* Downstream holds the EOS in preroll when the application seeks.
SPECIFICATION FairSpec
CONSTANTS
  NSlots = 2
  MaxSlots = 2
  SeekSlots = {0, 1}
  Scenarios = {{"eos", "seek", "lateseek", "preroll"}}
PROPERTIES
  SeekReturns
CHECK_DEADLOCK FALSE

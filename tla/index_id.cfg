\* Upstream and two readers; their calls come alone or at any time.
SPECIFICATION Spec
CONSTANTS
  Threads = {upstream, loop, app}
  Upstream = upstream
  MaxEntries = 2
  Scenarios = {"alone", "race"}
INVARIANTS
  FoundAlone
CHECK_DEADLOCK FALSE

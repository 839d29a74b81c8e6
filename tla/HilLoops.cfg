SPECIFICATION HilSpec
CONSTANTS
  Gain = 190
  Flaws = {"none", "weak", "loud", "stale", "phase", "uneven", "decimation", "saturated", "route"}
  Benches = {{}, {"unplug", "plug", "loseLink", "error"}}
  Repeat = 4
INVARIANTS  FaultsAreSeen
CHECK_DEADLOCK FALSE

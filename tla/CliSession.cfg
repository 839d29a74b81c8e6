SPECIFICATION Spec
CONSTANTS
  Modes = {"command", "script", "shell"}
  MaxLines = 4
  MaxConns = 2
INVARIANTS ExitZeroMeansAllDone StopsOnError ConnectionIsSound
PROPERTIES SavedWasMeasured CommandReturns
CHECK_DEADLOCK FALSE

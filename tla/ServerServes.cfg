SPECIFICATION Spec
CONSTANTS
  Clients = {c1, c2}
  Nobody = nobody
  Backlog = 2
  Points = 2
  MaxCommands = 2
  Departures = {"halfClose", "vanish"}
  Blocking = FALSE
  Restarts = FALSE
INVARIANTS ServesItsClient StoppedMeansEnded
PROPERTIES StopsAreSeen QueuedIsAccepted
CHECK_DEADLOCK FALSE

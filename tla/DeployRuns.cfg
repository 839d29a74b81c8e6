SPECIFICATION MCSpec
CONSTANTS
  Paths <- MCPaths
  Parent <- MCParent
  Root = "."
  Artifacts = {"main.o"}
  Trees <- MCTrees
  Images = {"b1", "b2"}
  Commands <- MCCommands
  Faults = {"rm", "mkdir", "scp", "bootgen", "fpgautil", "systemctl", "link"}
  MaxRuns = 2
  Window = 4
  MaxOut = 8
  MaxErr = 3
INVARIANTS SyncMirrors ExitZeroMeansDone
PROPERTIES OnlyAsAsked RemoteReturnsAll
CHECK_DEADLOCK FALSE

SPECIFICATION Spec
CONSTANTS
  MaxClicks = 4
  MaxClients = 4
  Users <- PatientAndBusy
INVARIANTS WindowIsSound PatientCallsAreAlone PatientWindowIsTruthful
PROPERTY WorkEnds
CHECK_DEADLOCK FALSE

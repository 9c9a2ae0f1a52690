CONSTANTS
  Enabled = {"v4", "v6"}
  HasCredentials = TRUE
  Resets = TRUE
  InitFaults = TRUE
  RedialAccepted = FALSE
  MaxFaults = 2
  MaxStops = 1
SPECIFICATION Spec
INVARIANTS ExitLinkDown
PROPERTIES DialledMeansCall
CHECK_DEADLOCK FALSE

CONSTANTS
  Enabled = {"v4"}
  HasCredentials = FALSE
  Resets = TRUE
  InitFaults = TRUE
  RedialAccepted = TRUE
  MaxFaults = 2
  MaxStops = 1
SPECIFICATION LiveSpec
PROPERTIES StopCompletes
CHECK_DEADLOCK FALSE

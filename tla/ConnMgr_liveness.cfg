CONSTANTS
  Enabled = {"v4"}
  HasCredentials = FALSE
  Resets = FALSE
  InitFaults = FALSE
  RedialAccepted = TRUE
  MaxFaults = 2
  MaxStops = 1
SPECIFICATION LiveSpec
PROPERTIES StopExits AddressRecovers
CHECK_DEADLOCK FALSE

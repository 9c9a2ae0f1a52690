CONSTANTS
  Fds = {5, 6}
  MaxCommands = 2
  HandshakeTries = 2
  Settings = 1
  InitTries = 1
  Proxy = TRUE
  Slices = 2
  MaxFaults = 1
SPECIFICATION LiveSpec
INVARIANTS TypeOK CallerHears
PROPERTIES InStep ClientsServed
CHECK_DEADLOCK FALSE

CONSTANTS
  Drivers = {"none", "rmnet", "sysfs", "qmimux"}
  Generations = {"old", "new", "both"}
  Options = {0, 2, 3}
  MuxIds = {17, 34}
  MaxTlvs = 2
  MaxFaults = 2
  MaxSessions = 2
SPECIFICATION LiveSpec
INVARIANTS TypeOK Understood FramingAgrees BoundToAdapter CallAsAsked
PROPERTIES LinkComesUp
CHECK_DEADLOCK FALSE

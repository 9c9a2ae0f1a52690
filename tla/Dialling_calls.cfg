CONSTANTS
  Modes = {"at", "mbim"}
  Proxied = {FALSE, TRUE}
  Inherited = {FALSE, TRUE}
  Asr = {FALSE, TRUE}
  Nats = {TRUE}
  Sims = {"ready", "pin"}
  Apns = {"undefined", "other", "ours"}
  Addresses = {1}
  Tries = 2
  Behind = 1
  MaxFaults = 1
  MaxStops = 1
  Stopped = "plain"
SPECIFICATION LiveSpec
INVARIANTS TypeOK
PROPERTIES CallRecovers StopEndsSession
CHECK_DEADLOCK FALSE

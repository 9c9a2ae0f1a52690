CONSTANTS
  Modes = {"at", "mbim"}
  Proxied = {FALSE}
  Inherited = {FALSE}
  Asr = {FALSE, TRUE}
  Nats = {FALSE, TRUE}
  Sims = {"ready", "pin"}
  Apns = {"undefined", "other", "ours"}
  Addresses = {1, 2}
  Tries = 2
  Behind = 1
  MaxFaults = 1
  MaxStops = 1
  Stopped = "all"
SPECIFICATION Spec
INVARIANTS StopHangsUp
CHECK_DEADLOCK FALSE

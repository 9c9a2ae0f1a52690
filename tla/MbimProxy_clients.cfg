CONSTANTS
  Conns = {1, 2, 3}
  Slots = 2
  MaxTid = 2
  MaxRequests = 2
  MaxFaults = 1
SPECIFICATION LiveSpec
INVARIANTS TypeOK
PROPERTIES AnswerIsForCaller RequestsServed ServesAgain
CHECK_DEADLOCK FALSE

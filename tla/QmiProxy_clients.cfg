CONSTANTS
  Fds = {1, 2}
  Ids = {1, 2}
  MaxRequests = 3
  MaxFaults = 1
SPECIFICATION LiveSpec
INVARIANTS TypeOK HeldIdsRouted
PROPERTIES AnswerIsForCaller RequestsServed
CHECK_DEADLOCK FALSE

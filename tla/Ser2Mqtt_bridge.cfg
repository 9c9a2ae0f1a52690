CONSTANTS
  Frames <- LineFrames
  MaxFrames = 3
  MaxCommands = 1
  MaxFaults = 1
SPECIFICATION LiveSpec
INVARIANTS TypeOK ReportsAreFrames
PROPERTIES FramesReported OnlyMeantIsWritten CommandsServed
CHECK_DEADLOCK FALSE

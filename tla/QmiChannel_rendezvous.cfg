CONSTANTS
  Types = {"CTL", "SVC"}
  Slices = 2
  MaxTid <- MCMaxTid
SPECIFICATION LiveSpec
INVARIANTS TypeOK AnswerIsForCall StrandedOnlyBetweenSlices
PROPERTIES DeliveredAnswerKept CallSpec StopReleasesCaller CallsReturn

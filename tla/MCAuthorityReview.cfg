SPECIFICATION Spec
CONSTANTS
  Words <- MCWords
  NoName = "none"
  Evidence <- MCEvidence
  Cost <- MCCost
  Oversize = {}
  WorkLimit = 3
  NoLimit = NoLimit
  LongText = 200
  Keywords = {"op"}
  Portable = {"a", "b"}
  MaxTools = 2
  MaxArguments = 4
  MaxEnumMembers = 4
  MaxControlMembers = 5
  Absent = Absent
  Documents <- MCDocuments
  Calls <- MCCalls
  Values <- MCValues
  Satisfies <- MCSatisfies
  Measure <- MCMeasure
  None = None
CHECK_DEADLOCK FALSE
INVARIANTS
  ScannedReportsValidate
  NothingWidensUnseen
  ProtectionIsOneWay

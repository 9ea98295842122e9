SPECIFICATION Spec
CONSTANTS
  Words <- MCWords
  NoName = "none"
  Evidence <- MCEvidence
  Cost <- MCCost
  Oversize = {}
  WorkLimit = 3
  NoLimit = NoLimit
  LongText = 200
  ToolDefs <- MCToolDefs
  Values = {"a", "b", "mixed"}
  Satisfies <- MCSatisfies
  Measure <- MCMeasure
  MixedScript = {"mixed"}
  MaxVersion = 2
  MaxEdits = 1
  None = None
CHECK_DEADLOCK FALSE
INVARIANTS
  BundleFitsTheGate
  DataNeverFillsAuthority
  UnconfirmedCallsAreDeclared
  BoundSetIsCurrent

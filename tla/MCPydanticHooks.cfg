SPECIFICATION Spec
CONSTANTS
  Ids = {i1}
  Calls <- MCCalls
  MaxPending = 1
  NoApproval = NoApproval
  Runs = {r1}
  Attempts = {a1, a2}
  RawCalls = {"pay1", "pay2", "payz"}
  Selectors <- MCSelectors
  SelectorOf <- MCSelectorOf
  Coercions <- MCCoercions
  Prepared <- MCPrepared
  Risky = {"pay bob"}
  Nodes = {"prompt", "request", "calls", "more calls"}
  KindOf <- MCKindOf
  FirstNode = "prompt"
  NoNode = "none"
  MaxTurns = 4
  MaxVersion = 1
  NoCall = NoCall
  Unresolved = "unresolved"
CHECK_DEADLOCK FALSE
SYMMETRY Symmetry
INVARIANTS
  OncePerTurn
  RunsWhatWasValidated
  OnlyTheStartedNodeRuns
PROPERTIES
  ValidatedOnce

SPECIFICATION Spec
CONSTANTS
  Ids = {i1}
  Calls <- MCCalls
  MaxPending = 1
  NoApproval = NoApproval
  Runs = {r1, r2, r3}
  Attempts = {a1}
  RawCalls = {"pay1", "pay2"}
  Selectors <- MCSelectors
  SelectorOf <- MCSelectorOf
  Coercions <- MCExact
  Prepared <- MCPrepared
  Risky = {"pay alice", "pay bob"}
  Nodes = {"prompt", "request", "calls"}
  KindOf <- MCKindOf
  FirstNode = "prompt"
  NoNode = "none"
  MaxTurns = 2
  MaxVersion = 1
  NoCall = NoCall
  Unresolved = "unresolved"
CHECK_DEADLOCK FALSE
SYMMETRY Symmetry
INVARIANTS
  TypeOK
  ApprovalsAreConserved
  EntersAsShown
  OnlyYesRuns

SPECIFICATION FairSpec
CONSTANTS
  Ids = {i1, i2}
  Calls <- MCCalls
  MaxPending = 1
  NoApproval = NoApproval
  Runs = {r1, r2}
  Attempts = {a1}
  RawCalls = {"pay2"}
  Selectors <- MCSelectors
  SelectorOf <- MCSelectorOf
  Coercions <- MCExact
  Prepared <- MCPrepared
  Risky = {"pay bob"}
  Nodes = {"prompt", "request", "calls"}
  KindOf <- MCKindOf
  FirstNode = "prompt"
  NoNode = "none"
  MaxTurns = 2
  MaxVersion = 0
  NoCall = NoCall
  Unresolved = "unresolved"
CHECK_DEADLOCK FALSE
INVARIANTS
  PendingWithinBudget
PROPERTIES
  ThreadsFinish

SPECIFICATION Spec
CONSTANTS
  alice = alice
  bob = bob
  query = query
  Threads = {t1, t2}
  Calls = {c1, c2, c3}
  Sources = {"registry"}
  Nesting = TRUE
  MaxExternal = 1
  NoCall = NoCall
  NoThread = NoThread
  NoRequest = NoRequest
  NoApproval = NoApproval
  Names <- MCNames
  Values <- MCValues
  NoName <- MCNoName
  Bundle <- MCBundle
  MixedScript = {}
  Requests <- MCRequests
  Results <- MCResults
SYMMETRY Symmetry
INVARIANTS
  TypeOK
  OneThreadInside
  NoLaunderedEntry
  ApprovalIsCurrent
  EpochCountsPublications
  ReturnedResultsAreTainted
PROPERTIES
  RefinesAtomicAuthority

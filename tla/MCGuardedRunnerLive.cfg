SPECIFICATION FairSpec
CONSTANTS
  alice = alice
  bob = bob
  query = query
  Threads = {t1, t2}
  Calls = {c1, c2}
  Sources = {"registry", "ledger"}
  Nesting = FALSE
  MaxExternal = 1
  NoCall = NoCall
  NoThread = NoThread
  NoRequest = NoRequest
  NoApproval = NoApproval
  Names <- MCNames
  Values <- MCValues
  NoName <- MCNoName
  Bundle <- MCBundle
  MixedScript = {}
  Requests <- MCAllOutcomes
  Results <- MCResults
PROPERTIES
  CallsFinish

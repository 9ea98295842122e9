SPECIFICATION Spec
CONSTANTS
  alice = alice
  mallory = mallory
  mixed = mixed
  text = text
  read = read
  pay = pay
  NoCall = NoCall
  Names <- MCNames
  Values <- MCValues
  NoName <- MCNoName
  Bundle <- MCBundle
  MixedScript <- MCMixed
  Requests <- MCRequests
INVARIANTS
  LockedSinksAreTrusted
  AllowedCallIsComplete
  RiskyCallsAskFirst
PROPERTIES
  Linearizable

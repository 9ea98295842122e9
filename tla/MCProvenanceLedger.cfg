SPECIFICATION Spec
CHECK_DEADLOCK FALSE
CONSTANTS
  addr = addr
  disguised = disguised
  exotic = exotic
  prose = prose
  proseC = proseC
  long = long
  longC = longC
  longS = longS
  rich = rich
  name = name
  noText = noText
  n42 = n42
  obj = obj
  Texts <- MCTexts
  NoText = noText
  Atoms = {n42}
  Containers = {obj}
  Documents <- MCDocuments
  Contains <- MCContains
  Strip <- MCStrip
  Canon <- MCCanon
  Skeleton <- MCSkeleton
  FoldSize <- MCFoldSize
  Ascii <- MCAscii
  RiskShaped = {addr, exotic}
  Overlong = {long, rich}
  Size <- MCSize
  Work <- MCWork
  TokenSize = 1
  MaxEntries = 12
  MaxBytes = 16
  MaxWork = 3
  MaxLookup = 12
  MaxRecords = 6
INVARIANTS
  TypeOK
  NothingIsMissed
  TaintHasAReason
  UsageIsExact
PROPERTIES
  RefinesSessionLedger

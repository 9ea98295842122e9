SPECIFICATION Spec
CONSTANTS
  t1 = t1
  t2 = t2
  r1 = r1
  r2 = r2
  n1 = n1
  n2 = n2
  m1 = m1
  m2 = m2
  Tasks = {t1, t2}
  Main = {t1}
  Runs = {r1, r2}
  Nodes <- MCNodes
  Managers <- MCManagers
  FirstManager = m0
  None = none
  MaxDepth <- MCMaxDepth
  MaxEdits = 1
  Changeable = {"deps", "run"}
SYMMETRY Symmetry
CHECK_DEADLOCK FALSE
INVARIANTS
  OneRunPerEntry
  ContextsFollowTheStack
  ManagersSucceed
PROPERTIES
  NodesStartOnTheSealedPath

CONSTANTS
  s1 = s1  h1 = h1  t1 = t1
  NoTree = NoTree
  Starts = {s1}
  Heirs = {h1}
  Threads = {t1}
  Command <- TheCommand
  Isolated = {s1}
  Settings <- Overlapping
SPECIFICATION Spec
CHECK_DEADLOCK FALSE
INVARIANT UsedTreeIsThere

SPECIFICATION MCSpec
CONSTANTS
  Words <- MCWords
  Names <- MCNames
  NsNames <- MCNsNames
  Bodies = {p, q}
  StaticBodies = {q}
  StaticVals = {v}
  Funcs = {f}
  NoDef = NoDef
  Script = {"proc", "register", "rename", "import", "ensemble", "delete"}
  InsideDelete = TRUE
  MaxEntries = 4
  MaxDepth = 3
  Sites = {s}
  NoSite = NoSite
  CacheMax = 1
  MaxGen = 6
  Programs <- MCPrograms
INVARIANTS CacheCoherent TokensCurrent
PROPERTIES UncachedBehaviour RenameKeepsImports DeletionTakesImports
CHECK_DEADLOCK FALSE

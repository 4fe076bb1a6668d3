SPECIFICATION Spec
CONSTANTS
  Procs = {"p", "q", "h"}
  Home <- MCHome
  Root = "::"
  StaticProcs = {"p"}
  LocalProcs = {"h"}
  Vals = {"v0", "v1"}
  Initial = "v0"
  None = None
  Builtin = "eval"
  Scripts = {"d1", "d2"}
  Modes <- MCModes
  MaxCallDepth = 1
  MaxDefer = 2
  PoolMax = 1

INVARIANT Balanced
INVARIANT FrameAtHome
INVARIANT StaticsPersist
INVARIANT LocalsOwned
PROPERTY MarkersFire
PROPERTY DefersRun

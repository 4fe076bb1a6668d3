SPECIFICATION MCSpec
CONSTANTS
  Names = {"x", "y"}
  Keys = {"x", "n::x"}
  NsKeys = {"n::x"}
  GlobalKey <- MCGlobalKey
  VariableKey <- MCVariableKey
  Bodies <- MCBodies
  SlotLocals = TRUE
  BlockedLinks = FALSE
  None = None
  MaxVal = 1
  MaxFrames = 2
  MaxSteps = 6
  Programs <- MCPrograms

INVARIANT OneHome
INVARIANT ReachedByName
PROPERTY AnswersAsWalked

CHECK_DEADLOCK FALSE
VIEW MCView

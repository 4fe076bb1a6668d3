SPECIFICATION MCSpec
CONSTANTS
  None = None
  Names = {"a"}
  Elems = {"x", "y"}
  Links <- SameName
  MaxFrames = 1
  ArrayNest = 4
  MaxTraces = 2
  MaxCount = 3
  Keys = {"p", "q"}
  TraceNest = 5
  MaxIds = 2
  ObjectKeys = {"A", "B", "o", "p"}
  Root = "oo::object"
  Exported = {"m", "destroy"}
  Private = {"M", "<cloned>"}
  Destroy = "destroy"
  Cloned = "<cloned>"
  Bodies = {"b1", "b2"}
  MaxObjects = 4
  ObjectNest = 3
  Data = {1, 2}
  Pids = {7}
  Cap = 2
  Chunk = 1
  MaxHandles = 3
  MaxLen = 4
  ChannelNest = 6
INVARIANTS SearchCovers FrameTracesGone StepContext LeaveStepPairs MemoFresh ReferencesLive TablesAgree BufferFollows
PROPERTIES GoneEitherWay EofIsFinal

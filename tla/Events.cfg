SPECIFICATION Spec
CONSTANTS
  Ids = {1, 2, 3}
  Scripts = {"s", "t"}
  Vals = {"v"}
  Unset = Unset
  None = None
  MaxDelay = 2
  Hosts = {TRUE, FALSE}
  Cmds = {"after", "idle", "cancel", "set", "vwait", "update", "idletasks", "post", "pump"}
  Work = 5
  Endless = FALSE
  MaxLoops = 3
INVARIANT RunsOnce
PROPERTY UpdateDrains
PROPERTY VwaitHoldsOut
PROPERTY LoopsReturn

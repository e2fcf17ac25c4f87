SPECIFICATION FairSpec
CONSTANTS
  Pids = {p1, p2}
  Versions = {good, bad}
  Bad = {bad}
  Strong = {bad}
  MaxEvents = 2
  Missing = Missing
  Gone = Gone
  NoEntry = NoEntry
  Paths = {x1, x2}
  Platform = "windows"
  Trustable = {x1}
  Protected = {x2}
  Opaque = {x2}
  SwapAt = {"idle", "check", "scan", "stamp", "act", "vault"}
  QuickReuse = TRUE
  Faults = {}
INVARIANT MonitorInv
PROPERTY KillsAreJustified
PROPERTY OneKillOutlivesTrust
PROPERTY VaultTakesTheJudged
PROPERTY EveryoneIsLookedAt

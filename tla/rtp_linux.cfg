SPECIFICATION Spec
CONSTANTS
  Pids = {p1, p2}
  Versions = {good, bad}
  Bad = {bad}
  Strong = {bad}
  MaxEvents = 2
  Missing = Missing
  Gone = Gone
  NoEntry = NoEntry
  Paths = {x1, x2}
  Platform = "linux"
  Trustable = {}
  Protected = {}
  Opaque = {}
  SwapAt = {"idle", "look", "check", "scan"}
  QuickReuse = FALSE
  Faults = {"scan", "poll"}
INVARIANT CacheIsTruthful
INVARIANT PollsAreComplete

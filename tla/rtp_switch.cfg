SPECIFICATION FairSpec
CONSTANTS
  Workers = {w1, w2, w3}
  StopAt = {"starting", "monitoring", "ending", "finished"}
  Slow = TRUE
  Eager = TRUE
  Faults = {"init", "fatal"}
  MaxPosted = 1
  NoWorker = NoWorker
INVARIANT BridgeInv
PROPERTY AbortHasCause
INVARIANT SwitchIsTruthful
INVARIANT PreferenceIsKept
PROPERTY SwitchSettles

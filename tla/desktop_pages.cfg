SPECIFICATION PagesSpec
CONSTANTS
  Events = {1, 2}
  NoEvent = 0
  Log <- TheLog
  MaxRequests = 2
  FailureLimit = 2
  Files = {f1, f2}
  NoFile = NoFile
  PassCounts = {2}
  Devices <- TheDevices
  Faults = {{}, {2}}
  Chunk = 3
  Overlap = 2
  MaxChunks = 3
  Windows = FALSE
  MaxScans = 2
  MaxPosts = 1
  MaxMessages = 3
  MaxReaders = 2
  MaxEntries = 1
  MaxSignals = 1
INVARIANT ExplanationInv ShredderInv RecoveryInv ChatInv SecurityInv HistoryInv
PROPERTY PagesSteps PagesEnd
\* A tab with nothing to do rests when the scans are used up.
CHECK_DEADLOCK FALSE

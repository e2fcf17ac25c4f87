SPECIFICATION Spec
CONSTANTS
  Jobs = {1, 2}
  Urls = {u1, u2}
  Nmaps = {n1}
  UrlThreshold = 3
  NmapThreshold = 4
  UrlTimeout = 4
  NmapTimeout = 120
  MaxThreads = 1
  Faults = {"raise", "save"}
  NoJob = NoJob
  NoId = NoId
INVARIANT NeverFreezes

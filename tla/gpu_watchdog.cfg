SPECIFICATION FairSpec
CONSTANTS
  HbTimeout = 2
  Window = 20
  Cooldown = 2
  MaxFailures = 3
  Installed = {TRUE, FALSE}
INVARIANT GpuInv
PROPERTY BreakerIsFinal
PROPERTY RestartingEnds

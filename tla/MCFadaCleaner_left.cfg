\* A failed command, a watch that is dropped again and again, and a restart of the cleaner.
CONSTANTS
  v1 = v1  v2 = v2  d1 = d1  d2 = d2
  NoVolume = NoVolume  NoDevice = NoDevice
  Volumes = {v1, v2}
  Devices = {d1, d2}
  PathsPerVolume = 1
  MaxAttaches = 2
  MaxFlaps = 0
  GracePolls = 2
  CutListings = TRUE
  WatchDrops = TRUE
  MaxFaults = 1
  MaxRestarts = 1
SPECIFICATION FairSpec
INVARIANT EventHeeded
PROPERTY LeftMapsGone

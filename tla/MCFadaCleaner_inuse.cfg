\* A map opened while it is looked at.
CONSTANTS
  v1 = v1  v2 = v2  d1 = d1  d2 = d2
  NoVolume = NoVolume  NoDevice = NoDevice
  Volumes = {v1}
  Devices = {d1, d2}
  PathsPerVolume = 1
  MaxAttaches = 1
  MaxFlaps = 1
  GracePolls = 2
  CutListings = FALSE
  WatchDrops = FALSE
  MaxFaults = 0
  MaxRestarts = 0
SPECIFICATION Spec
PROPERTY InUseUntouched

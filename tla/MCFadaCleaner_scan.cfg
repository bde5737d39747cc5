\* Two volumes that take turns on two LUNs, as scans go on; the cleaner and its commands never fail.
CONSTANTS
  v1 = v1  v2 = v2  d1 = d1  d2 = d2
  NoVolume = NoVolume  NoDevice = NoDevice
  Volumes = {v1, v2}
  Devices = {d1, d2}
  PathsPerVolume = 2
  MaxAttaches = 3
  MaxFlaps = 1
  GracePolls = 2
  CutListings = FALSE
  WatchDrops = FALSE
  MaxFaults = 0
  MaxRestarts = 0
SPECIFICATION Spec
SYMMETRY Symmetry
INVARIANT TypeOK
PROPERTIES HealthyUntouched GraceKept

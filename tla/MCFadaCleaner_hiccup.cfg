\* One failed command.
CONSTANTS
  v1 = v1  v2 = v2  d1 = d1  d2 = d2
  NoVolume = NoVolume  NoDevice = NoDevice
  Volumes = {v1}
  Devices = {d1}
  PathsPerVolume = 1
  MaxAttaches = 1
  MaxFlaps = 0
  GracePolls = 1
  CutListings = FALSE
  WatchDrops = FALSE
  MaxFaults = 1
  MaxRestarts = 0
SPECIFICATION Spec
PROPERTY HealthyUntouched

\* An array host that is created after px asked for it.
CONSTANTS
  r1 = r1  r2 = r2  v1 = v1  v2 = v2  t1 = t1  t2 = t2
  NoRealm = NoRealm  NoVolume = NoVolume
  Realms = {r1}
  Volumes = {v1}
  volRealm <- OneRealmVolumes
  Hosts <- MCOneHost
  Threads = {t1, t2}
  Requests <- ListingRequests
  RewriteEnabled = TRUE  HasArrayToken = TRUE
  MaxFaults = 0  MaxRestarts = 0  MaxReprovisions = 1
  Provisioned = {}
SPECIFICATION Spec
INVARIANTS CachedMeansGranted

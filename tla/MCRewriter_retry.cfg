\* px retries until the faults and the restart are over.
CONSTANTS
  r1 = r1  r2 = r2  v1 = v1  v2 = v2  t1 = t1  t2 = t2
  NoRealm = NoRealm  NoVolume = NoVolume
  Realms = {r1}
  Volumes = {v1}
  volRealm <- OneRealmVolumes
  Hosts <- MCOneHost
  Threads = {t1, t2}
  Requests <- ListingRequests
  RewriteEnabled = TRUE  HasArrayToken = TRUE
  MaxFaults = 2  MaxRestarts = 1  MaxReprovisions = 0
  Provisioned <- ArrayHosts
SPECIFICATION FairSpec
INVARIANTS GrantedBeforeConnect CachedMeansGranted AckedWasConnected
PROPERTIES EventuallyConnected LeakHeals CommandsTakeEffectOnce

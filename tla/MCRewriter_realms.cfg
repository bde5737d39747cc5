\* Two realms on one node.
CONSTANTS
  r1 = r1  r2 = r2  v1 = v1  v2 = v2  t1 = t1  t2 = t2
  NoRealm = NoRealm  NoVolume = NoVolume
  Realms = {r1, r2}
  Volumes = {v1, v2}
  volRealm <- TwoRealmVolumes
  Hosts <- MCOneHost
  Threads = {t1, t2}
  Requests <- TwoRealmRequests
  RewriteEnabled = TRUE  HasArrayToken = TRUE
  MaxFaults = 0  MaxRestarts = 0  MaxReprovisions = 0
  Provisioned <- ArrayHosts
SPECIFICATION Spec
INVARIANTS OwnRealmOnly

\* Realm hosts, derived names, a node without a mapping and an operator; the shim stays up.
CONSTANTS
  r1 = r1  r2 = r2  v1 = v1  v2 = v2  t1 = t1  t2 = t2
  NoRealm = NoRealm  NoVolume = NoVolume
  Realms = {r1}
  Volumes = {v1}
  volRealm <- OneRealmVolumes
  Hosts <- MCHosts
  Threads = {t1, t2}
  Requests <- AttachRequests
  RewriteEnabled = TRUE  HasArrayToken = TRUE
  MaxFaults = 0  MaxRestarts = 0  MaxReprovisions = 1
  Provisioned <- FirstProvisioned
SPECIFICATION Spec
SYMMETRY Symmetry
INVARIANTS TypeOK NoArrayHostLeak SameNode ConnectedAsMapped AckedWasConnected
PROPERTIES CommandsTakeEffectOnce

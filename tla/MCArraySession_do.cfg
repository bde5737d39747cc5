\* Two handlers, sessions the array ends, a fault and a restart of the shim.
CONSTANTS
  c1 = c1  c2 = c2  k1 = k1  k2 = k2  k3 = k3
  Calls = {c1, c2}
  Tokens = {k1, k2, k3}
  NoToken = NoToken
  MaxExpiries = 3
  MaxFaults = 1
  MaxRestarts = 1
SPECIFICATION FairSpec
INVARIANTS TypeOK OneExpiryIsHidden
PROPERTIES AtMostOnce SessionHeals

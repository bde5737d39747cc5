\* Two requests at a time on two FQDNs; the process ends once, by a signal or a crash.
CONSTANTS
  fa = fa  fb = fb
  Handlers = {h1, h2}
  FQDNs = {fa, fb}
  Labels = {"a", "b"}
  label <- MCLabel
  RealId = RealId  NoLabel = "none"  NoHandler = NoHandler
  HasArrayToken = TRUE
  RewriteIdentity = TRUE
  NoIdentity = NoIdentity  NoFQDN = NoFQDN
  MaxStops = 1
SPECIFICATION FairSpec
INVARIANTS TypeOK DistinctArrays MappedBack
PROPERTIES AnsweredOrHung

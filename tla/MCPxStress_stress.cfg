\* One fault; two instances, one, two, one, and after every second cycle the pool is made anew.
CONSTANTS
  p1 = p1  p2 = p2
  Pools = {p1, p2}
  MinSize = 2  MidSize = 1  MaxSize = 2
  RecreateEach = 2
  StopOnError = TRUE
  MaxFaults = 1
SPECIFICATION FairSpec
INVARIANTS TypeOK NoFalseLoss SuccessRanItsTime
PROPERTIES FirstFailureStops

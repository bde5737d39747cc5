\* Headers the parser knows and headers it does not; a listing ends.
CONSTANTS
  m1 = m1  m2 = m2  m3 = m3
  Maps = {m1, m2, m3}
  MaxLines = 7
SPECIFICATION Spec
SYMMETRY Symmetry
INVARIANT OwnPaths
CHECK_DEADLOCK FALSE

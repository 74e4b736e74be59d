SPECIFICATION Spec
CONSTANTS
  Sockets = {s1, s2, n1}
  Native = {n1}
  i1 = i1
  i2 = i2
  Instruments = {i1, i2}
  Namesakes <- MCNamesakes
  Limit = 2
  Calls = {k1}
  Flaky = {n1}
  MaxInterest = 2
  Nobody = nobody
CONSTRAINT MCBound
SYMMETRY MCSymmetry
CHECK_DEADLOCK FALSE
INVARIANTS
  TypeOK
  CounterIsTrue
  OverLimitOnlyBy
  LeftoversOnlyBy
  RoomsMatch
  InterestIsExact

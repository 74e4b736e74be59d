SPECIFICATION Spec
CONSTANTS
  Classes = {"stocks", "forex"}
  Symbols = {"AAPL"}
  ClassOf <- MCClassOf
  MaxAttempts = 1
  MaxAuthTimers = 2
  Sockets = {s1, s2, s3}
  NoSocket = none
SYMMETRY MCSymmetry
INVARIANTS
  NothingMissing
  StalledOnlyBy
PROPERTIES
  ImplementsLink

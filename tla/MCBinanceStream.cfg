SPECIFICATION Spec
CONSTANTS
  Symbols = {btc, eth, sol}
  Cap = 2
  MaxAttempts = 2
  Sockets = {s1, s2, s3}
  NoSocket = none
INVARIANTS
  TypeOK
  NothingMissing
  LinkIsBacked
PROPERTIES
  ImplementsLink

SPECIFICATION Spec
CONSTANTS
  t1 = t1
  t2 = t2
  i1 = i1
  i2 = i2
  j1 = j1
  j2 = j2
  MaxShards = 2
  MaxSubscriptions = 1
  MaxReconnectAttempts = 1
  Tokens = {t1, t2}
  NoSocket = NoSocket
  Sockets = {i1, i2}
  Calls = {j1, j2}
SYMMETRY Symmetry
INVARIANTS
  TypeOK
  SessionsMirrorShards
  ConnectedIsTrue
  LostShardsRetry
PROPERTIES
  TokensLostOnlyBy

SPECIFICATION Spec
CONSTANTS
  MaxShards = 2
  Tokens = {t1, t2, t3}
  PerShardLimit = 1
  MaxReconnectAttempts = 1
  MaxTimers = 2
  SdkRedials = TRUE
SYMMETRY MCSymmetry
INVARIANTS
  TokensAreRouted
  SessionsMirrorShards
  LostShardsRetry
  ProviderUpHasShard
PROPERTIES
  ShardsImplementLink

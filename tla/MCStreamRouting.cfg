SPECIFICATION Spec
CONSTANTS
  Providers <- MCProviders
  Uirs = {u1, u2}
  SocketClients = {s1}
  NativeClients = {}
  NoProvider = NoProvider
  Exchange <- MCExchange
  Tokens <- MCTokens
  Prefixes = {}
  Limit <- MCLimit
  SubQueueMax = 1
  UnsubQueueMax = 1
SYMMETRY MCSymmetry
INVARIANTS
  UpstreamLimit
  LiveImpliesStreaming
  BatchTimerRuns
PROPERTY
  CoverLostOnlyBy

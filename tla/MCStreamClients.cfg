SPECIFICATION FairSpec
CONSTANTS
  Providers <- MCProviders
  Uirs = {u1}
  SocketClients = {s1}
  NativeClients = {n1}
  NoProvider = NoProvider
  Exchange <- MCExchange
  Tokens <- MCTokens
  Prefixes = {"vortex"}
  Limit <- MCLimit
  SubQueueMax = 1
  UnsubQueueMax = 1
INVARIANTS
  PinsAreLedgered
PROPERTY
  QueuedIsDispatched

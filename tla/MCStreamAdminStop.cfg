SPECIFICATION Spec
CONSTANTS
  Providers <- MCProviders
  Uirs = {u1}
  SocketClients = {s1}
  NativeClients = {n1}
  NoProvider = NoProvider
  Exchange <- MCExchange
  Tokens <- MCTokens
  Prefixes <- MCProviders
  Limit <- MCLimit
  SubQueueMax = 1
  UnsubQueueMax = 1
PROPERTY
  AdminStopHolds

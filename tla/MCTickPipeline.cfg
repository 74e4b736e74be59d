SPECIFICATION FairSpec
CONSTANTS
  a = a
  b = b
  Instruments = {a, b}
  Loops = {l1, l2}
  Clients = {c1, c2}
  Throttled = {c2}
  MaxTicks <- MCMaxTicks
  MaxFailures = 1
  MaxPulses = 1
  Timer = timer
  Pulse = pulse
INVARIANTS
  TypeOK
  PayloadIsFreshest
  RestingAgree
PROPERTIES
  ImplementsFeed
  EveryTickIsShown

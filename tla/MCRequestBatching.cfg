SPECIFICATION FairSpec
CONSTANTS
  Callers = {"c1", "c2"}
  Kinds = {"ltp", "ltp_pairs"}
  Instruments = {"a", "b"}
  Providers = {"kite"}
  MaxBatchSize = 1
  Seconds = 2
INVARIANTS
  NobodyIsForgotten
PROPERTIES
  ImplementsPromises
  EveryRequestSettles

SPECIFICATION Spec
CONSTANTS
  Callers = {"c1", "c2"}
  Kinds = {"quote"}
  Instruments = {"a"}
  Providers = {"kite", "massive"}
  MaxBatchSize = 1
  Seconds = 2
INVARIANT
  OwnProviderIsAsked

SPECIFICATION FairQueueSpec
CONSTANTS
  Calls = {"c1", "c2"}
  Instances = {"i1", "i2"}
  InstanceOf <- MCInstanceOf
  Flaky = {"i1", "i2"}
  Interval = 2
  MaxJitter = 1
  MaxSpin = 4
INVARIANTS
  GateIsShut
PROPERTIES
  GrantsAreSpaced
  EveryCallIsServed

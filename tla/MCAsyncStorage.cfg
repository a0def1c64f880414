SPECIFICATION Spec
CHECK_DEADLOCK FALSE
CONSTANTS
  Parts = {"definitions", "recorders"}
  Rules <- MCRules
  RBNames = {"r"}
  SegmentKeys = {"k"}
  FlagSet = {"a", "b"}
  SetsFilter = {"b"}
  MaxUpdates = 2
  MaxFaults = 1
  Stores = {"redis", "pluggable"}
  Thing = {"i1", "i2", "e", "u1"}
  ListOf <- MCListOf
  Feature = {"f"}
  QueueSize = 2
  MaxTracked = 3
  MaxConnects = 2
  MaxLost = 1
INVARIANTS
  AnsweredIsStored
  IndexesFollow
  RecordedOnce
  

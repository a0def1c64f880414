SPECIFICATION FairSpec
CONSTANTS
  f1 = f1
  f2 = f2
  r1 = r1
  Flags <- MCFlags
  RBSegments <- MCRBSegments
  Uses <- MCUses
  MaxRetries = 2
  RetriesBeforeReady = 1
  MayStop = TRUE
  MaxChanges = 3
  MaxQueue = 1
  MaxFailures = 1
INVARIANTS
  NoLostChange
  
PROPERTIES
  DoneMeansSynced
  WorkEnds
CHECK_DEADLOCK FALSE

SPECIFICATION Spec
CONSTANTS
  f1 = f1
  f2 = f2
  r1 = r1
  Flags <- MCFlags
  RBSegments <- MCRBSegments
  Uses <- NoUses
  MaxRetries = 2
  RetriesBeforeReady = 0
  MayStop = FALSE
  MaxChanges = 3
  MaxQueue = 2
  MaxFailures = 0
INVARIANTS
  NothingWasMissed
CHECK_DEADLOCK FALSE

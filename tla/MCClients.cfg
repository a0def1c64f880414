CONSTANTS
  Bucket <- MCBucket
  LastSeenCacheSize = 1
  Requests <- MCRequests
  Versions <- MCVersions
  SegmentChanges <- MCSegmentChanges
  AttributeInputs <- MCAttributes
  Configurations <- MCConfigurations
  InitialStore <- MCStore
  MaxCalls <- MCCalls
  MaxChanges <- MCChanges
  MaxHour <- MCHour
SPECIFICATION Spec
INVARIANTS
  TargetingIsKept
  OneVersion
  ImpressionsAreCounted
  
CHECK_DEADLOCK FALSE

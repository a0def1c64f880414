SPECIFICATION FairSpec
CONSTANTS
  Key = {"main", "other"}
  Main = "main"
  Retries = 1
  MaxQueue = 2
  Segment = {"s1", "s2"}
  Member = {"m"}
  MaxChanges = 2
  MaxRetries = 2
  MaxTasks = 1
  MaxLeft = 1
  MaxReleases = 2
  StartRetries = 1
  MaxTimedOut = 1
  Caller = {"c1", "c2"}
  MaxTokens = 3
  SharedClient = {"c1"}
  Feature = {"emptyMock", "f"}
  MaxFeatures = 1
  MaxEdits = 2
  MaxTurns = 2
INVARIANTS
  PolledWhenUsed
  SegmentIsExact
  ProxyIsRecovered
  OneAuthentication
PROPERTIES
  EveryClientArrives
CHECK_DEADLOCK FALSE

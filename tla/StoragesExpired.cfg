SPECIFICATION Spec
CHECK_DEADLOCK FALSE
CONSTANTS
  TrafficType = {"user", "account"}
  FlagSet = {"a", "b"}
  SetsFilter = {"b"}
  NamesFilter = {}
  Kinds = {"localStorage"}
  Keys = {"k1"}
  MainKey = "k1"
  Segment = {1}
  Hashes = {"h1", "h2"}
  Tills <- MCTills
  Rules <- MCRules
  RBRules <- MCRBRules
  Answers = {}
  PlanKinds = {}
  ClearsOnInit = {FALSE}
  MaxChanged = 1
  MaxUpdates = 2
  MaxBoots = 3
INVARIANTS
  CacheIsOurs

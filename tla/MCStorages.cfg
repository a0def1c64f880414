SPECIFICATION Spec
CHECK_DEADLOCK FALSE
CONSTANTS
  TrafficType = {"user", "account"}
  FlagSet = {"a", "b"}
  SetsFilter = {"b"}
  NamesFilter = {}
  Kinds = {"server", "client", "localStorage", "wrapper"}
  Keys = {"k1", "k2"}
  MainKey = "k1"
  Segment = {1, 2}
  Hashes = {"h1", "h2"}
  Tills <- MCTills
  Rules <- MCRules
  RBRules <- MCRBRules
  Answers <- MCAnswers
  PlanKinds = {"server", "client", "localStorage"}
  ClearsOnInit = {TRUE, FALSE}
  MaxChanged = 2
  MaxUpdates = 2
  MaxBoots = 2
INVARIANTS
  ViewsAreExact
  
  
  

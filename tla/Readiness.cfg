SPECIFICATION Spec
CONSTANTS
  Clients = {"main", "shared"}
  Main = "main"
  Side = {"client", "server"}
  ReadyTimeout = TRUE
  Throwing = {"init::ready"}
  Cache = {"none", "stored", "preloaded"}
  ReadyAsked = {}
  FromCacheAsked = {"shared"}
  Kills = TRUE
  MaxLives = 2
CHECK_DEADLOCK FALSE
INVARIANTS
  
  EventsInOrder
  ReadyWhenArrived
  PromisesKept

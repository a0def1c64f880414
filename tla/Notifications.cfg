SPECIFICATION FairSpec
CONSTANTS
  Channel = {control_pri, control_sec}
  MaxTime = 2
  MaxOpens = 2
  Key = {"main"}
  Main = "main"
  MaxChanges = 2
  MaxRetries = 3
INVARIANTS
  PresenceIsLatest
  AnnouncedAsFiltered
  TargetIsPursued
PROPERTIES
  DoneMeansFresh
  EventsAreDone
CHECK_DEADLOCK FALSE

SPECIFICATION FairSpec
CONSTANTS
  Side = {"client"}
  Channel = {control_pri}
  Key = {main}
  Main = main
  MaxAttempts = 1
  AuthOutcome = {"granted", "pushDisabled"}
  ErrorKind = {}
  ControlSent = {}
  MayRemove = FALSE
  MaxStarts = 2
  MaxAuths = 2
  MaxKicks = 2
PROPERTY
  StaleIsTemporary

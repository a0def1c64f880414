SPECIFICATION FairSpec
CONSTANTS
  Side = {"client", "server"}
  Channel = {control_pri}
  Key = {main, shared}
  Main = main
  MaxAttempts = 1
  AuthOutcome = {"granted", "pushDisabled", "rejected", "failed"}
  ErrorKind = {"retryable", "fatal"}
  ControlSent = {"STREAMING_PAUSED", "STREAMING_RESUMED", "STREAMING_DISABLED", "STREAMING_RESET"}
  MayRemove = TRUE
  MaxStarts = 2
  MaxAuths = 2
  MaxKicks = 2
INVARIANTS
  DisconnectedIsQuiet
  OneSource
PROPERTIES
  CatchesUp

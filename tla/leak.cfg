\* The Incident is deleted just after its check started.
SPECIFICATION Spec
CONSTANTS
  Fixes = {f1}
  WithPrecondition = {f1}
  WithVerify = {f1}
  NoFix = NoFix
  PollInterval = 1
  SettleWindow = 2
  CheckTimeout = 1
  PendingGrace = 1
  ExitCodes = {0, 1}
  RunExits = {0, 1}
  Lags = {"list"}
  MaxTime = 3
  MaxFaults = 0
  MaxEdits = 1
  Humans = {"delete"}
INVARIANTS
  NothingOutlivesTheIncident
CHECK_DEADLOCK FALSE

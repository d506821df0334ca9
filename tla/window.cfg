\* A human applies again while a verify run is unread.
SPECIFICATION Spec
CONSTANTS
  Fixes = {f1}
  WithPrecondition = {f1}
  WithVerify = {f1}
  NoFix = NoFix
  PollInterval = 1
  SettleWindow = 2
  CheckTimeout = 1
  PendingGrace = 1
  ExitCodes = {0, 1}
  RunExits = {0, 1}
  Lags = {}
  MaxTime = 4
  MaxFaults = 0
  MaxEdits = 2
  Humans = {"apply"}
INVARIANTS
  VerifyResultOfThisWindow

\* Decisions, checks and deletion go on while the informer lags and pods linger.
SPECIFICATION FairSpec
CONSTANTS
  Fixes = {f1}
  WithPrecondition = {f1}
  WithVerify = {f1}
  NoFix = NoFix
  PollInterval = 1
  SettleWindow = 2
  CheckTimeout = 1
  PendingGrace = 1
  ExitCodes = {0, 1}
  RunExits = {0, 1}
  Lags = {"cache", "pod"}
  MaxTime = 3
  MaxFaults = 0
  MaxEdits = 1
  Humans = {"apply", "close", "delete"}
INVARIANTS
  NothingOutlivesTheIncident
PROPERTIES
  CloseTakesEffect
  ApplyTakesEffect
  DueCheckStarts
  FinishedPodsGo
  NothingRunsAfterTheEnd
  DeletionCompletes
CHECK_DEADLOCK FALSE

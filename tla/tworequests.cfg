\* Two requests for one incident, read from an informer that lags.
SPECIFICATION Spec
CONSTANTS
  Fixes = {f1}
  WithPrecondition = {}
  WithVerify = {f1}
  WithApply = {f1}
  NoFix = NoFix
  PollInterval = 1
  SettleWindow = 1
  CheckTimeout = 1
  PendingGrace = 0
  Requests = {1, 2}
  ApplyTimeout = 1
  TTL = 9
  ExitCodes = {0}
  LoginEnds = {9}
  Answers = {TRUE}
  Lags = {"requests"}
  Happens = {}
  MaxTime = 3
  MaxFaults = 0
  MaxMoves = 0
INVARIANTS
  RunsAtMostOnce
  OneRunPerIncident
CHECK_DEADLOCK FALSE

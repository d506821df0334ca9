\* The recording of a run fails after the request's end was computed.
SPECIFICATION Spec
CONSTANTS
  Fixes = {f1}
  WithPrecondition = {}
  WithVerify = {f1}
  WithApply = {f1}
  NoFix = NoFix
  PollInterval = 1
  SettleWindow = 1
  CheckTimeout = 1
  PendingGrace = 0
  Requests = {1}
  ApplyTimeout = 1
  TTL = 1
  ExitCodes = {0}
  LoginEnds = {9}
  Answers = {TRUE}
  Lags = {}
  Happens = {}
  MaxTime = 3
  MaxFaults = 1
  MaxMoves = 0
PROPERTIES
  RecordedWhenReported
CHECK_DEADLOCK FALSE

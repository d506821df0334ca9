\* One request, while one thing happens beside it and one call fails.
SPECIFICATION FairSpec
CONSTANTS
  Fixes = {f1}
  WithPrecondition = {}
  WithVerify = {f1}
  WithApply = {f1}
  NoFix = NoFix
  PollInterval = 1
  SettleWindow = 1
  CheckTimeout = 1
  PendingGrace = 0
  Requests = {1}
  ApplyTimeout = 1
  TTL = 1
  ExitCodes = {0, 256}
  LoginEnds = {3, 9}
  Answers = {TRUE, FALSE}
  Lags = {"incident", "pod"}
  Happens = {"decision", "check", "analysis", "delete", "remove", "policy", "failure"}
  MaxTime = 3
  MaxFaults = 1
  MaxMoves = 1
INVARIANTS
  TypeOK
  UnvouchedNeverRuns
  ReportsWhatRan
  AnnouncedOnce
  NoPodOutlivesItsRequest
PROPERTIES
  ResultNotLost
  IncidentGoesFirst
  KeepsPromise
  RequestsAreDecided
  RunsAreReported
  CredentialGoes
  ExpiredRequestsGo
CHECK_DEADLOCK FALSE

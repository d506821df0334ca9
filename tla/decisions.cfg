\* Everyone writes the Incident twice; one call fails, or the process restarts.
SPECIFICATION Spec
CONSTANTS
  Fixes = {f1}
  WithPrecondition = {f1}
  WithVerify = {f1}
  NoFix = NoFix
  PollInterval = 1
  SettleWindow = 2
  CheckTimeout = 1
  PendingGrace = 1
  ExitCodes = {0, 1, 256}
  RunExits = {0, 1}
  Lags = {}
  MaxTime = 3
  MaxFaults = 1
  MaxEdits = 2
  Humans = {"apply", "close", "reanalysis", "delete", "run"}
INVARIANTS
  TypeOK
  OneCheckAtATime
  WritesAccepted
  RecordingTwiceChangesNothing
  WindowAndResolution
PROPERTIES
  ResultNotLost
  AppliedNotLost
  WindowHonoured
  FirstVerdictStands
  FollowsLifecycle
CHECK_DEADLOCK FALSE

\* A new analysis while a check of the old one runs.
SPECIFICATION Spec
CONSTANTS
  Fixes = {f1, f2}
  WithPrecondition = {f1, f2}
  WithVerify = {f1, f2}
  NoFix = NoFix
  PollInterval = 1
  SettleWindow = 2
  CheckTimeout = 1
  PendingGrace = 1
  ExitCodes = {0, 1}
  RunExits = {0, 1}
  Lags = {}
  MaxTime = 4
  MaxFaults = 0
  MaxEdits = 1
  Humans = {"reanalysis"}
PROPERTIES
  ResultOfThisAnalysis

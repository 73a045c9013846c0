CONSTANTS
  shell = shell
  files = files
  notes = notes
  Shell = shell
  Windows <- MCWindows
  Apps <- MCApps
  Installed <- MCApps
  Remembered <- MCRemembered
  Requests <- MCRequests
  Merged <- MCMerged
  Patience <- MCPatience
  CallIds <- MCCallIds
  MaxCalls = 6
  SaveDelay = 1
  MaxActs = 2
SPECIFICATION Spec
PROPERTIES LosesOnlyClosed
CHECK_DEADLOCK FALSE

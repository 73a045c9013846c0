CONSTANTS
  shell = shell
  files = files
  notes = notes
  Shell = shell
  Windows <- MCWindows
  Apps <- MCApps
  Installed <- MCApps
  Remembered <- MCRemembered
  Requests <- MCRequests
  Merged <- MCMerged
  Patience <- MCShortPatience
  CallIds <- MCCallIds
  MaxCalls = 6
  SaveDelay = 1
  MaxActs = 2
SPECIFICATION Spec
INVARIANTS SavesKeepMinimised
CHECK_DEADLOCK FALSE

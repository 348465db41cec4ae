\* A failed init --global before an init; nothing is killed.
SPECIFICATION Spec
CONSTANTS
  Repertoires <- Mixed
  CrashIn <- CrashNowhere
  MaxCommands = 4
CHECK_DEADLOCK FALSE
INVARIANT ReportedUsable

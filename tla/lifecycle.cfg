\* Repositories with a node of their own, and on the global daemon; commands
\* are killed anywhere.
SPECIFICATION Spec
CONSTANTS
  Repertoires <- LocalOrGlobal
  CrashIn <- CrashAnywhere
  MaxCommands = 4
CHECK_DEADLOCK FALSE
INVARIANTS TypeOK ReportedUsable NodePresent
PROPERTY InitKeepsDataset

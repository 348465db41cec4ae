\* One clone --global; nothing is killed.
SPECIFICATION Spec
CONSTANTS
  Repertoires <- AlwaysGlobal
  CrashIn <- CrashNowhere
  MaxCommands = 2
CHECK_DEADLOCK FALSE
INVARIANT GlobalNeedsNoNode

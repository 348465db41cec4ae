\* Two processes, every flag; processes killed anywhere.
SPECIFICATION Spec
CONSTANTS
  p1 = p1  p2 = p2
  Proc = {p1, p2}
  Commands <- SomeCommands
  Written <- SomeFiles
  MaxRuns = 2
CHECK_DEADLOCK FALSE
INVARIANT TypeOK
PROPERTIES SetThenGet OthersKept ReloadAgrees
SYMMETRY ProcSymmetry

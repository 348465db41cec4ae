\* Every combination of who may see what; processes killed anywhere.
SPECIFICATION Spec
CONSTANTS
  t1 = t1  t2 = t2
  Token = {t1, t2}
  NoCookie = NoCookie
  Torn = Torn
  MaxRuns = 4
CHECK_DEADLOCK FALSE
INVARIANTS TypeOK TakenOnce ThreeEnters
PROPERTY NotAskedAgain

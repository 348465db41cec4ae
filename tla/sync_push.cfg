\* Two repositories, one of them --global, pushes handled one at a time; what
\* runs gets to run.
SPECIFICATION FairSpec
CONSTANTS
  a = a  b = b  p1 = p1  p2 = p2  p3 = p3  h1 = h1  h2 = h2  x1 = x1  x2 = x2
  Repo = {a, b}
  Proc = {p1, p2}
  RepoOf <- RepoOfEach
  GlobalIpfs = {b}
  Server = Server
  Handler = {h1}
  NoProc = NoProc
  Hash = {x1, x2}
  Date = {1, 2}
  Draft <- DraftsHard
  ConfirmUnknown = TRUE
  MaxRuns = 4
CHECK_DEADLOCK FALSE
INVARIANTS TypeOK HistoriesWellFormed AckedKept
PROPERTIES ImplementsVersionHistory CommandsEnd

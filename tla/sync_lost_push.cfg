\* Two pushes handled at a time: one overwrites the other.
SPECIFICATION Spec
CONSTANTS
  a = a  b = b  p1 = p1  p2 = p2  p3 = p3  h1 = h1  h2 = h2  x1 = x1  x2 = x2
  Repo = {a, b}
  Proc = {p1, p2}
  RepoOf <- RepoOfEach
  GlobalIpfs = {}
  Server = Server
  Handler = {h1, h2}
  NoProc = NoProc
  Hash = {x1, x2}
  Date = {1, 2}
  Draft <- DraftsApart
  ConfirmUnknown = TRUE
  MaxRuns = 4
CHECK_DEADLOCK FALSE
INVARIANT AckedKept

\* Two processes in a --global repository, which nothing locks.
SPECIFICATION Spec
CONSTANTS
  a = a  b = b  p1 = p1  p2 = p2  p3 = p3  h1 = h1  h2 = h2  x1 = x1  x2 = x2
  Repo = {a}
  Proc = {p1, p2}
  RepoOf <- RepoOfSame
  GlobalIpfs = {a}
  Server = Server
  Handler = {h1}
  NoProc = NoProc
  Hash = {x1, x2}
  Date = {1, 2}
  Draft <- DraftsAgain
  ConfirmUnknown = TRUE
  MaxRuns = 3
CHECK_DEADLOCK FALSE
INVARIANT LocalHistoryKept

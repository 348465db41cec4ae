\* Two repositories, two processes in one of them, two pushes handled at a
\* time; users name known parents only.
SPECIFICATION Spec
CONSTANTS
  a = a  b = b  p1 = p1  p2 = p2  p3 = p3  h1 = h1  h2 = h2  x1 = x1  x2 = x2
  Repo = {a, b}
  Proc = {p1, p2, p3}
  RepoOf <- RepoOfTwo
  GlobalIpfs = {}
  Server = Server
  Handler = {h1, h2}
  NoProc = NoProc
  Hash = {x1, x2}
  Date = {1, 2}
  Draft <- DraftsKnown
  ConfirmUnknown = FALSE
  MaxRuns = 5
CHECK_DEADLOCK FALSE
INVARIANTS Durable AcceptedPushMerges RetryNotRejected ParentsKnown LocalHistoryKept AckedRecoverable
SYMMETRY SlotSymmetry

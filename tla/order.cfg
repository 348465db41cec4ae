\* Two copies of up to four versions.
SPECIFICATION FairSpec
CONSTANTS
  x1 = x1  x2 = x2  x3 = x3  x4 = x4
  a = a  b = b  None = None
  Copy = {a, b}
  Candidate <- MixedCandidates
INVARIANTS TypeOK ManifestsOrdered MergeAgreesWithSets SameVersionsSameManifest RecursionBounded
PROPERTIES ImplementsSets MergeEnds

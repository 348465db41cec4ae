\* Two users, two organisations, requests that overlap, restarts.
SPECIFICATION Spec
CONSTANTS
  u1 = u1  u2 = u2  o1 = o1  o2 = o2  d1 = d1  r1 = r1  r2 = r2
  User = {u1, u2}
  Org = {o1, o2}
  Slug = {d1}
  Request = {r1, r2}
  Nobody = Nobody
  Nothing = Nothing
INVARIANTS TypeOK SomebodyManages CreatorReaches ListedReachable ManifestSaved
SYMMETRY CatalogSymmetry

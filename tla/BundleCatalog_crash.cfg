SPECIFICATION FairSpec
CONSTANTS
  b1 = b1
  m1 = m1
  m2 = m2
  g1 = g1
  g2 = g2
  g3 = g3
  r1 = r1
  r2 = r2
  c1 = c1
  c2 = c2
  p1 = p1
  p2 = p2
  Ids = {b1}
  Manifests = {m1, m2}
  IdOf <- MCIdOf
  Good = {g1, g2}
  Revoked = {r1, r2}
  Completers = {p1, p2}
  Chunks = {c1}
  MaxReviews = 3
  MaxFaults = 3
  None = None
INVARIANTS
  CatalogIsSound
  RevocationIsFinal
PROPERTIES
  CompletedIsWhole
  RevocationEndsWithRoom
CHECK_DEADLOCK FALSE

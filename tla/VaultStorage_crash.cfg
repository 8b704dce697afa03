SPECIFICATION Spec
CONSTANTS
  a1 = a1
  a2 = a2
  h1 = h1
  h2 = h2
  s1 = s1
  s2 = s2
  Servers = {s1, s2}
  Agents = {a1, a2}
  Hashes = {h1, h2}
  Size <- MCSize
  Role <- MCRole
  Configs <- TwoConfigs
  MaxScan = 8
  KeepsParents = TRUE
  MaxFaults = 2
  None = None
SYMMETRY Perms
INVARIANTS
  StorageIsSound
PROPERTIES
  StaysWithinLimits
CHECK_DEADLOCK FALSE

CONSTANTS
    s1 = s1  s2 = s2  k1 = k1  k2 = k2  strict = strict  lax = lax  h1 = h1  pol = pol
    Starts = {s1, s2}
    Docs <- MCDocs
    Endorsed <- MCEndorsed
    Keys = {k1, k2}
    HostPolicyId = pol
    HostId = h1
    HostGroups = {}
    TrustedKeys = {k1}
    MaxTime = 2
    MaxAuditRows = 1
    NoDoc = NoDoc  NoSig = NoSig  NoRollback = NoRollback  NoStart = NoStart
SYMMETRY Symmetry
SPECIFICATION Spec
INVARIANTS TablesAreSound
PROPERTIES WatermarkHolds RunsWhatWasCommitted

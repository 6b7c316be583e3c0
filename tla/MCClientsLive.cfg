SPECIFICATION Spec
CONSTANTS
    k1 = k1
    k2 = k2
    s1 = s1
    s2 = s2
    o1 = o1
    o2 = o2
    b1 = b1
    Nothing = Nothing
    Contracts = {k1, k2}
    Signers = {s1, s2}
    Opportunities = {o1}
    Obligations = {}
    VersionBound = 1
INVARIANT
    OneLiveContract

\* Two commands on one artifact, two keys, links of a second and of one and a half.
SPECIFICATION Spec
CONSTANTS
    p1 = p1
    p2 = p2
    id1 = id1
    k1 = k1
    k2 = k2
    Procs = {p1, p2}
    Ids = {id1}
    NoId = NoId
    Keys = {k1, k2}
    NoKey = NoKey
    Ttls = {2, 3}
    NoFile = NoFile
    Garbled = Garbled
    MaxTime = 4
    MaxLinks = 2
    MaxKills = 1
SYMMETRY Symmetric
INVARIANTS AcceptedLinkHasItsPage NoLinkOutlivesItsExpiry LinkHoldsUntilItsExpiry ManifestListsEveryLink
CHECK_DEADLOCK FALSE

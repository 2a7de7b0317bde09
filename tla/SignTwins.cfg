\* One request in a changing world: a renewed certificate, an unsized document.
SPECIFICATION FairSpec
CONSTANTS
    r1 = r1  d1 = d1  d2 = d2  a = a  b = b  n1 = n1  n2 = n2
    Requests = {r1}
    URLs = {d1, d2}
    Certs = {a, b}
    Bare = {}
    Keyless = {}
    OtherKeys = {}
    None = None
    DNs = {n1, n2}
    DN <- MCTwins
    Unsized = {d2}
    MaxVersions = 2
INVARIANTS TypeOK LostIsNeverUsed SignedWhole
PROPERTIES EveryRequestAnswered KeepsContract

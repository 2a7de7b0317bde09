\* Three checks of one URL while the authority publishes three CRLs.
SPECIFICATION Spec
CONSTANTS
    c1 = c1  c2 = c2  c3 = c3
    u1 = u1  u2 = u2  x1 = x1  x2 = x2
    Calls = {c1, c2, c3}
    NoCall = NoCall
    URLs = {u1}
    NoURL = NoURL
    Certs = {x1}
    DistributionPoint <- MCOnePoint
    Revocations <- MCAnyList
    MaxVersions = 3
SYMMETRY CallSymmetry
INVARIANTS TypeOK MapsAgree CRLThereWhenReturned ValidRestsOnCRL UndisturbedIsCurrent
PROPERTIES KeepsContract

\* Two requests for certificates of two people, while the document is replaced; or one
\* request over a store with a certificate of three that can sign for it, one without
\* key, one whose key is not RSA, and an alias without certificate.
SPECIFICATION MCSpec
CONSTANTS
    r1 = r1  r2 = r2  d1 = d1  a = a  b = b  c = c  e = e  k = k  n1 = n1  n2 = n2
    Requests = {r1, r2}
    URLs = {d1}
    Certs = {a, b, c, e}
    Bare = {k}
    Keyless = {b}
    OtherKeys = {c}
    None = None
    DNs = {n1, n2}
    DN <- MCNames
    Unsized = {}
    MaxVersions = 2
SYMMETRY RequestSymmetry
INVARIANTS SignatureMatchesRequest FailsForACause

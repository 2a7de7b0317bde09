\* Three checks over two URLs: a put of one URL beside reads of the other, and
\* servers that may fall silent for ever.
SPECIFICATION StalledSpec
CONSTANTS
    c1 = c1  c2 = c2  c3 = c3
    u1 = u1  u2 = u2  x1 = x1  x2 = x2
    Calls = {c1, c2, c3}
    NoCall = NoCall
    URLs = {u1, u2}
    NoURL = NoURL
    Certs = {x2}
    DistributionPoint <- MCNoPoint
    Revocations = {{}}
    MaxVersions = 1
INVARIANTS RefusalHasReason
PROPERTIES CacheHitsNeverWait EveryCallReturns

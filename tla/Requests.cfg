\* Three requests of all kinds, aborted, late, failing; and a page with a list and two clicks.
SPECIFICATION MCSpec
CONSTANTS
    r1 = r1  r2 = r2  r3 = r3  a = a  b = b  c = c  d1 = d1  d2 = d2
    Requests = {r1, r2, r3}
    None = None
    Kinds = {"script", "fixed", "local", "plain"}
    Aborting = TRUE
    Failing = TRUE
    Certs = {a, b, c}
    DN <- MCNames
    Docs = {d1, d2}
INVARIANTS NamesOwned OwnAnswer ActiveCounts ShownWasAsked
PROPERTIES EveryAnswerIsShown

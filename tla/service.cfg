\* Two processes, two boots, two keys, two requests for one permit.
CONSTANTS
    Instances = {i1, i2}
    Keys = {k1, k2}
    NoKey = NoKey
    Malformed = Malformed
    Printers = {p1}
    NoLink = NoLink
    Plain = Plain
    Requests = {r1, r2}
    LoginVerifyConcurrency = 1
    MaxBoots = 2
SPECIFICATION FairSpec
CHECK_DEADLOCK FALSE
INVARIANTS
    ServingReadsLinks
    HandledAfterLogin
PROPERTIES
    LoginsAnswered

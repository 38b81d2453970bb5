SPECIFICATION FairSpec
CONSTANTS
    c1 = c1  c2 = c2
    Controllers = {c1, c2}
    Own <- MCOwn
    Bodies <- MCBodies
    NoBody = NoBody  NoRequest = NoRequest
    Requests = {r1, r2}
    Connections = 2
    MaxFaults = 1
INVARIANTS TypeOK CachedIsCovered DuplicatesNeedAbandon
PROPERTIES PromiseKept FlowsSettle

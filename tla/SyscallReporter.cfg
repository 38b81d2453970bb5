SPECIFICATION FairSpec
CONSTANTS
    c1 = c1
    c2 = c2
    p = p
    q = q
    s1 = s1
    s2 = s2
    Controllers = {c1, c2}
    Names = {p, q}
    Syscalls = {s1, s2}
    Makes <- MCMakes
    ArchOf <- MCArchOf
    NoArch = NoArch
    Requests = {r1, r2}
    NoRequest = NoRequest
    NoName = NoName
    CacheCap = 1
    MaxFaults = 1
INVARIANTS TypeOK RowIsOfOneArch SentIsRecorded
PROPERTIES LossNeedsCause CallsSettle
\* Pods make finitely many different calls; when all are recorded, nothing is left to do.
CHECK_DEADLOCK FALSE

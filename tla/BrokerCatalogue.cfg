SPECIFICATION FairSpec
CONSTANTS
    p1 = p1
    p2 = p2
    s1 = s1
    s2 = s2
    Controllers = {c1, c2}
    Pods = {p1, p2}
    Services = {s1, s2}
    KeyOf <- SharedKeys
    Values = {v1, v2}
    NoValue = NoValue
    NoEvent = NoEvent
    MaxChanges = 2
    MaxFaults = 2
INVARIANTS TypeOK SettledIsCurrent
PROPERTIES ChangesSettle
\* The changes and faults of the cluster are bounded.
CHECK_DEADLOCK FALSE

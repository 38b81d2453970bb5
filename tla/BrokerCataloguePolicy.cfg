SPECIFICATION Spec
CONSTANTS
    p1 = p1
    p2 = p2
    s1 = s1
    s2 = s2
    Controllers = {c1, c2}
    Pods = {p1, p2}
    Services = {}
    KeyOf <- OwnNames
    Values = {v1, v2}
    NoValue = NoValue
    NoEvent = NoEvent
    MaxChanges = 2
    MaxFaults = 1
INVARIANTS PolicyIsOfItsPod
CHECK_DEADLOCK FALSE

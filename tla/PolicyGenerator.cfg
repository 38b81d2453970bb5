SPECIFICATION Spec
CONSTANTS
    p = p
    q = q
    a = a
    b = b
    c = c
    Names = {p, q}
    Batch <- MCBatch
    NoName = NoName
    Flows <- MCFlows
    MaxRecords = 3
INVARIANTS TypeOK RulesAreMerged PolicyIsOfTraffic FirstErrorIsKept
\* The command ends with its batch.
CHECK_DEADLOCK FALSE

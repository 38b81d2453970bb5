SPECIFICATION Spec
CONSTANTS
    c1 = c1  c2 = c2
    Controllers = {c1}
    Own <- MCOwnDatagrams
    Bodies <- MCDatagrams
    NoBody = NoBody  NoRequest = NoRequest
    Requests = {r1, r2}
    Connections = 2
    MaxFaults = 0
PROPERTIES ExistsIsExact

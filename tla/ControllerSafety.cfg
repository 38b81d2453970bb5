SPECIFICATION Spec
CONSTANTS
    a = a  b = b  f = f  g = g
    Pods = {a, b}
    Inums = {i1, i2}
    HostInum = NoInum
    Flows = {f, g}
    Syscalls = {}
    PeerOf <- MCPeerOf
    NoPod = NoPod  NoInum = NoInum  NoItem = NoItem
    DaemonPods = {b}
    ExcludedPods = {}
    IPv6Pods = {b}
    IgnoreDaemonset = TRUE
    PostOutcomes = {"failed"}
    Faults = {"killed", "taskFails", "pidReused"}
    Containers = 1
    ChanCap = 1
    PerfCap = 1
    MapCap = 1
SYMMETRY InumSymmetry
INVARIANTS TypeOK MonitoredIsMapped InFlightIsMapped
PROPERTIES OwnEntryStays EventsKeepOrder

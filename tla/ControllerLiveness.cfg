SPECIFICATION FairSpec
CONSTANTS
    a = a  b = b  f = f  g = g
    Pods = {a}
    Inums = {i1}
    HostInum = NoInum
    Flows = {f}
    Syscalls = {s}
    PeerOf <- MCPeerOf
    NoPod = NoPod  NoInum = NoInum  NoItem = NoItem
    DaemonPods = {}
    ExcludedPods = {}
    IPv6Pods = {}
    IgnoreDaemonset = FALSE
    PostOutcomes = {"failed"}
    Faults = {"taskFails"}
    Containers = 1
    ChanCap = 1
    PerfCap = 1
    MapCap = 1
INVARIANTS LockDiscipline OnlyBrokerStalls
PROPERTIES RegisteredIsMonitored HandlersReturn

SPECIFICATION Spec
CONSTANTS
    a = a  b = b  f = f  g = g
    Pods = {a, b}
    Inums = {i1}
    HostInum = NoInum
    Flows = {f}
    Syscalls = {}
    PeerOf <- MCPeerOf
    NoPod = NoPod  NoInum = NoInum  NoItem = NoItem
    DaemonPods = {b}
    ExcludedPods = {}
    IPv6Pods = {}
    IgnoreDaemonset = TRUE
    PostOutcomes = {"stored", "replyLost", "failed"}
    Faults = {"killed", "taskFails"}
    Containers = 1
    ChanCap = 1
    PerfCap = 1
    MapCap = 2
INVARIANTS DaemonsetIgnored

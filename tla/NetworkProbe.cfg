SPECIFICATION Spec
CONSTANTS
    n1 = n1  n2 = n2  a1 = a1  a2 = a2
    Threads = {t1, t2}
    Nets = {n1, n2}
    Addrs = {a1, a2, lo}
    Zero = zero
    Loopback = lo
    AddrOf <- MCAddrOf
    DaemonAddrs = {a2}
    NoSock = NoSock  Idle = Idle
    RetSlots = 1
    MapCap = 1
    PerfCap = 1
INVARIANTS TypeOK TablesAreOwned
PROPERTIES EventsAreReal TrackedIsReported

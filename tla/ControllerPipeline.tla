-------------------------- MODULE ControllerPipeline --------------------------
(***************************************************************************)
(* The controller of one node (controller/src): one asynchronous task that *)
(* interleaves, at their awaits, the pod watcher (pod_watcher.rs), the     *)
(* network event handler (network.rs), the syscall event handler           *)
(* and the syscall recorder (syscall.rs), and one blocking thread that     *)
(* polls the eBPF programs (bpf.rs). They share the mutex around           *)
(* container_map, those of the pods' sets in SYSCALL_CACHE, and four       *)
(* bounded channels (main.rs).                                             *)
(*                                                                         *)
(* A network namespace is known by its inode number. The watcher puts the  *)
(* inode of a pod in container_map, then sends it to the blocking thread,  *)
(* which makes the kernel probes emit events for it; the handlers look the *)
(* inode of each event up in container_map to find the pod it belongs to.  *)
(***************************************************************************)
EXTENDS Naturals, Sequences, FiniteSets, Functions

CONSTANTS
    Pods,             \* pods of the node, each standing also for its IP address
    Inums,            \* inode numbers of network namespaces
    HostInum,         \* the inode of the host's namespace, or NoInum
    Flows,            \* what tells two network events of a pod apart
    Syscalls,         \* system call names
    PeerOf,           \* the pod at the other end of a flow, NoPod when outside
    NoPod, NoInum, NoItem,
    DaemonPods,       \* pods owned by a DaemonSet
    ExcludedPods,     \* pods in EXCLUDED_NAMESPACES
    IPv6Pods,         \* pods whose pod_ip does not parse as an Ipv4Addr
    IgnoreDaemonset,  \* IGNORE_DAEMONSET_TRAFFIC
    PostOutcomes,     \* what may become of a POST, see PostAnswered
    Faults,           \* those to consider: "killed", "taskFails", "pidReused"
    Containers,       \* containers of a pod
    ChanCap,          \* capacity of each mpsc channel (1000 in main.rs)
    PerfCap,          \* events a perf buffer holds between two polls
    MapCap            \* max_entries of the BPF maps (10240)

Kinds == {"net", "sys"}
Tasks == {"watcher"} \cup Kinds
SetUsers == {"sys", "recorder"}
Outcomes == {"stored", "refused", "replyLost", "failed"}

ASSUME PodsAssumption ==
    /\ NoPod \notin Pods
    /\ DaemonPods \subseteq Pods
    /\ ExcludedPods \subseteq Pods
    /\ IPv6Pods \subseteq Pods
ASSUME InumsAssumption == NoInum \notin Inums /\ HostInum \in Inums \cup {NoInum}
ASSUME ItemsAssumption ==
    /\ NoItem \notin Flows \cup Syscalls
    /\ PeerOf \in [Flows -> Pods \cup {NoPod}]
ASSUME BoundsAssumption ==
    /\ Containers \in Nat \ {0}
    /\ ChanCap \in Nat \ {0}
    /\ PerfCap \in Nat \ {0}
    /\ MapCap \in Nat \ {0}
ASSUME FlagsAssumption == IgnoreDaemonset \in BOOLEAN /\ PostOutcomes \subseteq Outcomes

VARIABLES
    proc,           \* the process: "up", "zombie" or "down", see TaskFails
    netns,          \* the inode of each running pod's network namespace
    applied,        \* pods the watch stream has an event to deliver for
    wpc,            \* where watch_pods awaits
    wpod,           \* the pod it processes
    winum,          \* the inode number it found for that pod
    misread,        \* history: that number is not the pod's, see Inspect
    wleft,          \* containers of that pod it has not inspected
    lockq,          \* FIFO queue of the mutex, its head holds container_map
    container_map,  \* inode number -> pod, NoPod where there is no entry
    inum_ch,        \* tx/rx of main.rs
    ip_ch,          \* sender_ip/recv_ip of main.rs
    event_ch,       \* network_event_sender and syscall_event_sender's channels
    epc,            \* where the blocking thread is in its loop
    ekind,          \* the perf buffer it polls
    batch,          \* what that poll has still to hand to sample_cb
    einum,          \* the inode number it writes into the two inode_num maps
    inode_num,      \* BPF map inode_num of each probe
    ignore_ips,     \* BPF map ignore_ips of the network probe
    perf,           \* the perf buffers
    hpc,            \* where each event handler awaits
    hev,            \* the event it handles
    traffic_cache,  \* TRAFFIC_CACHE
    syscall_cache,  \* SYSCALL_CACHE
    setq,           \* FIFO queue of the mutex of each pod's set in it
    rpc,            \* where send_syscall_cache_periodically awaits
    rpod,           \* the pod whose set it is at
    rleft,          \* what its iteration of SYSCALL_CACHE has not passed
    broker          \* history: the traffic records the broker stored

watcherVars == <<applied, wpc, wpod, winum, misread, wleft>>
sharedVars  == <<lockq, container_map>>
chanVars    == <<inum_ch, ip_ch, event_ch>>
ebpfVars    == <<epc, ekind, batch, einum>>
kernelVars  == <<inode_num, ignore_ips, perf>>
recorderVars == <<setq, rpc, rpod, rleft>>
handlerVars == <<hpc, hev, traffic_cache, syscall_cache, recorderVars>>
vars == <<proc, netns, watcherVars, sharedVars, chanVars, ebpfVars,
          kernelVars, handlerVars, broker>>

Items(k) == IF k = "net" THEN Flows ELSE Syscalls
Event(k) == [inum : Inums, item : Items(k)]
NoEvent == [inum |-> NoInum, item |-> NoItem]

Queues == {q \in [Kinds -> UNION {Seq(Event(k)) : k \in Kinds}] :
               \A k \in Kinds : q[k] \in Seq(Event(k))}

EmptyMap == [i \in Inums |-> NoPod]
NoQueues == [p \in Pods |-> <<>>]

(* A process that has just started, its queues, maps and caches empty. *)
FreshProcess ==
    /\ wpc = "idle" /\ wpod = NoPod /\ winum = NoInum /\ misread = FALSE /\ wleft = 0
    /\ lockq = <<>> /\ container_map = EmptyMap
    /\ inum_ch = <<>> /\ ip_ch = <<>> /\ event_ch = [k \in Kinds |-> <<>>]
    /\ epc = "poll" /\ ekind = "net" /\ batch = <<>> /\ einum = NoInum
    /\ inode_num = [k \in Kinds |-> {}] /\ ignore_ips = {}
    /\ perf = [k \in Kinds |-> <<>>]
    /\ hpc = [k \in Kinds |-> "recv"] /\ hev = [k \in Kinds |-> NoEvent]
    /\ traffic_cache = {} /\ syscall_cache = {}
    /\ setq = NoQueues /\ rpc = "away" /\ rpod = NoPod /\ rleft = {}

Init ==
    /\ proc = "up"
    /\ netns = [p \in Pods |-> NoInum]
    /\ applied = {}
    /\ FreshProcess
    /\ broker = {}

-------------------------------------------------------------------------------
(* The cluster: pods start, change and stop. A namespace inode is private  *)
(* to its pod, except the host's, and is reused once the pod is gone.      *)

PodStarts(p, i) ==
    /\ netns[p] = NoInum
    /\ i = HostInum \/ \A q \in Pods : netns[q] # i
    /\ netns' = [netns EXCEPT ![p] = i]
    /\ applied' = applied \cup {p}
    /\ UNCHANGED <<proc, wpc, wpod, winum, misread, wleft, sharedVars, chanVars, ebpfVars,
                   kernelVars, handlerVars, broker>>

PodModified(p) ==
    /\ netns[p] # NoInum
    /\ applied' = applied \cup {p}
    /\ UNCHANGED <<proc, netns, wpc, wpod, winum, misread, wleft, sharedVars, chanVars,
                   ebpfVars, kernelVars, handlerVars, broker>>

(* applied_objects() filters deletions out: the watcher never hears of it. *)
PodStops(p) ==
    /\ netns[p] # NoInum
    /\ netns' = [netns EXCEPT ![p] = NoInum]
    /\ UNCHANGED <<proc, watcherVars, sharedVars, chanVars, ebpfVars,
                   kernelVars, handlerVars, broker>>

-------------------------------------------------------------------------------
(* The mutex around container_map: tokio's is granted in request order.    *)

Request(t) == lockq' = Append(lockq, t)
Holds(t) == lockq # <<>> /\ Head(lockq) = t
Release == lockq' = Tail(lockq)

-------------------------------------------------------------------------------
(* watch_pods: one pod event at a time, try_for_each awaits each of them.  *)

WatcherIdle ==
    /\ wpc' = "idle" /\ wpod' = NoPod /\ wleft' = 0
    /\ winum' = NoInum /\ misread' = FALSE

(* A pod with an unmet Ready condition, no container status or no address *)
(* is passed over; it is seen again when it changes.                      *)
WatchSkips(p) ==
    /\ proc = "up" /\ wpc = "idle" /\ p \in applied
    /\ applied' = applied \ {p}
    /\ UNCHANGED <<proc, netns, wpc, wpod, winum, misread, wleft, sharedVars, chanVars,
                   ebpfVars, kernelVars, handlerVars, broker>>

(* Mutant: the next event is taken up while the pod in hand waits to be    *)
(* entered, and what was found for that pod is taken for the next one's.   *)
WatchEventInBetween(p) ==
    /\ proc = "up" /\ wpc \in {"idle", "lock"} /\ p \in applied
    /\ applied' = applied \ {p}
    /\ wpc' = IF wpc = "idle" THEN "post" ELSE wpc
    /\ wpod' = p
    /\ UNCHANGED <<proc, netns, winum, misread, wleft, sharedVars, chanVars, ebpfVars,
                   kernelVars, handlerVars, broker>>

WatchEvent(p) ==
    /\ proc = "up" /\ wpc = "idle" /\ p \in applied
    /\ applied' = applied \ {p}
    /\ wpc' = "post" /\ wpod' = p
    /\ UNCHANGED <<proc, netns, winum, misread, wleft, sharedVars, chanVars, ebpfVars,
                   kernelVars, handlerVars, broker>>

(* should_process_pod, then the loop of process_container_ids. *)
ProcessUnlessExcluded ==
    IF wpod \in ExcludedPods
    THEN WatcherIdle
    ELSE wpc' = "inspect" /\ wleft' = Containers /\ UNCHANGED <<wpod, winum, misread>>

(* The POST of pod/spec came back; its outcome is logged and not used. *)
PodSpecPosted ==
    /\ proc = "up" /\ wpc = "post"
    /\ IF IgnoreDaemonset /\ wpod \in DaemonPods
       THEN wpc' = "sendIp" /\ UNCHANGED <<wpod, winum, misread, wleft>>
       ELSE ProcessUnlessExcluded
    /\ UNCHANGED <<proc, netns, applied, sharedVars, chanVars, ebpfVars,
                   kernelVars, handlerVars, broker>>

SendIp ==
    /\ proc = "up" /\ wpc = "sendIp"
    /\ Len(ip_ch) < ChanCap
    /\ ip_ch' = Append(ip_ch, wpod)
    /\ ProcessUnlessExcluded
    /\ UNCHANGED <<proc, netns, applied, sharedVars, inum_ch, event_ch, ebpfVars,
                   kernelVars, handlerVars, broker>>

(* get_pod_inspect: containerd gives the pid of a container and /proc its  *)
(* namespace, unless the container is gone by then (no inode), or its id   *)
(* is not one of containerd's (no lock is asked for). Neither the task's   *)
(* status nor whose process it is by now is looked at: the pid may have    *)
(* been given to a process of any other namespace.                         *)
Inspect ==
    /\ proc = "up" /\ wpc = "inspect" /\ wleft > 0
    /\ wleft' = wleft - 1
    /\ \/ /\ winum' \in {netns[wpod], NoInum}
                        \cup (IF "pidReused" \in Faults THEN Inums ELSE {})
          /\ misread' = (winum' \notin {netns[wpod], NoInum})
          /\ wpc' = "lock"
          /\ Request("watcher")
       \/ UNCHANGED <<winum, misread, wpc, lockq>>
    /\ UNCHANGED <<proc, netns, applied, wpod, container_map, chanVars, ebpfVars,
                   kernelVars, handlerVars, broker>>

(* process_container_ids returns None: no container gave an inode. *)
GiveUp ==
    /\ proc = "up" /\ wpc = "inspect" /\ wleft = 0
    /\ WatcherIdle
    /\ UNCHANGED <<proc, netns, applied, sharedVars, chanVars, ebpfVars,
                   kernelVars, handlerVars, broker>>

(* Mutant: the inode number is sent without looking whether there is one.  *)
RegisterUnchecked ==
    /\ proc = "up" /\ wpc = "lock" /\ Holds("watcher")
    /\ container_map' = [container_map EXCEPT ![winum] = wpod]
    /\ wpc' = "sendInum"
    /\ Release
    /\ UNCHANGED <<proc, netns, applied, wpod, winum, misread, wleft, chanVars, ebpfVars,
                   kernelVars, handlerVars, broker>>

(* Mutant: the inode number is sent before the pod is entered in the map,  *)
(* which is left to the next container.                                    *)
RegisterLater ==
    /\ proc = "up" /\ wpc = "lock" /\ Holds("watcher")
    /\ wpc' = IF winum = NoInum THEN "inspect" ELSE "sendInum"
    /\ Release
    /\ UNCHANGED <<proc, netns, applied, container_map, wpod, winum, misread, wleft,
                   chanVars, ebpfVars, kernelVars, handlerVars, broker>>

(* Mutant: the guard outlives the iteration that found no inode number.    *)
RegisterKeepsGuard ==
    /\ proc = "up" /\ wpc = "lock" /\ Holds("watcher")
    /\ IF winum = NoInum
       THEN wpc' = "inspect" /\ UNCHANGED <<container_map, lockq>>
       ELSE /\ container_map' = [container_map EXCEPT ![winum] = wpod]
            /\ wpc' = "sendInum"
            /\ Release
    /\ UNCHANGED <<proc, netns, applied, wpod, winum, misread, wleft, chanVars, ebpfVars,
                   kernelVars, handlerVars, broker>>

(* The insertion under the lock; the guard is dropped on the way out. *)
Register ==
    /\ proc = "up" /\ wpc = "lock" /\ Holds("watcher")
    /\ IF winum = NoInum
       THEN wpc' = "inspect" /\ UNCHANGED container_map
       ELSE /\ container_map' = [container_map EXCEPT ![winum] = wpod]
            /\ wpc' = "sendInum"
    /\ Release
    /\ UNCHANGED <<proc, netns, applied, wpod, winum, misread, wleft, chanVars, ebpfVars,
                   kernelVars, handlerVars, broker>>

SendInum ==
    /\ proc = "up" /\ wpc = "sendInum"
    /\ Len(inum_ch) < ChanCap
    /\ inum_ch' = Append(inum_ch, winum)
    /\ WatcherIdle
    /\ UNCHANGED <<proc, netns, applied, sharedVars, ip_ch, event_ch, ebpfVars,
                   kernelVars, handlerVars, broker>>

-------------------------------------------------------------------------------
(* The kernel side, in outline (NetworkProbe has the network probe in      *)
(* full): a probe emits an event only for an inode in its map, the network *)
(* probe only when neither end is in ignore_ips and the two ends differ.   *)
(* An event that finds its perf buffer full is lost.                       *)

Reported(p, x) == PeerOf[x] # p /\ {p, PeerOf[x]} \cap ignore_ips = {}

Emit(k, p, x) ==
    /\ netns[p] \in inode_num[k]
    /\ k = "net" => Reported(p, x)
    /\ Len(perf[k]) < PerfCap
    /\ perf' = [perf EXCEPT ![k] = Append(@, [inum |-> netns[p], item |-> x])]
    /\ UNCHANGED <<proc, netns, watcherVars, sharedVars, chanVars, ebpfVars,
                   inode_num, ignore_ips, handlerVars, broker>>

-------------------------------------------------------------------------------
(* ebpf_handle: the loop of the blocking thread.                           *)

(* Both perf buffers are polled in turn, then the channels are looked at. *)
PollEnds ==
    IF ekind = "net"
    THEN epc' = "poll" /\ ekind' = "sys"
    ELSE epc' = "tryInum" /\ ekind' = "net"

(* poll() hands sample_cb what the perf buffer holds as it begins. *)
Poll ==
    /\ proc # "down" /\ epc = "poll"
    /\ batch' = perf[ekind]
    /\ perf' = [perf EXCEPT ![ekind] = <<>>]
    /\ IF batch' = <<>> THEN PollEnds ELSE epc' = "deliver" /\ UNCHANGED ekind
    /\ UNCHANGED <<proc, netns, watcherVars, sharedVars, chanVars, einum, inode_num,
                   ignore_ips, handlerVars, broker>>

(* Mutant: an event for which the channel has no room is put back, behind  *)
(* those that came meanwhile.                                              *)
DeliverOrPutBack ==
    /\ proc # "down" /\ epc = "deliver"
    /\ LET event == Head(batch)
           full == proc # "zombie" /\ Len(event_ch[ekind]) = ChanCap
       IN  /\ event_ch' = IF full \/ proc = "zombie" THEN event_ch
                          ELSE [event_ch EXCEPT ![ekind] = Append(@, event)]
           /\ perf' = IF full THEN [perf EXCEPT ![ekind] = Append(@, event)] ELSE perf
    /\ batch' = Tail(batch)
    /\ IF batch' = <<>> THEN PollEnds ELSE UNCHANGED <<epc, ekind>>
    /\ UNCHANGED <<proc, netns, watcherVars, sharedVars, inum_ch, ip_ch, einum,
                   inode_num, ignore_ips, handlerVars, broker>>

(* sample_cb: blocking_send waits for room, or fails at once when the      *)
(* receiver is gone, and the failure is ignored.                           *)
Deliver ==
    /\ proc # "down" /\ epc = "deliver"
    /\ IF proc = "zombie"
       THEN UNCHANGED event_ch
       ELSE /\ Len(event_ch[ekind]) < ChanCap
            /\ event_ch' = [event_ch EXCEPT ![ekind] = Append(@, Head(batch))]
    /\ batch' = Tail(batch)
    /\ IF batch' = <<>> THEN PollEnds ELSE UNCHANGED <<epc, ekind>>
    /\ UNCHANGED <<proc, netns, watcherVars, sharedVars, inum_ch, ip_ch, einum,
                   kernelVars, handlerVars, broker>>

HasRoom(map, key) == key \in map \/ Cardinality(map) < MapCap

(* After the inode number, at most one address, if that is enabled. *)
AfterInum == epc' = IF IgnoreDaemonset THEN "tryIp" ELSE "poll"

(* rx.try_recv(), at most one inode number per turn of the loop, which is  *)
(* written to the network probe's map first.                               *)
TryInum ==
    /\ proc # "down" /\ epc = "tryInum"
    /\ IF inum_ch = <<>>
       THEN AfterInum /\ UNCHANGED <<inum_ch, einum, inode_num>>
       ELSE /\ HasRoom(inode_num["net"], Head(inum_ch))
            /\ inum_ch' = Tail(inum_ch)
            /\ einum' = Head(inum_ch)
            /\ inode_num' = [inode_num EXCEPT !["net"] = @ \cup {Head(inum_ch)}]
            /\ epc' = "mapSys"
    /\ UNCHANGED <<proc, netns, watcherVars, sharedVars, ip_ch, event_ch, ekind, batch,
                   ignore_ips, perf, handlerVars, broker>>

(* Mutant: the second map is not written. *)
MapSysForgotten ==
    /\ proc # "down" /\ epc = "mapSys"
    /\ einum' = NoInum
    /\ AfterInum
    /\ UNCHANGED <<proc, netns, watcherVars, sharedVars, chanVars, ekind, batch,
                   kernelVars, handlerVars, broker>>

(* The same inode number goes into the syscall probe's map. *)
MapSys ==
    /\ proc # "down" /\ epc = "mapSys"
    /\ inode_num' = [inode_num EXCEPT !["sys"] = @ \cup {einum}]
    /\ einum' = NoInum
    /\ AfterInum
    /\ UNCHANGED <<proc, netns, watcherVars, sharedVars, chanVars, ekind, batch,
                   ignore_ips, perf, handlerVars, broker>>

TryIp ==
    /\ proc # "down" /\ epc = "tryIp"
    /\ IF ip_ch = <<>>
       THEN UNCHANGED <<ip_ch, ignore_ips>>
       ELSE /\ Head(ip_ch) \notin IPv6Pods /\ HasRoom(ignore_ips, Head(ip_ch))
            /\ ip_ch' = Tail(ip_ch)
            /\ ignore_ips' = ignore_ips \cup {Head(ip_ch)}
    /\ epc' = "poll"
    /\ UNCHANGED <<proc, netns, watcherVars, sharedVars, inum_ch, event_ch, ekind,
                   batch, einum, inode_num, perf, handlerVars, broker>>

-------------------------------------------------------------------------------
(* handle_network_events and handle_syscall_events.                        *)

Recv(k) ==
    /\ proc = "up" /\ hpc[k] = "recv" /\ event_ch[k] # <<>>
    /\ hev' = [hev EXCEPT ![k] = Head(event_ch[k])]
    /\ event_ch' = [event_ch EXCEPT ![k] = Tail(@)]
    /\ hpc' = [hpc EXCEPT ![k] = "lock"]
    /\ Request(k)
    /\ UNCHANGED <<proc, netns, watcherVars, container_map, inum_ch, ip_ch,
                   ebpfVars, kernelVars, traffic_cache, syscall_cache, recorderVars, broker>>

(* The pod an event is attributed to: container_map.get(&event.inum). *)
PodOf(e) == container_map[e.inum]

(* An event of no known inode, of a flow to the pod itself or of a flow   *)
(* already in TRAFFIC_CACHE is not posted.                                *)
NeedsPost(e) ==
    /\ PodOf(e) # NoPod
    /\ PeerOf[e.item] # PodOf(e)
    /\ <<PodOf(e), e.item>> \notin traffic_cache

Done(k) ==
    /\ hpc' = [hpc EXCEPT ![k] = "recv"]
    /\ hev' = [hev EXCEPT ![k] = NoEvent]
    /\ Release

(* process_network_event posts while the caller's guard is alive. *)
BeginPost ==
    /\ proc = "up" /\ hpc["net"] = "lock" /\ Holds("net")
    /\ NeedsPost(hev["net"])
    /\ hpc' = [hpc EXCEPT !["net"] = "post"]
    /\ UNCHANGED <<proc, netns, watcherVars, sharedVars, chanVars, ebpfVars,
                   kernelVars, hev, traffic_cache, syscall_cache, recorderVars, broker>>

SkipPost ==
    /\ proc = "up" /\ hpc["net"] = "lock" /\ Holds("net")
    /\ ~NeedsPost(hev["net"])
    /\ Done("net")
    /\ UNCHANGED <<proc, netns, watcherVars, container_map, chanVars, ebpfVars,
                   kernelVars, traffic_cache, syscall_cache, recorderVars, broker>>

(* api_post_call returns Ok for every answer of the broker, also for an    *)
(* error status ("refused"), and Err when there is none, whether the       *)
(* broker stored the record ("replyLost") or not ("failed").               *)
Accepted(outcome) == outcome \in {"stored", "refused"}

PostAnswered(outcome) ==
    /\ proc = "up" /\ hpc["net"] = "post"
    /\ LET r == <<PodOf(hev["net"]), hev["net"].item>>
       IN  /\ broker' = IF outcome \in {"stored", "replyLost"}
                        THEN broker \cup {r} ELSE broker
           /\ traffic_cache' = IF Accepted(outcome)
                               THEN traffic_cache \cup {r} ELSE traffic_cache
    /\ Done("net")
    /\ UNCHANGED <<proc, netns, watcherVars, container_map, chanVars, ebpfVars,
                   kernelVars, syscall_cache, recorderVars>>

(* Of an event of no known inode nothing is noted. process_syscall_event:  *)
(* the pod's set is found or made in SYSCALL_CACHE (get_with) and its      *)
(* mutex awaited, both with the caller's guard alive.                      *)
FindSet ==
    /\ proc = "up" /\ hpc["sys"] = "lock" /\ Holds("sys")
    /\ IF PodOf(hev["sys"]) = NoPod
       THEN Done("sys")
       ELSE hpc' = [hpc EXCEPT !["sys"] = "cache"] /\ UNCHANGED <<hev, lockq>>
    /\ UNCHANGED <<proc, netns, watcherVars, container_map, chanVars, ebpfVars,
                   kernelVars, traffic_cache, syscall_cache, recorderVars, broker>>

HoldsSet(u, p) == setq[p] # <<>> /\ Head(setq[p]) = u
RequestSet(q, u, p) == [q EXCEPT ![p] = Append(@, u)]
ReleaseSet(p) == [setq EXCEPT ![p] = Tail(@)]

AskSet ==
    /\ proc = "up" /\ hpc["sys"] = "cache"
    /\ hpc' = [hpc EXCEPT !["sys"] = "set"]
    /\ setq' = RequestSet(setq, "sys", PodOf(hev["sys"]))
    /\ UNCHANGED <<proc, netns, watcherVars, sharedVars, chanVars, ebpfVars, kernelVars,
                   hev, traffic_cache, syscall_cache, rpc, rpod, rleft, broker>>

RecordSyscall ==
    LET e == hev["sys"]
    IN  /\ proc = "up" /\ hpc["sys"] = "set" /\ HoldsSet("sys", PodOf(e))
        /\ syscall_cache' = syscall_cache \cup {<<PodOf(e), e.item>>}
        /\ setq' = ReleaseSet(PodOf(e))
        /\ Done("sys")
        /\ UNCHANGED <<proc, netns, watcherVars, container_map, chanVars, ebpfVars,
                       kernelVars, traffic_cache, rpc, rpod, rleft, broker>>

-------------------------------------------------------------------------------
(* send_syscall_cache_periodically, for what it locks: SyscallReporter has *)
(* what it sends, LAST_SENT_CACHE and the evictions of the caches.         *)

(* Pods with an entry in SYSCALL_CACHE; get_with leaves an empty one.      *)
Cached == {r[1] : r \in syscall_cache}
             \cup (IF hpc["sys"] = "set" THEN {PodOf(hev["sys"])} ELSE {})

RecorderAway == setq' = NoQueues /\ rpc' = "away" /\ rpod' = NoPod /\ rleft' = {}

(* The iteration goes to the next entry, past places that have none yet;   *)
(* q are the queues it leaves behind. After the last the batch is posted   *)
(* and a minute slept, with no lock held.                                  *)
GoesOn(left, q) ==
    \/ /\ left \cap Cached = {}
       /\ setq' = q /\ rpc' = "away" /\ rpod' = NoPod /\ rleft' = {}
    \/ \E p \in left \cap Cached, passed \in SUBSET (left \ Cached) :
          /\ setq' = RequestSet(q, "recorder", p)
          /\ rpc' = "lock" /\ rpod' = p /\ rleft' = left \ (passed \cup {p})

RecorderTurn ==
    /\ proc = "up" /\ rpc = "away"
    /\ GoesOn(Pods, setq)
    /\ UNCHANGED <<proc, netns, watcherVars, sharedVars, chanVars, ebpfVars, kernelVars,
                   hpc, hev, traffic_cache, syscall_cache, broker>>

RecorderLocks ==
    /\ proc = "up" /\ rpc = "lock" /\ HoldsSet("recorder", rpod)
    /\ rpc' = "compare"
    /\ UNCHANGED <<proc, netns, watcherVars, sharedVars, chanVars, ebpfVars, kernelVars,
                   hpc, hev, traffic_cache, syscall_cache, setq, rpod, rleft, broker>>

(* Mutant: the guard of the set lives until the batch has been posted.     *)
RecorderKeepsGuard ==
    /\ proc = "up" /\ rpc = "compare"
    /\ GoesOn(rleft, setq)
    /\ UNCHANGED <<proc, netns, watcherVars, sharedVars, chanVars, ebpfVars, kernelVars,
                   hpc, hev, traffic_cache, syscall_cache, broker>>

(* Mutant: it looks the pod up in container_map with its set locked.       *)
RecorderLooksUp ==
    /\ proc = "up" /\ rpc = "compare"
    /\ \/ /\ "recorder" \notin Range(lockq)
          /\ Request("recorder") /\ UNCHANGED recorderVars
       \/ /\ Holds("recorder") /\ Release
          /\ GoesOn(rleft, ReleaseSet(rpod))
    /\ UNCHANGED <<proc, netns, watcherVars, container_map, chanVars, ebpfVars,
                   kernelVars, hpc, hev, traffic_cache, syscall_cache, broker>>

(* The set is held through the awaits of LAST_SENT_CACHE.get_with and of   *)
(* the mutex of what was last sent, which nobody else takes.               *)
RecorderCompares ==
    /\ proc = "up" /\ rpc = "compare"
    /\ GoesOn(rleft, ReleaseSet(rpod))
    /\ UNCHANGED <<proc, netns, watcherVars, sharedVars, chanVars, ebpfVars, kernelVars,
                   hpc, hev, traffic_cache, syscall_cache, broker>>

-------------------------------------------------------------------------------
(* Failures. Nothing but the broker's tables outlives the process.         *)

(* Mutant: the BPF maps are pinned and outlive the process. *)
DiesKeepingMaps ==
    /\ proc' = "down"
    /\ WatcherIdle /\ RecorderAway
    /\ lockq' = <<>> /\ container_map' = EmptyMap
    /\ inum_ch' = <<>> /\ ip_ch' = <<>> /\ event_ch' = [k \in Kinds |-> <<>>]
    /\ epc' = "poll" /\ ekind' = "net" /\ batch' = <<>> /\ einum' = NoInum
    /\ perf' = [k \in Kinds |-> <<>>]
    /\ hpc' = [k \in Kinds |-> "recv"] /\ hev' = [k \in Kinds |-> NoEvent]
    /\ traffic_cache' = {} /\ syscall_cache' = {}
    /\ UNCHANGED <<netns, applied, inode_num, ignore_ips, broker>>

Dies ==
    /\ proc' = "down"
    /\ WatcherIdle /\ RecorderAway
    /\ lockq' = <<>> /\ container_map' = EmptyMap
    /\ inum_ch' = <<>> /\ ip_ch' = <<>> /\ event_ch' = [k \in Kinds |-> <<>>]
    /\ epc' = "poll" /\ ekind' = "net" /\ batch' = <<>> /\ einum' = NoInum
    /\ inode_num' = [k \in Kinds |-> {}] /\ ignore_ips' = {}
    /\ perf' = [k \in Kinds |-> <<>>]
    /\ hpc' = [k \in Kinds |-> "recv"] /\ hev' = [k \in Kinds |-> NoEvent]
    /\ traffic_cache' = {} /\ syscall_cache' = {}
    /\ UNCHANGED <<netns, applied, broker>>

(* An unwrap in the loop of the blocking thread panics: main's unwrap of   *)
(* its JoinHandle ends the process, no blocking thread being left.         *)
InumPanics ==
    /\ proc # "down" /\ epc = "tryInum" /\ inum_ch # <<>>
    /\ ~HasRoom(inode_num["net"], Head(inum_ch))
    /\ Dies

IpPanics ==
    /\ proc # "down" /\ epc = "tryIp" /\ ip_ch # <<>>
    /\ Head(ip_ch) \in IPv6Pods \/ ~HasRoom(ignore_ips, Head(ip_ch))
    /\ Dies

(* The process is killed from outside: eviction, rollout, node failure. *)
Killed == "killed" \in Faults /\ proc # "down" /\ Dies

(* A watch stream yields an error, or an unwrap panics in one of the       *)
(* tasks: try_join! drops them all with their receivers, main panics, and  *)
(* the runtime then waits for the blocking thread, whose loop never ends.  *)
TaskFails ==
    /\ "taskFails" \in Faults /\ proc = "up"
    /\ proc' = "zombie"
    /\ WatcherIdle /\ RecorderAway
    /\ lockq' = <<>> /\ container_map' = EmptyMap
    /\ event_ch' = [k \in Kinds |-> <<>>]
    /\ hpc' = [k \in Kinds |-> "recv"] /\ hev' = [k \in Kinds |-> NoEvent]
    /\ UNCHANGED <<netns, applied, inum_ch, ip_ch, ebpfVars, kernelVars,
                   traffic_cache, syscall_cache, broker>>

(* The kubelet starts the container again, the watch begins with a list. *)
Restart ==
    /\ proc = "down"
    /\ proc' = "up"
    /\ applied' = {p \in Pods : netns[p] # NoInum}
    /\ UNCHANGED <<netns, wpc, wpod, winum, misread, wleft, sharedVars, chanVars, ebpfVars,
                   kernelVars, handlerVars, broker>>

-------------------------------------------------------------------------------
ClusterStep == \E p \in Pods : PodModified(p) \/ PodStops(p)
                               \/ \E i \in Inums : PodStarts(p, i)
KernelStep == \E k \in Kinds, p \in Pods : \E x \in Items(k) : Emit(k, p, x)
WatcherStep ==
    \/ \E p \in Pods : WatchEvent(p) \/ WatchSkips(p)
    \/ SendIp \/ Inspect \/ GiveUp \/ Register \/ SendInum
EbpfStep ==
    \/ Poll \/ Deliver \/ TryInum \/ MapSys \/ TryIp
    \/ InumPanics \/ IpPanics
NetStep == Recv("net") \/ BeginPost \/ SkipPost
SysStep == Recv("sys") \/ FindSet \/ AskSet \/ RecordSyscall
RecorderStep == RecorderLocks \/ RecorderCompares
TrafficPosted == \E outcome \in PostOutcomes : PostAnswered(outcome)

Next ==
    \/ ClusterStep \/ KernelStep
    \/ WatcherStep \/ EbpfStep \/ NetStep \/ SysStep
    \/ PodSpecPosted \/ TrafficPosted
    \/ RecorderTurn \/ RecorderStep
    \/ Killed \/ TaskFails \/ Restart

Spec == Init /\ [][Next]_vars

(* The runtime runs every task that can run and the blocking thread has a  *)
(* thread of its own; the kubelet restarts a container that exited. That   *)
(* the broker and, at Inspect, containerd answer, or that the connection   *)
(* breaks, is an assumption: neither client sets a timeout. The recorder   *)
(* need not take its turn, for its own POST may never come back.           *)
Fairness ==
    /\ WF_vars(WatcherStep) /\ WF_vars(EbpfStep)
    /\ WF_vars(NetStep) /\ WF_vars(SysStep) /\ WF_vars(RecorderStep)
    /\ WF_vars(PodSpecPosted) /\ WF_vars(TrafficPosted)
    /\ WF_vars(Restart)

FairSpec == Spec /\ Fairness

-------------------------------------------------------------------------------
(* Properties.                                                             *)

TypeOK ==
    /\ proc \in {"up", "zombie", "down"}
    /\ netns \in [Pods -> Inums \cup {NoInum}]
    /\ applied \subseteq Pods
    /\ wpc \in {"idle", "post", "sendIp", "inspect", "lock", "sendInum"}
    /\ wpod \in Pods \cup {NoPod} /\ (wpc # "idle" => wpod \in Pods)
    /\ winum \in Inums \cup {NoInum} /\ (wpc = "sendInum" => winum \in Inums)
    /\ misread \in BOOLEAN
    /\ wleft \in 0 .. Containers
    /\ lockq \in Seq(Tasks)
    /\ container_map \in [Inums -> Pods \cup {NoPod}]
    /\ inum_ch \in Seq(Inums)
    /\ ip_ch \in Seq(Pods)
    /\ event_ch \in Queues
    /\ epc \in {"poll", "deliver", "tryInum", "mapSys", "tryIp"}
    /\ ekind \in Kinds
    /\ batch \in Seq(Event(ekind)) /\ (epc = "deliver" <=> batch # <<>>)
    /\ einum \in Inums \cup {NoInum} /\ (epc = "mapSys" => einum \in Inums)
    /\ inode_num \in [Kinds -> SUBSET Inums]
    /\ ignore_ips \subseteq Pods
    /\ perf \in Queues
    /\ hpc \in [Kinds -> {"recv", "lock", "post", "cache", "set"}]
    /\ hpc["net"] \notin {"cache", "set"} /\ hpc["sys"] # "post"
    /\ hev \in [Kinds -> UNION {Event(k) \cup {NoEvent} : k \in Kinds}]
    /\ \A k \in Kinds : hpc[k] # "recv" => hev[k] \in Event(k)
    /\ traffic_cache \subseteq Pods \X Flows
    /\ syscall_cache \subseteq Pods \X Syscalls
    /\ setq \in [Pods -> Seq(SetUsers)]
    /\ rpc \in {"away", "lock", "compare"}
    /\ rpod \in Pods \cup {NoPod} /\ (rpc # "away" <=> rpod \in Pods)
    /\ rleft \subseteq Pods \ {rpod}
    /\ broker \subseteq Pods \X Flows

Mapped == {i \in Inums : container_map[i] # NoPod}
InumsOf(events) == {e.inum : e \in Range(events)}

(* Whatever reached the kernel or is on its way there or back has an entry *)
(* in container_map: the watcher inserts before it sends, so a handler     *)
(* never drops an event for want of an entry (network.rs, syscall.rs:      *)
(* "if let Some(pod_inspect)").                                            *)
MonitoredIsMapped ==
    proc # "zombie" =>
        /\ \A k \in Kinds : inode_num[k] \subseteq Mapped
        /\ \A k \in Kinds : hpc[k] # "recv" => hev[k].inum \in Mapped

(* What makes it inductive: the same of everything in flight. *)
InFlightIsMapped ==
    proc # "zombie" =>
        /\ wpc = "sendInum" => winum \in Mapped
        /\ Range(inum_ch) \subseteq Mapped
        /\ epc = "mapSys" => einum \in Mapped
        /\ InumsOf(batch) \subseteq Mapped
        /\ \A k \in Kinds : InumsOf(perf[k]) \cup InumsOf(event_ch[k]) \subseteq Mapped

(* Two kinds of mutex, taken in one order: container_map first, then the   *)
(* set of one pod. A task is in the queue of container_map's only where    *)
(* the code awaits it or goes on with the guard: the network handler holds *)
(* it across the POST, the syscall handler across get_with and the await   *)
(* of the pod's set. The recorder has one set at a time, never             *)
(* container_map, and holds it across the awaits of its comparison.        *)
Wants(t) == IF t = "watcher" THEN wpc = "lock" ELSE hpc[t] # "recv"
SetOf(u) == IF u = "recorder" THEN rpod
            ELSE IF hpc["sys"] = "set" THEN PodOf(hev["sys"]) ELSE NoPod

MapLock ==
    /\ IsInjective(lockq)
    /\ Range(lockq) = {t \in Tasks : Wants(t)}
    /\ \A k \in Kinds : hpc[k] \in {"post", "cache", "set"} => Holds(k)
SetLocks ==
    /\ \A p \in Pods : /\ IsInjective(setq[p])
                       /\ Range(setq[p]) = {u \in SetUsers : SetOf(u) = p}
    /\ rpc = "compare" => HoldsSet("recorder", rpod)
LockDiscipline == MapLock /\ SetLocks

(* Who waits for whom: for the holder of a mutex, for the blocking thread  *)
(* to make room in a channel, or for a handler to.                         *)
Actors == Tasks \cup {"ebpf", "recorder"}
IsBehindHead(q, t, u) == q # <<>> /\ u = Head(q) /\ t \in Range(Tail(q))
WaitsFor(t, u) ==
    \/ IsBehindHead(lockq, t, u)
    \/ \E p \in Pods : IsBehindHead(setq[p], t, u)
    \/ /\ t = "watcher" /\ u = "ebpf"
       /\ \/ wpc = "sendIp" /\ Len(ip_ch) = ChanCap
          \/ wpc = "sendInum" /\ Len(inum_ch) = ChanCap
    \/ t = "ebpf" /\ epc = "deliver" /\ u = ekind /\ Len(event_ch[u]) = ChanCap

(* Only the cluster, the kernel or the clock can give it something to do. *)
Idle(t) ==
    \/ t = "watcher" /\ wpc = "idle" /\ applied = {}
    \/ t \in Kinds /\ hpc[t] = "recv" /\ event_ch[t] = <<>>
    \/ t = "recorder" /\ rpc = "away"

(* It can take its next step, or awaits an answer of the broker or of      *)
(* containerd.                                                             *)
Free(t) == ~Idle(t) /\ \A u \in Actors : ~WaitsFor(t, u)

Behind(S) == S \cup {t \in Actors : \E u \in S : WaitsFor(t, u)}

(* The four channels, both kinds of mutex and the blocking thread never    *)
(* make a circle, and nobody waits for one that has nothing to do: whoever *)
(* waits is at most four places behind an actor that can go on, or that    *)
(* awaits the broker or containerd: the watcher behind the blocking        *)
(* thread, that behind a handler, that behind the syscall handler, and     *)
(* that behind the recorder.                                               *)
OnlyBrokerStalls ==
    proc = "up" =>
        {t \in Actors : ~Idle(t)}
            \subseteq Behind(Behind(Behind(Behind({t \in Actors : Free(t)}))))

(* container_map is never told of a pod that stops (applied_objects hides *)
(* deletions), and the watcher inserts what it found some awaits before.   *)
(* Still, once a pod is entered under the namespace it has to itself, and  *)
(* the watcher has nothing new of it, no other pod takes its entry, except *)
(* through a pid that was given away between the answer of containerd and  *)
(* the look into /proc (container.rs:49-70).                               *)
OwnEntryStays ==
    [][\A p \in Pods, i \in Inums :
          /\ proc' = "up" /\ i # HostInum /\ ~misread
          /\ netns[p] = i /\ container_map[i] = p /\ p \notin applied
          => container_map'[i] = p]_vars

(* From the probes to the handlers: see EventPipe. Perf buffer, batch and  *)
(* channel are one queue, the youngest events in the perf buffer.          *)
Way(k) == event_ch[k] \o (IF ekind = k THEN batch ELSE <<>>) \o perf[k]
Noted(k) == IF k = "net" THEN broker ELSE syscall_cache
Pipe == INSTANCE EventPipe
    WITH Events <- [k \in Kinds |-> Event(k)], Capacity <- ChanCap + 2 * PerfCap,
         life <- proc, queue <- [k \in Kinds |-> Way(k)], current <- hev,
         record <- [k \in Kinds |-> Noted(k)]
EventsKeepOrder == Pipe!Spec

(* With IGNORE_DAEMONSET_TRAFFIC on, no traffic of a daemonset's pod is    *)
(* recorded.                                                               *)
DaemonsetIgnored ==
    IgnoreDaemonset => \A r \in broker : {r[1], PeerOf[r[2]]} \cap DaemonPods = {}

(* A pod entered in container_map is monitored by both probes in the end,  *)
(* unless the process fails first.                                         *)
RegisteredIsMonitored ==
    \A i \in Inums : i \in Mapped /\ proc = "up"
                        ~> i \in inode_num["net"] \cap inode_num["sys"] \/ proc # "up"

(* Both handlers come back to receive, so the blocking thread is not held  *)
(* in blocking_send for ever.                                              *)
HandlersReturn == \A k \in Kinds : hpc[k] # "recv" ~> hpc[k] = "recv"
===============================================================================

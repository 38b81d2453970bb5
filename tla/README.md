# Kube-Guardian in TLA+

Kube-Guardian watches what the pods of a Kubernetes cluster do and writes network policies and
seccomp profiles from it. This directory models the parts of it where steps of several actors
meet, checks the models with TLC on small instances, and proves their main invariants with TLAPS
for instances of any size.

## The system

One *controller* runs on every node, one *broker* with a PostgreSQL database in the cluster, and
the *advisor* is a command that a user runs against the broker.

| Component | State it keeps | Operations | What makes it correct |
|---|---|---|---|
| Network probe, `controller/src/bpf/network_probe.bpf.c` | the BPF maps `sockets`, `accepted_sockets`, `inode_num`, `ignore_ips`, the perf buffer | entry and return of `tcp_v4_connect` and `inet_csk_accept`, `udp_sendmsg` | an event is the connection its own thread made; what was tracked is reported; the maps do not fill with dead entries |
| Syscall probe, `syscall.bpf.c` | `inode_num`, a perf buffer | one tracepoint | only monitored namespaces |
| Blocking thread, `bpf.rs` | both probes, the ends of four channels | poll both perf buffers, hand events on, write one inode number and one address per turn | never in a circle of waiting with the task; every registered pod is monitored in the end |
| Pod watcher, `pod_watcher.rs`, `container.rs` | its place in the list of containers | post the pod, send its address, inspect containers, enter it in `container_map`, send its inode number | the pod is in `container_map` before the kernel can report it |
| Network and syscall handlers, `network.rs`, `syscall.rs` | `TRAFFIC_CACHE`, `SYSCALL_CACHE` | look the inode of an event up, post the flow or note the call | a flow is suppressed only after the broker has answered for it (`BrokerTraffic` has what that is worth); both locks are given back |
| Syscall recorder, `syscall.rs` | `LAST_SENT_CACHE`, its place among the sets | once a minute, lock and compare one set after the other, post those that changed | it holds one set at a time and never `container_map`; what it takes for sent is on record; what was seen is in the broker in the end |
| Service watcher, `service_watcher.rs` | nothing | post each service, on every node | the latest service is on record, whoever posts last |
| Broker, `broker/src` | the tables `pod_traffic`, `pod_details`, `svc_details`, `pod_syscalls`; a pool of connections | `POST pod/traffic`, `pod/spec`, `svc/spec`, `pod/syscalls`; reads by name and by address | recorded flows stay, no flow is taken for another, rows are not doubled |
| Advisor: port forwarding, `portforward.go`, `cmd/` | three channels, three deadlines | find a ready broker pod, open the tunnel, tell the command | the command goes on only when the tunnel is up, and always ends |
| Advisor: policies and profiles, `pkg/network`, `pkg/k8s/seccomp.go` | nothing | turn rows into a NetworkPolicy, a CiliumNetworkPolicy or a seccomp profile | the policy allows the traffic on record |

They interact through: four bounded `mpsc` channels (inode numbers and addresses from the watcher
to the blocking thread, two kinds of events from the blocking thread to the handlers); the mutex
around `container_map`, shared by the watcher and both handlers; the mutex of each pod's set in
`SYSCALL_CACHE`, shared by the syscall handler and the recorder; the BPF maps, which the blocking
thread writes and the kernel reads on every call of every thread; the perf buffers in the other
direction; HTTP requests from the controllers to the broker; SQL statements from the broker's
threads; HTTP through the tunnel from the advisor.

What is hard about it: the asynchronous task interleaves at every await while the blocking thread
runs beside it; the network handler awaits a POST with the lock held, and the syscall handler a second
lock, which the recorder may have; a pid that containerd gives may be another process's when `/proc` is
read; channels, perf buffers, maps
and the pool are bounded; anything may panic, and a failing task leaves a process that does not
exit; a broken connection leaves it open whether a record was stored; the broker's lookup and
insertion are not atomic; inode numbers, thread ids and addresses are reused.

## The modules

| Module | Models | Depends on |
|---|---|---|
| `ControllerPipeline` | one controller process, from the pod watch to the POST, with the kernel and the broker in outline | instantiates `EventPipe` |
| `EventPipe` | the abstract promise of an event's way from the kernel to its handler | |
| `ControllerPipeline_proofs` | its theorems | `ControllerPipeline` |
| `ControllerRefinement_proofs` | the proof that it implements `EventPipe` | `ControllerPipeline_proofs` |
| `NetworkProbe` | the network probe under concurrent threads | |
| `NetworkProbe_proofs` | its theorems | `NetworkProbe` |
| `BrokerTraffic` | the broker's `POST pod/traffic`, statement by statement | |
| `TrafficReporting` | several controllers reporting to one broker over breaking connections | extends `BrokerTraffic`, instantiates `RecordedFlows` |
| `RecordedFlows` | the abstract promise of traffic reporting | |
| `TrafficReporting_proofs` | its theorems, refinement included | `TrafficReporting` |
| `SyscallReporter` | the syscall sets of several controllers, the recorder and the broker's `POST pod/syscalls` | |
| `SyscallReporter_proofs` | its theorems | `SyscallReporter` |
| `BrokerCatalogue` | pods and services from the cluster's watches to the broker's rows, and the advisor's read of them | |
| `BrokerCatalogue_proofs` | its theorems | `BrokerCatalogue` |
| `PolicyGenerator` | a batch of policies made of recorded traffic | |
| `PolicyGenerator_proofs` | its theorems | `PolicyGenerator` |
| `PortForward` | the advisor's tunnel to the broker: two goroutines, a command and their deadlines | |
| `PortForward_proofs` | its theorems | `PortForward` |
| `MC*` | instances for TLC | |

### ControllerPipeline, EventPipe

A pod stands also for its address. `netns` is the cluster's truth (which namespace inode each
running pod has); everything else is the program's. The asynchronous task is cut at its awaits:
`wpc` says where `watch_pods` is (`post` the spec, `sendIp`, `inspect` a container, `lock`,
`sendInum`), `hpc` where each handler is (`recv`, `lock`; `post` of the network handler; `cache` and
`set`, the search of `SYSCALL_CACHE` and the await of the pod's set, of the syscall handler), `rpc` where
the recorder is (`away` while it posts and sleeps, `lock` and `compare` at the set of `rpod`). `epc` says
where the loop of the blocking thread is; each turn polls the network buffer, the syscall buffer, takes at most one
inode number, writes it to both maps (two steps: the probes run between them), and takes at most
one address. `lockq` is tokio's FIFO mutex: whoever is at its head holds `container_map`. `setq` has the
same for the set of each pod, which the syscall handler awaits, and notes the call in, with `container_map`
in its hand. The recorder goes through the sets in any order, may pass by those that come to be while it
does, and keeps each until it has compared it.

`Inspect` is the chain from a container to its namespace: containerd's pid, then `/proc`. The container may
be gone by then, and the pid may be another process's, as nothing is looked at that would tell
(`container.rs:49-70`): with `"pidReused"` among the faults any inode is read. `misread` remembers that the
one in hand is such.

| Code | Actions |
|---|---|
| `watch_pods`, `process_pod`, `process_container_ids` | `WatchEvent`, `WatchSkips`, `PodSpecPosted`, `SendIp`, `Inspect`, `GiveUp`, `Register`, `SendInum` |
| `ebpf_handle` | `Poll`, `Deliver`, `TryInum`, `MapSys`, `TryIp`, `InumPanics`, `IpPanics` |
| `handle_network_events`, `process_network_event`, `api_post_call` | `Recv`, `BeginPost`, `SkipPost`, `PostAnswered` |
| `handle_syscall_events`, `process_syscall_event` | `Recv`, `FindSet`, `AskSet`, `RecordSyscall` |
| `send_syscall_cache_periodically`, its locks | `RecorderTurn`, `RecorderLocks`, `RecorderCompares` |
| `main` | `TaskFails` (the process stays behind as a `zombie`), `Dies` |
| Kubernetes, Linux | `PodStarts`, `PodModified`, `PodStops`, `Emit`, `Killed`, `Restart` |

Left out: the service watcher, which neither takes a lock nor uses the channels (`BrokerCatalogue` has
it); what the recorder sends and remembers, and the eviction of sets (`SyscallReporter`); the eviction of
`TRAFFIC_CACHE` (`TrafficReporting`). That an event has no entry in `container_map` is a case of
`NeedsPost` and `FindSet` as it is of the code, and `MonitoredIsMapped` says that it never occurs.

`EventPipe` says what the way of an event is for: for each probe one bounded first-in first-out queue
whose events are handled one at a time, of which a failure takes the oldest with it, and nothing noted but
what was handled. `EventsKeepOrder` is that module's specification with the queue mapped to `Way`: the
channel, then the batch being delivered if it is of that kind, then the perf buffer. An event the
kernel had no room for never was on the way. The kernel has a perf buffer for each CPU; the order is
that of one of them, and of one CPU's events.

`WaitsFor` is who waits for whom among the watcher, the handlers, the recorder and the blocking thread:
for the holder of a mutex, or for who takes out of a full channel. `Free` is who waits for nobody, or for
an answer of the broker or of containerd, and `Behind` adds to a set those who wait for a member of it. That
is what `OnlyBrokerStalls` is written in.

### NetworkProbe

A call of a thread has an entry (`Entry`, which saves the socket under the thread's id), a course
(`Finish`, in the kernel) and a return (`Exit`, or `ExitUnseen` when no kretprobe instance was free
at its entry). `leftover` names the saved sockets whose call is over; what such a pointer reads
as is any socket. Ports are left out: the probe copies them beside the addresses.

### BrokerTraffic, TrafficReporting, RecordedFlows

A request is at `queued` (waiting for a connection), `first` and `second` (the queries of
`get_row`), `insert`, and then answered `ok` or `refused`. `table` counts the rows per record, a
record being all columns but the uuid and the time. A controller posts one record at a time,
caches it on any answer, and not when the connection breaks. A request whose client left runs on; a
crash of the broker leaves the insertions the database has received (`orphan`).

`RecordedFlows` says what this is for: `recorded` only grows, and a reporter suppresses a flow only
when a recorded one stands for it, unless it was given up after an error. `PromiseKept` is that
module's specification with `recorded` mapped to the rows, `suppressed` to the caches and
`givenUp` to the records that were answered with a 500.

### SyscallReporter

`cache` and `sent` are `SYSCALL_CACHE` and `LAST_SENT_CACHE` of each controller, from the name of a
pod to its set. A batch holds the sets that changed, whole, and `sent` is advanced before the POST.
The broker's request (`pc`, `arch`, `rest`, `at`) takes one item after the other, with a query and a
statement for each, and the first failure drops the rest. `rowArch` and `row` are the table, found by
name and architecture and inserted by name. `missed` (the last set was sent and not stored) and `late`
(the request ran on unattended) are history and name the exceptions of the properties.

| Code | Actions |
|---|---|
| `process_syscall_event`, the caches | `Note`, `EvictCalls`, `EvictSent` |
| `send_syscall_cache_periodically`, `api_post_call` | `SendBatch`, `Reply`, `ConnectionBreaks`, `ControllerRestarts` |
| `create_pod_syscalls`, `get_row` | `Lookup`, `Update`, `Insert`, `InsertPanics`, `StatementFails`, `Unheard` |

Left out: the namespace of a row. The controller's sets are by the pod's name and its batch has no
namespace in it, so the broker sees one value of it. The pool of connections is in `BrokerTraffic`.

### BrokerCatalogue

`now` and `seers` are the cluster's truth: each object with its address or specification, and the
watches that are told of it (a pod's node; every controller for a service). `queue` and `posting` are
what a watch has been told and has yet to post, in order; `row` is `pod_details` and `svc_details`, by
the pod's name and by the service's address. An object of the model has a *key*; two pods of one name, or
two headless services, which all have the address `None`, share it. `silent` are controllers of which a
task failed: `ControllerPipeline` shows that such a process stays up and does nothing until it is killed.
`spoilt` is history, the keys of which nothing can be promised until a change that nobody has anything
older to post against.

| Code | Actions |
|---|---|
| `watch_pods`, `pod_unready`, `watch_service`, `svc_unready` (what the streams deliver) | `PodStarts`, `ServiceChanges`, `Removed` |
| `update_pods_details`, `update_serviceinfo`, `api_post_call` | `Post`, `ConnectionBreaks` |
| `upsert_pod_details`, `upsert_svc_details` | `Store`, `Refused`, `Lands` |
| `main` (`try_join!`), the kubelet, kube-rs's initial list | `TaskFails`, `ControllerRestarts` |
| `pod_ip`, `GeneratePolicy` | `PodsAt`, `PolicyIsOf` |

An object that is not ready, or a pod without an address, is not there as far as this module goes:
nothing is posted of it. Left out: the columns beside key and value, which are written together with
them; the reads of `get.rs` by name.

### PolicyGenerator

One pod of the batch after the other: `traffic` (the query of its records), `spec` (the query of the pod
by the first record's address), `records` (the loop of `processTrafficRules`, one turn a step), `save`.
Each of the queries and the file may fail (`Fails`), and the batch goes on and keeps the first error.
`AddOrUpdate` is `addOrUpdateRule`, which both generators have in the same form: a sequence of rules,
the first of the peer's gets the port. `Written` is the form in which the controller writes a flow: the
port that direction does not need is 0, and `PortOf` reads the other one. `Transformed` and
`Restricted` are the conversion to the policy. The reference is `Needed`, which is about the flows the
records stand for and knows nothing of rules, sequences or ports left out.

| Code | Actions |
|---|---|
| `BatchGenerateAndHandlePolicies` | `Begin`, `Fails` |
| `GeneratePolicy` | `GetTraffic`, `GetSpec` |
| `processTrafficRules`, `addOrUpdateRule` | `Process` |
| `transformToNetworkPolicy*Rules`, `Generate`, `HandlePolicyOutput` | `Save` |

Left out: which selector stands for a peer. `GetSpec` lets the broker answer with any pod; what it
answers is `BrokerCatalogue`'s. The two generators differ in their form of selectors and in that Cilium's
ports are taken as the rules have them, which is why `RulesAreMerged` asks for each port once.

### PortForward

`finder` is the goroutine of `PortForward`, which calls the API server (`service`, `fallback`,
`pods`), waits for the tunnel (`wait`), sends an error (`send`) and closes `done` (`close`); `tunnel`
is the goroutine of `ForwardPorts`; `main` is the command, `gen networkpolicy` or `gen seccomp`. A
command is `blocked` when nothing was ready as it arrived at its receive: an error is then handed to
a blocked `select` directly, as Go does, and is not there together with the `done` that is closed
next. `Due` lists what the program does without waiting for anything, and the clock stands while
something is due: the argument for `SeccompHasTunnel`, that a goroutine reads the error while the
command sleeps three seconds, is an argument about time and needs it.

| Code | Actions |
|---|---|
| `PortForward` | `Call`, `ServiceFound`, `ApiFails`, `PodsListed`, `WaitReady`, `WaitFails`, `WaitTimeout`, `SendError`, `CloseDone` |
| `networkPolicyCmd`, `seccompCmd` | `Receive`, `ErrorIsFatal`, `Listed`, `Wake`, `Finish` |
| `ForwardPorts`, the clock | `TunnelUp`, `TunnelFails`, `Tick` |

Left out: the checks for a nil configuration, which both commands have behind them, and the step at
which the select of `gen networkpolicy` times out: `SelectTimesOut` is the condition for it, and
`DeadlinesNest` says that it never holds.

## The runs

| Run | Asks | Bounds |
|---|---|---|
| `controller_safety` | does the order of insertion and sending, with crashes, panics and reuse, keep every event attributable; does a registered pod keep its entry; do events that differ stay complete and in order on their way | two pods, two inodes, two flows, every channel, buffer and map with room for one, reused pids; each event is posted and fails |
| `controller_liveness` | are the locks taken in one order and held where the code holds them; can the task, the thread, the channels and the recorder wait in a circle; is every registered pod monitored; do the handlers return | one pod, one inode, one flow, one syscall, all capacities one |
| `controller_daemonset` | is a daemonset's traffic never recorded (it is: see below) | two pods, one of a DaemonSet, one inode, one flow, BPF maps for two, channels and buffers of one |
| `network_probe` | are events the connections of their own threads, is anything tracked lost, do the maps leak | two threads, two namespaces, one kretprobe instance, maps and buffer for one |
| `traffic_reporting` | is nothing suppressed without a row or an error, are rows doubled, is the promise kept, does every flow settle | two controllers, three records of which two are not told apart, two requests, one fault |
| `traffic_exists` | is "Data already exists" true when it is said (it is not: see below) | one controller, two datagram flows |
| `syscall_reporting` | is what a controller takes for sent on record, what takes a call out of a row, is every call recorded in the end | two controllers of different architectures, one name on both and one on one alone, two calls, two requests, caches for one name, one fault |
| `broker_catalogue` | is what settled on record as it is, and does everything settle | two controllers, two pods of one name, two services of one key, two values, two changes, two faults |
| `catalogue_policy` | is the policy asked for a pod made of that pod (not always: see below) | two pods of different names, two changes, one fault |
| `policy_generator` | does a policy allow exactly what was recorded, are rules merged, which error is returned | two pods, every sequence of up to three of five records |
| `port_forward` | do the deadlines nest, can the forwarder block, does a command always come out of its wait, and with a tunnel | deadlines of 15, 10 and 30 s in units of 5 s, the clock up to 40 s |
| `port_forward_set_up` | is port forwarding set up when `gen seccomp` says so (not always: see below) | the same |

Capacities of one are the interesting ones: a queue is then full as soon as it holds anything, so
every blocking send blocks, and every map overflows with its second key. Two pods and two inodes
are what reuse and overwriting need. Two threads and one saved entry per map are what mixing up two
calls needs. One fault in `traffic_reporting` is what a race between a request and its repetition
needs: the record may then be doubled, once. In `syscall_reporting` one fault is one way for a set to
be lost, and the shared name makes two architectures meet in one row. In `broker_catalogue` two
changes are a value and its successor, or an address and its next owner; two faults let one controller
fall silent or leave a late request while another starts again. Three records in `policy_generator`
are a rule, a second one and a repetition of either; the five flows differ in direction, peer, protocol,
or in being to an address that the pod had itself. A larger number of each repeats these meetings.

`controller_safety` takes the inode numbers as symmetric: it checks safety only, and none of them is the
host's there. Two flows make the events of one pod differ, so that one that overtakes another on the way is
seen. There are no syscalls, so that of the two ways of `EventsKeepOrder` it checks the network one, in states with the other idle. In both passing runs of
`ControllerPipeline` every POST fails before the record is stored: the handler then posts each
event, which holds the lock the longest, and the caches stay empty. What they suppress is asked in
`traffic_reporting`; `EventsKeepOrderCorrect` is about both ways and every outcome of a POST.

In `controller_liveness` chains of three occur. The fourth place that `OnlyBrokerStalls` allows, the
watcher behind the thread behind both handlers behind the recorder, needs a poll that brings two events;
and as `IGNORE_DAEMONSET_TRAFFIC` is off there, the watcher waits in `sendInum` but not in `sendIp`.
`OnlyBrokerStallsCorrect` covers both.

### Fairness

`ControllerPipeline!Fairness`: the runtime polls every task that can go on and the blocking thread
has an operating system thread of its own, hence weak fairness of each; the kubelet restarts a
container that exited. That a POST is answered or its connection breaks is an assumption about the
network, stated as weak fairness of `PodSpecPosted` and `TrafficPosted`, and that containerd answers
is one about the node, in that of `Inspect`, a part of `WatcherStep`. No client sets a timeout, so the
code alone gives neither; `OnlyBrokerStalls` says that these two are all the controller depends on. The
recorder goes on while it is at the sets (`RecorderStep`), which is what the syscall handler may await; that
it ever comes for another turn is not assumed, for its own POST has no timeout either. No fairness is assumed
of pods, faults or perf buffers.

`TrafficReporting!Fairness`: the broker's threads and the delivery of answers are weakly fair. A
flow that recurs is strongly fair: between two of its events others of the node are handled, which
disables it for a while, and the channel is a FIFO queue.

`SyscallReporter!Fairness`: the broker's threads run, answers are delivered, and the recorder's turn
comes once a minute whatever happened meanwhile. `CallsSettle` asks nothing more: a batch that failed
is excepted, because nothing posts it again.

`BrokerCatalogue!Fairness`: a watch takes what it is told and the broker answers it. Silent controllers
need not be killed and late requests need not land.

`PortForward!Fairness`: goroutines run and time passes. The API calls end because their context
does; the tunnel need not come up and the broker need not answer.

## What the runs found

* `controller_daemonset`: the watcher sends a daemonset pod's address before its inode number, but
  the loop in `bpf.rs` takes the inode number first. In between the pod is monitored and not
  ignored, and a flow it makes then is stored, with `IGNORE_DAEMONSET_TRAFFIC` on.
* `traffic_exists`: for UDP, `get_row` falls back to a query without the peer's port, while the
  controller writes 0 for the pod's port of every egress record. A second UDP flow to the same peer is
  taken for the first one, answered 200, cached, and never on record.
* `port_forward_set_up`: `gen seccomp` waits for `done`, which is closed after an error too, and says
  that port forwarding was set up. The error ends it within the sleep that follows
  (`SeccompHasTunnel`), unless there is no pod to ask about and it ends by itself, successfully.

* `catalogue_policy`: `GeneratePolicy` asks the broker for the pod that has the first record's address.
  Rows of pods are never deleted, and `pod_ip` takes the first with that address, in no order: once an
  address has been given to another pod, the policy that is asked for one pod is named for, and
  selects, the other. The run lets the comment's assumption hold: the pod's traffic was recorded at
  one address, which it still has and which its own row names.

## What is proved

`ControllerPipeline_proofs`, for all pods, inodes, flows and capacities:

* `TypeCorrect`, `LockCorrect`, `MonitoredIsMappedCorrect`, `InFlightIsMappedCorrect`. The property
  wanted is `MonitoredIsMapped`: an inode the kernel monitors, and one a handler looks up, has an
  entry in `container_map`. It is not inductive: the number reaches the kernel through `inum_ch` and `einum`,
  and an event reaches the handler through a perf buffer, a batch and a channel. `InFlightIsMapped`
  adds all of these; entries are only ever overwritten by other entries, so each step moves a
  number from one mapped place to another. The inductive invariant is the conjunction of these with
  `TypeOK` and `LockDiscipline`: `Register` writes under the lock, and the type of what is sent
  depends on the inode having been found. `LockDiscipline` has two halves: the queue of each mutex is
  exactly its users at their awaits or behind them, once each (`MapLock`, `SetLocks`). The second
  needs the first: the syscall handler is in the queue of the set that `container_map` gave it, and
  nobody writes `container_map` meanwhile because the handler has it. It needs `MonitoredIsMapped` for
  that set to be of a pod at all. A crash empties all places at once; in a `zombie` process
  `container_map` is gone while the kernel goes on, hence the guard.
* `OnlyBrokerStallsCorrect`. The locks and the channels are ordered: who holds a set waits for nobody, who
  holds `container_map` for the broker or the holder of a set, a handler for the holder of
  `container_map`, the thread for the handler of a full channel, the watcher for the thread or for
  containerd. The proof climbs that order (`SetHolderIsFree`, `HolderIsBehind`, `HandlerIsBehind`,
  `ThreadIsBehind`), and needs of the invariant that the queues of the mutexes hold just those who are at
  their awaits, and that the recorder asks for one thing at a time.
* `OwnEntryStaysCorrect`. The watcher enters what containerd and `/proc` said some awaits before, and the
  inode may be another pod's by then. Two facts are added: the namespace the watcher has found is of the pod
  it is about, of none, or of one the watcher has yet to hear of (`FoundIsOwn`), and two running pods have
  no namespace in common (`NamespacesArePrivate`, the host's excepted). A new owner of the inode is told to
  the watcher as it starts, hence before it can have an entry that `OwnEntryStays` speaks of. Both the
  property and `FoundIsOwn` except what was read through a reused pid (`misread`): then the code enters
  one pod under the namespace of another, and nothing in it could notice.

`ControllerRefinement_proofs`, for the same:

* `EventsKeepOrderCorrect`: every step is a step of `EventPipe` or a stutter. The inductive invariant
  is about emptiness (`WayInv`): a handler that receives has no event in hand, a process without its
  tasks has nothing in its channels, one that is down monitors nothing, and no place holds more than
  it can. The lemmas are about a queue that lies in three places, one behind the other: joining the last
  place is joining the queue, leaving the first is leaving it, and what `Poll` and `Deliver` move from
  one place to the next does not change it.

`NetworkProbe_proofs`, for all threads, namespaces, addresses and capacities:

* `TypeCorrect`, `TablesAreOwnedCorrect`, `EventsAreRealCorrect`, `TrackedIsReportedCorrect`. That a
  kept socket is of a call somebody is in is not inductive: an unseen return leaves over only what
  its own call saved, so the call an entry is of must know that it saved it (`EntriesAreOwned`). The
  invariant adds the converse (`Courses`): a call that saved its socket finds it, not left over,
  under its thread's id until its return, and a finished connect has that socket as its connection. The two action properties follow: the exit program can only read
  the socket its own entry program saved.

`TrafficReporting_proofs`, for all controllers, requests, records and faults:

* `TypeCorrect`: among the types, that a controller awaits a request that is in progress and
  carries a record of its own node. It rests on the records of different nodes being different.
* `CachedIsCoveredCorrect`, from the invariant that a request about to be answered 200 is covered
  by a row (`OkIsCovered`), and that rows are never deleted.
* `Implements`: every step is a step of `RecordedFlows` or a stutter.
* `DuplicatesNeedAbandonCorrect`. A row says nothing of the requests that looked before it was there.
  The inductive invariant counts them: the rows of a record and the requests about to insert it are
  at most one more than its unanswered POSTs (`InsertsAreFew`). A request comes to insert only while
  there is no row, as both lookups find the record's own; then the bound follows from the requests
  that carry the record, of which one has an owner, who awaits one at a time, and each of the others
  was left by an unanswered POST (`StraysAreAbandoned`). `DuplicatesNeedFaultsCorrect` bounds the
  unanswered POSTs by the faults: when nothing failed, no record is in two rows.
* `ExistsIsExactForStreams` and `CachedIsRecordedForStreams` say how far the finding of `traffic_exists`
  reaches. Where all records are of TCP and no address is of two pods (`Streams`), a record that another
  stands for is that other, field for field (`StreamsStandAlone`): the violated property holds, and what
  is suppressed is itself on record.

`SyscallReporter_proofs`, for all controllers, names, calls, requests and faults:

* `TypeCorrect`, `RowIsOfOneArchCorrect`, `SentIsRecordedCorrect`, `LossNeedsCauseCorrect`. The
  inductive invariant adds that the sets hold calls made on the node (`SeenIsMade`), that an awaited
  request has in it what the controller takes for sent (`AwaitedIsSent`), that a request nobody awaits
  has late names alone (`StrayIsLate`), and that an item reaches `update` only at a row of its own
  architecture (`ItemsAreOfOneArch`). `SentIsRecorded` then follows from two writers never having the
  same name: an awaited request is of the only controller with it, and any other makes it late.
* `RowsGrowUntilFaultCorrect`: as long as nothing failed, no write takes a call out of the row of a name
  that one node alone has. Without a fault a row is part of what the controller takes for sent, and that of
  what it has seen (`NothingShrinks`); what is written is what is taken for sent, whole.

`BrokerCatalogue_proofs`, for all controllers, pods, services, keys, values and faults:

* `TypeCorrect`, `SettledIsCurrentCorrect`. That nobody has anything left to post says nothing of who
  posted last. The inductive invariant says of a key that is not spoilt that one object has it
  (`OneIsLive`), that no late request is of it (`StrayIsSpoilt`), and that each watch with something to
  post of it is told of that object and comes to post it as it is (`LastIsCurrent`): the last event of
  the key in its queue, or the one it is posting, is the current one. The last watch to be through has
  then stored the current one.
* `PolicyIsOfItsPodOfOwnAddress`: under the hypothesis `[]AddressesAreOwn(Owner)`, that every address only
  ever is of one pod, the property that `catalogue_policy` violates holds. Nobody comes to know of an object what was never
  true of it (`NewsIsTrue`), so a row that names an address names its owner.
* `PolicyFindsItsPodCorrect`: with or without that hypothesis, the pod itself is among those that
  `pod_ip` can answer with.

`PolicyGenerator_proofs`, for all flows, names, batches and numbers of records:

* `TypeCorrect`, `RulesAreMergedCorrect`, `PolicyIsOfTrafficCorrect`, `FirstErrorIsKeptCorrect`. The
  lemmas are about `AddOrUpdate`: it keeps one rule for each peer and each port once, and adds the one
  access to what the rules allow. The inductive invariant has `RulesSoFar`: what the rules allow is
  what the records up to the one whose turn it is need.

`PortForward_proofs`, for all deadlines of which the forwarder's two add up to less than the
command's:

* `TypeCorrect`, `DeadlinesNestCorrect`, `SendsOnceCorrect`, `SeccompHasTunnelCorrect`,
  `BlockedGoesOnWithTunnelCorrect`. The invariant has a part for time (`Clock`: where the goroutine
  is bounds the time), one for the channels (`Channels`: an open `done` means that no command went
  on; a closed one without an error, that the tunnel came up) and `FatalInTime`: with an error in
  `errChan` no time passes between the end of the wait of `gen seccomp` and its own end.

The assumptions are those named in the modules: the constants have their types, the capacities
are positive, records of different controllers differ, a controller leaves out a pod's traffic
with itself, a record has its seven fields and no more, objects and the broker's requests are finitely
many. `Streams` and `AddressesAreOwn` are hypotheses of the theorems named above and of no other: the
code guarantees neither, and the runs `traffic_exists` and `catalogue_policy` show what happens without them.

Only model-checked: the liveness properties (`RegisteredIsMonitored`, `HandlersReturn`,
`FlowsSettle`, `CallsSettle`, `ChangesSettle`, `WaitEnds`), which are beyond the proof system. Of the
four statements that runs refute, theorems say for two when they hold (`ExistsIsExactForStreams`,
`PolicyIsOfItsPodOfOwnAddress`) and for `gen seccomp` what holds in their place
(`SeccompHasTunnelCorrect`); there is none about `DaemonsetIgnored`.

## Plan

The parts of the system in which several actors meet are modelled. Left to do:

1. How long an entry may be wrong. Once the watcher is through with a running pod, its entry stays
   (`OwnEntryStays`); events that it makes before are attributed to the previous owner of the number, and
   a bound on them would need a history of who made each event.
2. `TrafficReporting` with fewer connections than requests. With two connections it takes three requests,
   which is more than TLC gets through; `BrokerTraffic` has the wait, the theorems do not limit it.
3. The selectors of peers in `PolicyGenerator`, composed with the rows of `BrokerCatalogue`.

## Not modelled

Generated code (the probe skeletons, `vmlinux.h`), logging, the build, the Helm chart and the
workflows; the older generators in `pkg/k8s`, which no command reaches; reading the cluster and
writing files in the advisor, which is sequential; seccomp profiles, one row read and one file written
for each pod. Within the modelled parts: the wording of
records, ports in the probe, the number of CPUs (one perf buffer per probe), and the order in which
several ready tasks are polled, which is arbitrary.

----------------------- MODULE ControllerPipeline_proofs -----------------------
(***************************************************************************)
(* Safety of the controller for every set of pods, inode numbers and       *)
(* flows, every capacity of the channels and maps, and every fault.        *)
(***************************************************************************)
EXTENDS ControllerPipeline, TLAPS

USE DEF Kinds

(* Facts about the sequences that channels and buffers are. *)

(* Appending to a queue adds one element and keeps its type.               *)
LEMMA AppendElements ==
    ASSUME NEW S, NEW s \in Seq(S), NEW e \in S
    PROVE  /\ Append(s, e) \in Seq(S)
           /\ Range(Append(s, e)) = Range(s) \cup {e}
  <1>1. /\ Append(s, e) \in Seq(S)
        /\ DOMAIN Append(s, e) = 1 .. Len(s) + 1
        /\ \A j \in 1 .. Len(s) : Append(s, e)[j] = s[j]
        /\ Append(s, e)[Len(s) + 1] = e
    OBVIOUS
  <1>2. Range(Append(s, e)) \subseteq Range(s) \cup {e}
    BY <1>1 DEF Range
  <1>3. Range(s) \cup {e} \subseteq Range(Append(s, e))
    <2>1. ASSUME NEW x \in Range(s) PROVE x \in Range(Append(s, e))
      <3>1. PICK j \in 1 .. Len(s) : x = s[j]
        BY <2>1 DEF Range
      <3> QED BY <1>1, <3>1 DEF Range
    <2>2. e \in Range(Append(s, e))
      BY <1>1 DEF Range
    <2> QED BY <2>1, <2>2
  <1> QED BY <1>1, <1>2, <1>3

(* Taking the head of a queue leaves elements that were there.             *)
LEMMA TailElements ==
    ASSUME NEW S, NEW s \in Seq(S), s # <<>>
    PROVE  /\ Head(s) \in S
           /\ Tail(s) \in Seq(S)
           /\ Head(s) \in Range(s)
           /\ Range(Tail(s)) \subseteq Range(s)
           /\ Range(s) = Range(Tail(s)) \cup {Head(s)}
  <1>1. /\ Head(s) \in S /\ Tail(s) \in Seq(S)
        /\ Len(s) \in Nat /\ Len(s) > 0
        /\ Head(s) = s[1] /\ Len(Tail(s)) = Len(s) - 1
        /\ DOMAIN s = 1 .. Len(s) /\ DOMAIN Tail(s) = 1 .. Len(s) - 1
        /\ \A j \in 1 .. Len(s) - 1 : Tail(s)[j] = s[j + 1]
    OBVIOUS
  <1>2. Range(Tail(s)) \subseteq Range(s)
    BY <1>1 DEF Range
  <1>3. Range(s) \subseteq Range(Tail(s)) \cup {Head(s)}
    <2> SUFFICES ASSUME NEW j \in 1 .. Len(s), j # 1
                 PROVE  s[j] \in Range(Tail(s))
      BY <1>1 DEF Range
    <2>1. j - 1 \in 1 .. Len(s) - 1 /\ Tail(s)[j - 1] = s[j]
      BY <1>1
    <2> QED BY <1>1, <2>1 DEF Range
  <1> QED BY <1>1, <1>2, <1>3 DEF Range

(* One that is not at the head of a queue is still in it.                  *)
LEMMA TailMember ==
    ASSUME NEW S, NEW s \in Seq(S), s # <<>>, NEW x \in Range(Tail(s))
    PROVE  x \in S /\ x \in Range(s)
  <1>1. x \in Range(s)
    BY TailElements
  <1>2. \A j \in DOMAIN s : s[j] \in S
    OBVIOUS
  <1> QED BY <1>1, <1>2 DEF Range

(* The empty queue has no elements.                                        *)
LEMMA EmptyElements == ASSUME NEW S PROVE <<>> \in Seq(S) /\ Range(<<>>) = {}
  BY DEF Range


-------------------------------------------------------------------------------
(* Type correctness. *)

(* A newcomer joins a queue without repetition, like that of the mutex.    *)
LEMMA JoinInjective ==
    ASSUME NEW S, NEW s \in Seq(S), NEW e \in S, IsInjective(s), e \notin Range(s)
    PROVE  IsInjective(Append(s, e))
  <1>1. /\ DOMAIN Append(s, e) = 1 .. Len(s) + 1 /\ DOMAIN s = 1 .. Len(s)
        /\ \A j \in 1 .. Len(s) : Append(s, e)[j] = s[j]
        /\ Append(s, e)[Len(s) + 1] = e
    OBVIOUS
  <1>2. \A j \in 1 .. Len(s) : s[j] # e
    BY <1>1 DEF Range
  <1> QED BY <1>1, <1>2 DEF IsInjective

(* The head of such a queue is gone once it is taken.                      *)
LEMMA TailInjective ==
    ASSUME NEW S, NEW s \in Seq(S), s # <<>>, IsInjective(s)
    PROVE  /\ IsInjective(Tail(s))
           /\ Range(Tail(s)) = Range(s) \ {Head(s)}
  <1>1. /\ Len(s) \in Nat /\ Len(s) > 0 /\ Head(s) = s[1]
        /\ DOMAIN s = 1 .. Len(s) /\ DOMAIN Tail(s) = 1 .. Len(s) - 1
        /\ \A j \in 1 .. Len(s) - 1 : Tail(s)[j] = s[j + 1]
    OBVIOUS
  <1>2. IsInjective(Tail(s))
    BY <1>1 DEF IsInjective
  <1>3. Head(s) \notin Range(Tail(s))
    BY <1>1 DEF IsInjective, Range
  <1> QED BY <1>2, <1>3, TailElements

(* Replacing one of the two event queues by one of its kind.               *)
LEMMA QueuesUpdate ==
    ASSUME NEW q \in Queues, NEW k \in Kinds, NEW s \in Seq(Event(k))
    PROVE  [q EXCEPT ![k] = s] \in Queues
  <1> DEFINE r == [q EXCEPT ![k] = s]
  <1>1. r \in [Kinds -> UNION {Seq(Event(j)) : j \in Kinds}]
    BY DEF Queues
  <1>2. \A j \in Kinds : r[j] \in Seq(Event(j))
    BY DEF Queues
  <1> QED BY <1>1, <1>2 DEF Queues

(* The elements of an event queue are events of its kind.                  *)
LEMMA QueuesElement ==
    ASSUME NEW q \in Queues, NEW k \in Kinds
    PROVE  q[k] \in Seq(Event(k))
  BY DEF Queues

(* The queues of a process that has just started.                          *)
LEMMA EmptyQueues == [k \in Kinds |-> <<>>] \in Queues
  BY EmptyElements DEF Queues

USE DEF Items, Event, Tasks, SetUsers
USE PodsAssumption, InumsAssumption, ItemsAssumption, BoundsAssumption

(* The sets of a process that has just started are nobody's.               *)
LEMMA EmptySetQueues ==
    /\ NoQueues \in [Pods -> Seq(SetUsers)]
    /\ \A p \in Pods : NoQueues[p] = <<>>
  BY EmptyElements DEF NoQueues

(* The types of the recorder's variables, and of all the others.           *)
RecorderTypes ==
    /\ setq \in [Pods -> Seq(SetUsers)]
    /\ rpc \in {"away", "lock", "compare"}
    /\ rpod \in Pods \cup {NoPod} /\ (rpc # "away" <=> rpod \in Pods)
    /\ rleft \subseteq Pods \ {rpod}
OtherTypes ==
    /\ proc \in {"up", "zombie", "down"}
    /\ netns \in [Pods -> Inums \cup {NoInum}]
    /\ applied \subseteq Pods
    /\ wpc \in {"idle", "post", "sendIp", "inspect", "lock", "sendInum"}
    /\ wpod \in Pods \cup {NoPod} /\ (wpc # "idle" => wpod \in Pods)
    /\ winum \in Inums \cup {NoInum} /\ (wpc = "sendInum" => winum \in Inums)
    /\ misread \in BOOLEAN
    /\ wleft \in 0 .. Containers
    /\ lockq \in Seq(Tasks)
    /\ container_map \in [Inums -> Pods \cup {NoPod}]
    /\ inum_ch \in Seq(Inums)
    /\ ip_ch \in Seq(Pods)
    /\ event_ch \in Queues
    /\ epc \in {"poll", "deliver", "tryInum", "mapSys", "tryIp"}
    /\ ekind \in Kinds
    /\ batch \in Seq(Event(ekind)) /\ (epc = "deliver" <=> batch # <<>>)
    /\ einum \in Inums \cup {NoInum} /\ (epc = "mapSys" => einum \in Inums)
    /\ inode_num \in [Kinds -> SUBSET Inums]
    /\ ignore_ips \subseteq Pods
    /\ perf \in Queues
    /\ hpc \in [Kinds -> {"recv", "lock", "post", "cache", "set"}]
    /\ hpc["net"] \notin {"cache", "set"} /\ hpc["sys"] # "post"
    /\ hev \in [Kinds -> UNION {Event(k) \cup {NoEvent} : k \in Kinds}]
    /\ \A k \in Kinds : hpc[k] # "recv" => hev[k] \in Event(k)
    /\ traffic_cache \subseteq Pods \X Flows
    /\ syscall_cache \subseteq Pods \X Syscalls
    /\ broker \subseteq Pods \X Flows

(* The two together are the type invariant.                                *)
LEMMA TypesSplit == TypeOK <=> OtherTypes /\ RecorderTypes
  BY DEF TypeOK, OtherTypes, RecorderTypes

(* The same of the next state.                                             *)
LEMMA NextTypesSplit == TypeOK' <=> OtherTypes' /\ RecorderTypes'
  BY DEF TypeOK, OtherTypes, RecorderTypes

(* A handler that receives handles no event.                               *)
LEMMA NoEventType ==
    [k \in Kinds |-> NoEvent] \in [Kinds -> UNION {Event(k) \cup {NoEvent} : k \in Kinds}]
  OBVIOUS

(* The first state is well typed.                                          *)
LEMMA InitTypeOK == Init => TypeOK
  <1> SUFFICES ASSUME Init PROVE TypeOK
    OBVIOUS
  <1>1. OtherTypes
    <2>1. /\ proc = "up" /\ netns \in [Pods -> Inums \cup {NoInum}] /\ applied \subseteq Pods
          /\ broker \subseteq Pods \X Flows
          /\ wpc = "idle" /\ wpod = NoPod /\ winum = NoInum /\ misread = FALSE
          /\ wleft \in 0 .. Containers
      BY DEF Init, FreshProcess
    <2>2. /\ lockq \in Seq(Tasks) /\ inum_ch \in Seq(Inums) /\ ip_ch \in Seq(Pods)
          /\ batch \in Seq(Event(ekind)) /\ batch = <<>>
      BY EmptyElements DEF Init, FreshProcess
    <2>3. event_ch \in Queues /\ perf \in Queues
      BY EmptyQueues DEF Init, FreshProcess
    <2>4. /\ container_map \in [Inums -> Pods \cup {NoPod}]
          /\ epc = "poll" /\ ekind = "net" /\ einum = NoInum
          /\ inode_num \in [Kinds -> SUBSET Inums] /\ ignore_ips \subseteq Pods
          /\ traffic_cache = {} /\ syscall_cache = {}
      BY DEF Init, FreshProcess, EmptyMap
    <2>5. hpc = [k \in Kinds |-> "recv"] /\ hev = [k \in Kinds |-> NoEvent]
      BY DEF Init, FreshProcess
    <2> QED BY <2>1, <2>2, <2>3, <2>4, <2>5, NoEventType DEF OtherTypes
  <1>2. RecorderTypes
    BY EmptySetQueues DEF Init, FreshProcess, RecorderTypes
  <1> QED BY <1>1, <1>2, TypesSplit

(* The recorder goes on to a set that it had not passed, or is through.    *)
LEMMA GoesOnTypes ==
    ASSUME NEW left \in SUBSET Pods, NEW q \in [Pods -> Seq(SetUsers)], GoesOn(left, q)
    PROVE  /\ setq' \in [Pods -> Seq(SetUsers)]
           /\ rpc' \in {"away", "lock"}
           /\ rpod' \in Pods \cup {NoPod} /\ (rpc' # "away" <=> rpod' \in Pods)
           /\ rleft' \subseteq Pods \ {rpod'}
  <1>1. CASE setq' = q /\ rpc' = "away" /\ rpod' = NoPod /\ rleft' = {}
    BY <1>1
  <1>2. ASSUME NEW p \in left, NEW passed \in SUBSET left,
               setq' = RequestSet(q, "recorder", p), rpc' = "lock", rpod' = p,
               rleft' = left \ (passed \cup {p})
        PROVE  setq' \in [Pods -> Seq(SetUsers)] /\ rpod' \in Pods /\ rleft' \subseteq Pods \ {p}
    <2>1. Append(q[p], "recorder") \in Seq(SetUsers)
      BY AppendElements
    <2> QED BY <1>2, <2>1 DEF RequestSet
  <1> QED BY <1>1, <1>2 DEF GoesOn

(* The set that the recorder or the handler gives back.                    *)
LEMMA ReleaseSetType ==
    ASSUME TypeOK, NEW p \in Pods, NEW u, HoldsSet(u, p)
    PROVE  ReleaseSet(p) \in [Pods -> Seq(SetUsers)]
  BY TailElements DEF TypeOK, HoldsSet, ReleaseSet

(* A syscall event in hand is of a pod.                                    *)
LEMMA SysHasPod ==
    ASSUME TypeOK, MonitoredIsMapped, proc = "up", hpc["sys"] # "recv"
    PROVE  PodOf(hev["sys"]) \in Pods /\ hev["sys"] \in Event("sys")
  BY DEF TypeOK, MonitoredIsMapped, Mapped, PodOf

(* Every step keeps the types of the recorder's variables.                 *)
LEMMA StepRecorderTypes ==
    TypeOK /\ LockDiscipline /\ MonitoredIsMapped /\ [Next]_vars => RecorderTypes'
  <1> SUFFICES ASSUME TypeOK, LockDiscipline, MonitoredIsMapped, [Next]_vars
               PROVE  RecorderTypes'
    OBVIOUS
  <1> USE DEF handlerVars, recorderVars
  <1>1. RecorderTypes
    BY TypesSplit
  <1>2. CASE UNCHANGED recorderVars
    BY <1>1, <1>2 DEF RecorderTypes
  <1>3. CASE RecorderAway
    BY <1>3, EmptySetQueues DEF RecorderAway, RecorderTypes
  <1>4. CASE AskSet
    <2>1. PodOf(hev["sys"]) \in Pods
      BY <1>4, SysHasPod DEF AskSet
    <2>2. Append(setq[PodOf(hev["sys"])], "sys") \in Seq(SetUsers)
      BY <1>1, <2>1, AppendElements DEF RecorderTypes
    <2>3. setq' \in [Pods -> Seq(SetUsers)]
      BY <1>1, <1>4, <2>1, <2>2 DEF AskSet, RequestSet, RecorderTypes
    <2> QED BY <1>1, <1>4, <2>3 DEF AskSet, RecorderTypes
  <1>5. CASE RecordSyscall
    <2>1. PodOf(hev["sys"]) \in Pods
      BY <1>5, SysHasPod DEF RecordSyscall
    <2>2. setq' \in [Pods -> Seq(SetUsers)]
      BY <1>5, <2>1, ReleaseSetType DEF RecordSyscall
    <2>3. UNCHANGED <<rpc, rpod, rleft>>
      BY <1>5 DEF RecordSyscall
    <2> QED BY <1>1, <2>2, <2>3 DEF RecorderTypes
  <1>6. CASE RecorderTurn
    <2>1. GoesOn(Pods, setq) /\ setq \in [Pods -> Seq(SetUsers)]
      BY <1>1, <1>6 DEF RecorderTurn, RecorderTypes
    <2>2. Pods \in SUBSET Pods
      OBVIOUS
    <2> QED BY <2>1, <2>2, GoesOnTypes DEF RecorderTypes
  <1>7. CASE RecorderLocks
    BY <1>1, <1>7 DEF RecorderLocks, RecorderTypes
  <1>8. CASE RecorderCompares
    <2>1. /\ GoesOn(rleft, ReleaseSet(rpod)) /\ HoldsSet("recorder", rpod)
          /\ rpod \in Pods /\ rleft \in SUBSET Pods
      BY <1>1, <1>8 DEF RecorderCompares, LockDiscipline, SetLocks, RecorderTypes
    <2>2. ReleaseSet(rpod) \in [Pods -> Seq(SetUsers)]
      BY <2>1, ReleaseSetType
    <2> QED BY <2>1, <2>2, GoesOnTypes DEF RecorderTypes
  <1>9. CASE ClusterStep \/ KernelStep \/ WatcherStep
    BY <1>9, <1>2 DEF ClusterStep, PodModified, PodStops, PodStarts, KernelStep, Emit,
        WatcherStep, WatchEvent, WatchSkips, SendIp, Inspect, GiveUp, Register, SendInum
  <1>10. CASE EbpfStep \/ Killed \/ TaskFails
    BY <1>10, <1>2, <1>3 DEF EbpfStep, Poll, Deliver, TryInum, MapSys, TryIp, InumPanics,
        IpPanics, Killed, Dies, TaskFails
  <1>11. CASE NetStep \/ SysStep \/ TrafficPosted \/ PodSpecPosted \/ Restart
    BY <1>11, <1>2, <1>4, <1>5 DEF NetStep, SysStep, Recv, BeginPost, SkipPost, FindSet,
        TrafficPosted, PostAnswered, PodSpecPosted, Restart
  <1>12. CASE UNCHANGED vars
    BY <1>12, <1>2 DEF vars
  <1> QED BY <1>6, <1>7, <1>8, <1>9, <1>10, <1>11, <1>12 DEF Next, RecorderStep

(* The types of what the watcher has in hand.                              *)
WatcherTypes ==
    /\ wpc \in {"idle", "post", "sendIp", "inspect", "lock", "sendInum"}
    /\ wpod \in Pods \cup {NoPod} /\ (wpc # "idle" => wpod \in Pods)
    /\ winum \in Inums \cup {NoInum} /\ (wpc = "sendInum" => winum \in Inums)
    /\ misread \in BOOLEAN
    /\ wleft \in 0 .. Containers

(* Every step keeps the types of the others, action by action.             *)
LEMMA StepOtherTypes ==
    TypeOK /\ LockDiscipline /\ MonitoredIsMapped /\ [Next]_vars => OtherTypes'
  <1> SUFFICES ASSUME TypeOK, LockDiscipline, MonitoredIsMapped, [Next]_vars
               PROVE  OtherTypes'
    OBVIOUS
  <1>0. OtherTypes
    BY TypesSplit
  <1> USE <1>0 DEF OtherTypes, watcherVars, sharedVars, chanVars, ebpfVars, kernelVars,
                   handlerVars
  <1>32. ASSUME WatcherIdle PROVE WatcherTypes'
    <2>1. misread' \in BOOLEAN
      BY <1>32, Zenon DEF WatcherIdle
    <2>2. wpc' = "idle" /\ wpod' = NoPod /\ winum' = NoInum /\ wleft' = 0
      BY <1>32 DEF WatcherIdle
    <2> QED BY <2>1, <2>2 DEF WatcherTypes
  <1>31. ASSUME wpod \in Pods, ProcessUnlessExcluded PROVE WatcherTypes'
    <2>1. CASE WatcherIdle
      BY <2>1, <1>32
    <2>2. CASE wpc' = "inspect" /\ wleft' = Containers /\ UNCHANGED <<wpod, winum, misread>>
      BY <1>31, <2>2 DEF WatcherTypes
    <2> QED BY <1>31, <2>1, <2>2 DEF ProcessUnlessExcluded
  <1>1. ASSUME NEW p \in Pods, PodModified(p) PROVE OtherTypes'
    BY <1>1, AppendElements, TailElements, EmptyElements DEF PodModified
  <1>2. ASSUME NEW p \in Pods, PodStops(p) PROVE OtherTypes'
    BY <1>2, AppendElements, TailElements, EmptyElements DEF PodStops
  <1>3. ASSUME NEW p \in Pods, NEW i \in Inums, PodStarts(p, i) PROVE OtherTypes'
    BY <1>3, AppendElements, TailElements, EmptyElements DEF PodStarts
  <1>4. ASSUME NEW k \in Kinds, NEW p \in Pods, NEW x \in Items(k), Emit(k, p, x) PROVE OtherTypes'
    <2> DEFINE e == [inum |-> netns[p], item |-> x]
    <2>1. e \in Event(k)
      BY <1>4 DEF Emit
    <2>2. Append(perf[k], e) \in Seq(Event(k))
      BY <2>1, QueuesElement, AppendElements
    <2>3. perf' = [perf EXCEPT ![k] = Append(perf[k], e)]
      BY <1>4 DEF Emit
    <2>4. perf' \in Queues
      BY <2>2, <2>3, QueuesUpdate
    <2> QED BY <1>4, <2>4 DEF Emit
  <1>5. ASSUME NEW p \in Pods, WatchEvent(p) PROVE OtherTypes'
    BY <1>5, AppendElements, TailElements, EmptyElements DEF WatchEvent
  <1>6. ASSUME NEW p \in Pods, WatchSkips(p) PROVE OtherTypes'
    BY <1>6, AppendElements, TailElements, EmptyElements DEF WatchSkips
  <1>7. ASSUME SendIp PROVE OtherTypes'
    <2>1. wpod \in Pods /\ ip_ch' = Append(ip_ch, wpod) /\ ProcessUnlessExcluded
      BY <1>7 DEF SendIp
    <2>2. ip_ch' \in Seq(Pods)
      BY <2>1, AppendElements
    <2>3. WatcherTypes'
      BY <2>1, <1>31
    <2> QED BY <1>7, <2>2, <2>3 DEF SendIp, WatcherTypes
  <1>8. ASSUME Inspect PROVE OtherTypes'
    <2>1. Append(lockq, "watcher") \in Seq(Tasks)
      BY AppendElements
    <2>2. wleft' \in 0 .. Containers
      BY <1>8 DEF Inspect
    <2>3. winum' \in Inums \cup {NoInum}
      BY <1>8 DEF Inspect
    <2>4. lockq' \in Seq(Tasks)
      BY <1>8, <2>1 DEF Inspect, Request
    <2>5. misread' \in BOOLEAN
      BY <1>8 DEF Inspect
    <2> QED BY <1>8, <2>2, <2>3, <2>4, <2>5 DEF Inspect
  <1>9. ASSUME GiveUp PROVE OtherTypes'
    BY <1>9, AppendElements, TailElements, EmptyElements DEF GiveUp, WatcherIdle
  <1>10. ASSUME Register PROVE OtherTypes'
    <2>1. lockq' \in Seq(Tasks)
      BY <1>10, TailElements DEF Register, Release, Holds
    <2>2. container_map' \in [Inums -> Pods \cup {NoPod}]
      BY <1>10 DEF Register
    <2>3. wpc' \in {"inspect", "sendInum"} /\ (wpc' = "sendInum" => winum \in Inums)
      BY <1>10 DEF Register
    <2>4. wpod \in Pods
      BY <1>10 DEF Register
    <2>5. UNCHANGED <<wpod, winum>>
      BY <1>10 DEF Register
    <2> QED BY <2>4, <2>5, <1>10, <2>1, <2>2, <2>3 DEF Register
  <1>11. ASSUME SendInum PROVE OtherTypes'
    <2>1. winum \in Inums /\ inum_ch' = Append(inum_ch, winum)
      BY <1>11 DEF SendInum
    <2>2. inum_ch' \in Seq(Inums)
      BY <2>1, AppendElements
    <2>3. WatcherTypes'
      BY <1>11, <1>32 DEF SendInum
    <2> QED BY <1>11, <2>2, <2>3 DEF SendInum, WatcherTypes
  <1>12. ASSUME Poll PROVE OtherTypes'
    <2>1. perf[ekind] \in Seq(Event(ekind)) /\ perf' = [perf EXCEPT ![ekind] = <<>>]
      BY <1>12, QueuesElement DEF Poll
    <2>2. perf' \in Queues
      BY <2>1, EmptyElements, QueuesUpdate
    <2>3. CASE perf[ekind] = <<>>
      <3>1. batch' = <<>> /\ epc' \in {"poll", "tryInum"} /\ ekind' \in Kinds
        BY <1>12, <2>3 DEF Poll, PollEnds
      <3>2. batch' \in Seq(Event(ekind'))
        BY <3>1, EmptyElements
      <3> QED BY <1>12, <2>1, <2>2, <3>1, <3>2 DEF Poll
    <2>4. CASE perf[ekind] # <<>>
      <3>1. batch' = perf[ekind] /\ epc' = "deliver" /\ ekind' = ekind
        BY <1>12, <2>4 DEF Poll
      <3> QED BY <1>12, <2>1, <2>2, <2>4, <3>1 DEF Poll
    <2> QED BY <2>3, <2>4
  <1>13. ASSUME Deliver PROVE OtherTypes'
    <2>1. batch # <<>> /\ Head(batch) \in Event(ekind) /\ Tail(batch) \in Seq(Event(ekind))
      BY <1>13, TailElements DEF Deliver
    <2>2. Append(event_ch[ekind], Head(batch)) \in Seq(Event(ekind))
      BY <2>1, QueuesElement, AppendElements
    <2>3. event_ch' \in Queues
      <3>1. [event_ch EXCEPT ![ekind] = Append(event_ch[ekind], Head(batch))] \in Queues
        BY <2>2, QueuesUpdate
      <3>2. \/ event_ch' = event_ch
            \/ event_ch' = [event_ch EXCEPT ![ekind] = Append(event_ch[ekind], Head(batch))]
        BY <1>13 DEF Deliver
      <3> QED BY <3>1, <3>2
    <2>4. CASE Tail(batch) = <<>>
      <3>1. batch' = <<>> /\ epc' \in {"poll", "tryInum"} /\ ekind' \in Kinds
        BY <1>13, <2>4 DEF Deliver, PollEnds
      <3>2. batch' \in Seq(Event(ekind'))
        BY <3>1, EmptyElements
      <3> QED BY <1>13, <2>3, <3>1, <3>2 DEF Deliver
    <2>5. CASE Tail(batch) # <<>>
      <3>1. batch' = Tail(batch) /\ epc' = "deliver" /\ ekind' = ekind
        BY <1>13, <2>5 DEF Deliver
      <3> QED BY <1>13, <2>1, <2>3, <2>5, <3>1 DEF Deliver
    <2> QED BY <2>4, <2>5
  <1>14. ASSUME TryInum PROVE OtherTypes'
    <2>1. CASE inum_ch = <<>>
      <3>1. epc' \in {"poll", "tryIp"}
        BY <1>14, <2>1 DEF TryInum, AfterInum
      <3> QED BY <1>14, <2>1, <3>1 DEF TryInum
    <2>2. CASE inum_ch # <<>>
      <3>1. Head(inum_ch) \in Inums /\ Tail(inum_ch) \in Seq(Inums)
        BY <2>2, TailElements
      <3>2. inode_num' \in [Kinds -> SUBSET Inums]
        BY <1>14, <2>2, <3>1 DEF TryInum
      <3>3. /\ inum_ch' = Tail(inum_ch) /\ einum' = Head(inum_ch) /\ epc' = "mapSys"
        BY <1>14, <2>2 DEF TryInum
      <3> QED BY <1>14, <3>1, <3>2, <3>3 DEF TryInum
    <2> QED BY <2>1, <2>2
  <1>15. ASSUME MapSys PROVE OtherTypes'
    BY <1>15, AppendElements, TailElements, EmptyElements DEF MapSys, AfterInum
  <1>16. ASSUME TryIp PROVE OtherTypes'
    <2>1. CASE ip_ch = <<>>
      BY <1>16, <2>1 DEF TryIp
    <2>2. CASE ip_ch # <<>>
      <3>1. Head(ip_ch) \in Pods /\ Tail(ip_ch) \in Seq(Pods)
        BY <2>2, TailElements
      <3>2. ip_ch' = Tail(ip_ch) /\ ignore_ips' = ignore_ips \cup {Head(ip_ch)}
        BY <1>16, <2>2 DEF TryIp
      <3> QED BY <1>16, <3>1, <3>2 DEF TryIp
    <2> QED BY <2>1, <2>2
  <1>17. ASSUME Dies PROVE OtherTypes'
    <2>1. /\ wpc' = "idle" /\ wpod' = NoPod /\ winum' = NoInum /\ misread' = FALSE
          /\ wleft' \in 0 .. Containers
      BY <1>17 DEF Dies, WatcherIdle
    <2>2. /\ lockq' \in Seq(Tasks)
          /\ batch' \in Seq(Event(ekind')) /\ batch' = <<>> /\ inum_ch' \in Seq(Inums)
          /\ ip_ch' \in Seq(Pods)
      BY <1>17, EmptyElements DEF Dies
    <2>3. event_ch' \in Queues /\ perf' \in Queues
      BY <1>17, EmptyQueues DEF Dies
    <2>4. /\ container_map' \in [Inums -> Pods \cup {NoPod}]
          /\ epc' = "poll" /\ ekind' = "net" /\ einum' = NoInum
          /\ inode_num' \in [Kinds -> SUBSET Inums] /\ ignore_ips' \subseteq Pods
          /\ traffic_cache' = {} /\ syscall_cache' = {}
          /\ proc' = "down" /\ UNCHANGED <<netns, applied, broker>>
      BY <1>17 DEF Dies, EmptyMap
    <2>5. hpc' = [k \in Kinds |-> "recv"] /\ hev' = [k \in Kinds |-> NoEvent]
      BY <1>17 DEF Dies
    <2> QED BY <2>1, <2>2, <2>3, <2>4, <2>5, NoEventType
  <1>18. ASSUME NEW k \in Kinds, Recv(k) PROVE OtherTypes'
    <2>1. /\ Head(event_ch[k]) \in Event(k)
          /\ Tail(event_ch[k]) \in Seq(Event(k))
      BY <1>18, QueuesElement, TailElements DEF Recv
    <2>2. Append(lockq, k) \in Seq(Tasks)
      BY AppendElements
    <2>3. event_ch' \in Queues
      BY <1>18, <2>1, QueuesUpdate DEF Recv
    <2>4. hpc' = [hpc EXCEPT ![k] = "lock"] /\ hev' = [hev EXCEPT ![k] = Head(event_ch[k])]
      BY <1>18 DEF Recv
    <2>5. /\ hpc' \in [Kinds -> {"recv", "lock", "post", "cache", "set"}]
          /\ hpc'["net"] \notin {"cache", "set"} /\ hpc'["sys"] # "post"
          /\ hev' \in [Kinds -> UNION {Event(j) \cup {NoEvent} : j \in Kinds}]
          /\ \A j \in Kinds : hpc'[j] # "recv" => hev'[j] \in Event(j)
      BY <2>1, <2>4
    <2> QED BY <1>18, <2>2, <2>3, <2>5 DEF Recv, Request
  <1>19. ASSUME BeginPost PROVE OtherTypes'
    BY <1>19, AppendElements, TailElements, EmptyElements DEF BeginPost
  <1>20. ASSUME SkipPost PROVE OtherTypes'
    BY <1>20, AppendElements, TailElements, EmptyElements DEF SkipPost, Done, Release, Holds
  <1>21. ASSUME RecordSyscall PROVE OtherTypes'
    <2>1. Holds("sys") /\ PodOf(hev["sys"]) \in Pods /\ hev["sys"] \in Event("sys")
      BY <1>21, SysHasPod DEF RecordSyscall, LockDiscipline, MapLock
    <2>2. lockq' \in Seq(Tasks)
      BY <1>21, <2>1, TailElements DEF RecordSyscall, Done, Release, Holds
    <2>3. syscall_cache' \subseteq Pods \X Syscalls
      BY <1>21, <2>1 DEF RecordSyscall
    <2> QED BY <1>21, <2>2, <2>3 DEF RecordSyscall, Done
  <1>22. ASSUME PodSpecPosted PROVE OtherTypes'
    <2>1. wpod \in Pods
      BY <1>22 DEF PodSpecPosted
    <2>2. WatcherTypes'
      BY <1>22, <2>1, <1>31 DEF PodSpecPosted, WatcherTypes
    <2> QED BY <1>22, <2>2 DEF PodSpecPosted, WatcherTypes
  <1>23. ASSUME NEW outcome \in PostOutcomes, PostAnswered(outcome) PROVE OtherTypes'
    <2>1. Holds("net")
      BY <1>23 DEF PostAnswered, LockDiscipline, MapLock
    <2>2. lockq' \in Seq(Tasks)
      BY <1>23, <2>1, TailElements DEF PostAnswered, Done, Release, Holds
    <2>3. /\ hev["net"] \in Event("net")
          /\ container_map[hev["net"].inum] # NoPod
      BY <1>23 DEF PostAnswered, MonitoredIsMapped, Mapped
    <2>4. <<PodOf(hev["net"]), hev["net"].item>> \in Pods \X Flows
      BY <2>3 DEF PodOf
    <2>5. broker' \subseteq Pods \X Flows /\ traffic_cache' \subseteq Pods \X Flows
      BY <1>23, <2>4 DEF PostAnswered
    <2>6. /\ hpc' \in [Kinds -> {"recv", "lock", "post", "cache", "set"}]
          /\ hpc'["net"] \notin {"cache", "set"} /\ hpc'["sys"] # "post"
          /\ hev' \in [Kinds -> UNION {Event(j) \cup {NoEvent} : j \in Kinds}]
          /\ \A j \in Kinds : hpc'[j] # "recv" => hev'[j] \in Event(j)
      BY <1>23 DEF PostAnswered, Done
    <2> QED BY <1>23, <2>2, <2>5, <2>6 DEF PostAnswered
  <1>24. ASSUME TaskFails PROVE OtherTypes'
    <2>1. /\ wpc' = "idle" /\ wpod' = NoPod /\ winum' = NoInum /\ misread' = FALSE
          /\ wleft' \in 0 .. Containers
      BY <1>24 DEF TaskFails, WatcherIdle
    <2>2. /\ lockq' \in Seq(Tasks)
      BY <1>24, EmptyElements DEF TaskFails
    <2>3. event_ch' \in Queues
      BY <1>24, EmptyQueues DEF TaskFails
    <2>4. /\ container_map' \in [Inums -> Pods \cup {NoPod}] /\ proc' = "zombie"
          /\ UNCHANGED <<netns, applied, inum_ch, ip_ch, ebpfVars, kernelVars, traffic_cache,
                         syscall_cache, broker>>
      BY <1>24 DEF TaskFails, EmptyMap
    <2>5. hpc' = [k \in Kinds |-> "recv"] /\ hev' = [k \in Kinds |-> NoEvent]
      BY <1>24 DEF TaskFails
    <2> QED BY <2>1, <2>2, <2>3, <2>4, <2>5, NoEventType
  <1>25. ASSUME Restart PROVE OtherTypes'
    BY <1>25, AppendElements, TailElements, EmptyElements DEF Restart
  <1>26. CASE UNCHANGED vars
    BY <1>26 DEF vars
  <1>27. ASSUME FindSet PROVE OtherTypes'
    <2>1. PodOf(hev["sys"]) # NoPod
      BY <1>27, SysHasPod DEF FindSet
    <2> QED BY <1>27, <2>1 DEF FindSet
  <1>28. ASSUME AskSet PROVE OtherTypes'
    BY <1>28 DEF AskSet
  <1>30. ASSUME RecorderTurn \/ RecorderStep PROVE OtherTypes'
    BY <1>30 DEF RecorderTurn, RecorderStep, RecorderLocks, RecorderCompares
  <1> QED
    BY <1>1, <1>2, <1>3, <1>4, <1>5, <1>6, <1>7, <1>8, <1>9, <1>10, <1>11, <1>12, <1>13, <1>14, <1>15, <1>16, <1>17, <1>18, <1>19, <1>20, <1>21, <1>22, <1>23, <1>24, <1>25, <1>26,
       <1>27, <1>28, <1>30
    DEF Next, ClusterStep, KernelStep, WatcherStep, EbpfStep, NetStep, SysStep, TrafficPosted,
        InumPanics, IpPanics, Killed

(* Every step keeps the types.                                             *)
LEMMA StepTypeOK ==
    TypeOK /\ LockDiscipline /\ MonitoredIsMapped /\ [Next]_vars => TypeOK'
  BY StepOtherTypes, StepRecorderTypes, NextTypesSplit

-------------------------------------------------------------------------------
(* The queue of a mutex holds exactly the tasks that await it or have it.  *)

(* Nobody wants a mutex at first.                                          *)
LEMMA InitLockDiscipline == Init => LockDiscipline
  <1> SUFFICES ASSUME Init PROVE LockDiscipline
    OBVIOUS
  <1>1. MapLock
    BY DEF Init, FreshProcess, MapLock, Wants, IsInjective, Range
  <1>2. SetLocks
    <2>1. /\ \A p \in Pods : setq[p] = <<>>
          /\ rpc = "away" /\ rpod = NoPod /\ hpc["sys"] = "recv"
      BY EmptySetQueues DEF Init, FreshProcess
    <2>2. \A p \in Pods, u \in SetUsers : SetOf(u) # p
      BY <2>1 DEF SetOf
    <2> QED BY <2>1, <2>2 DEF SetLocks, IsInjective, Range
  <1> QED BY <1>1, <1>2 DEF LockDiscipline

(* A task that did not want the mutex joins the queue.                     *)
LEMMA RequestKeeps ==
    ASSUME TypeOK, MapLock, NEW t \in Tasks, ~Wants(t), Request(t)
    PROVE  /\ IsInjective(lockq')
           /\ Range(lockq') = Range(lockq) \cup {t}
           /\ lockq # <<>> => lockq' # <<>> /\ Head(lockq') = Head(lockq)
  <1>1. lockq \in Seq(Tasks) /\ lockq' = Append(lockq, t)
    BY DEF TypeOK, Request
  <1>2. t \notin Range(lockq)
    BY DEF MapLock
  <1>3. IsInjective(lockq')
    BY <1>1, <1>2, JoinInjective DEF MapLock
  <1>4. lockq # <<>> => lockq' # <<>> /\ Head(lockq') = Head(lockq)
    BY <1>1
  <1> QED BY <1>1, <1>3, <1>4, AppendElements

(* The holder leaves the queue and wants the mutex no more.                *)
LEMMA ReleaseKeeps ==
    ASSUME TypeOK, MapLock, NEW t \in Tasks, Holds(t), Release
    PROVE  /\ IsInjective(lockq')
           /\ Range(lockq') = Range(lockq) \ {t}
  BY TailInjective DEF TypeOK, MapLock, Holds, Release

(* Every step keeps the discipline of container_map's mutex.               *)
LEMMA StepMapLock == TypeOK /\ MapLock /\ [Next]_vars => MapLock'
  <1> SUFFICES ASSUME TypeOK, MapLock, [Next]_vars PROVE MapLock'
    OBVIOUS
  <1> USE DEF watcherVars, sharedVars, chanVars, ebpfVars, kernelVars, handlerVars
  <1>0. hpc \in [Kinds -> {"recv", "lock", "post", "cache", "set"}]
    BY DEF TypeOK
  <1>1. CASE UNCHANGED <<lockq, hpc>> /\ (wpc = "lock" <=> wpc' = "lock")
    BY <1>1 DEF MapLock, Wants, Holds
  <1>2. CASE Inspect /\ Request("watcher") /\ wpc' = "lock"
    <2>1. ~Wants("watcher") /\ Request("watcher") /\ wpc' = "lock" /\ UNCHANGED hpc
      BY <1>2 DEF Inspect, Wants
    <2>2. Range(lockq') = {t \in Tasks : Wants(t)'}
      BY <2>1, RequestKeeps DEF MapLock, Wants
    <2> QED BY <2>1, <2>2, RequestKeeps DEF MapLock, Holds
  <1>3. CASE Register
    <2>1. /\ Holds("watcher") /\ Release /\ UNCHANGED hpc
          /\ wpc = "lock" /\ wpc' # "lock"
      BY <1>3 DEF Register
    <2>2. \A k \in Kinds : hpc[k] \notin {"post", "cache", "set"}
      BY <2>1 DEF MapLock, Holds
    <2>3. Range(lockq') = {t \in Tasks : Wants(t)'}
      BY <2>1, ReleaseKeeps DEF MapLock, Wants
    <2> QED BY <2>1, <2>2, <2>3, ReleaseKeeps DEF MapLock
  <1>4. ASSUME NEW k \in Kinds, Recv(k) PROVE MapLock'
    <2>1. ~Wants(k) /\ Request(k) /\ UNCHANGED wpc /\ hpc' = [hpc EXCEPT ![k] = "lock"]
      BY <1>4 DEF Recv, Wants
    <2>2. k \in Tasks
      OBVIOUS
    <2>3. Range(lockq') = {t \in Tasks : Wants(t)'}
      BY <1>0, <2>1, <2>2, RequestKeeps DEF MapLock, Wants
    <2>4. ASSUME NEW j \in Kinds, hpc'[j] \in {"post", "cache", "set"} PROVE Holds(j)'
      <3>1. j # k /\ hpc[j] \in {"post", "cache", "set"}
        BY <1>0, <2>1, <2>4
      <3> QED BY <2>1, <2>2, <3>1, RequestKeeps DEF MapLock, Holds
    <2> QED BY <2>1, <2>2, <2>3, <2>4, RequestKeeps DEF MapLock
  <1>5. ASSUME NEW k \in Kinds, NEW pc \in {"post", "cache", "set"}, Holds(k), hpc[k] # "recv",
               hpc' = [hpc EXCEPT ![k] = pc], UNCHANGED <<wpc, lockq>>
        PROVE  MapLock'
    <2>1. \A t \in Tasks : Wants(t)' <=> Wants(t)
      BY <1>0, <1>5 DEF Wants
    <2>2. \A j \in Kinds : hpc'[j] = IF j = k THEN pc ELSE hpc[j]
      BY <1>0, <1>5
    <2> QED BY <1>5, <2>1, <2>2 DEF MapLock, Holds
  <1>6. ASSUME NEW k \in Kinds, Done(k), Holds(k), hpc[k] # "recv", UNCHANGED wpc
        PROVE  MapLock'
    <2>1. Release /\ hpc' = [hpc EXCEPT ![k] = "recv"] /\ k \in Tasks
      BY <1>6 DEF Done
    <2>2. \A j \in Kinds : hpc'[j] = IF j = k THEN "recv" ELSE hpc[j]
      BY <1>0, <2>1
    <2>3. \A j \in Kinds : hpc'[j] \notin {"post", "cache", "set"}
      BY <1>6, <2>2 DEF MapLock, Holds
    <2>4. Range(lockq') = {t \in Tasks : Wants(t)'}
      BY <1>6, <2>1, <2>2, ReleaseKeeps DEF MapLock, Wants
    <2> QED BY <1>6, <2>1, <2>3, <2>4, ReleaseKeeps DEF MapLock
  <1>7. CASE lockq' = <<>> /\ wpc' = "idle" /\ hpc' = [k \in Kinds |-> "recv"]
    BY <1>7 DEF MapLock, Wants, IsInjective, Range
  <1>8. CASE ClusterStep \/ KernelStep \/ Restart \/ PodSpecPosted
    BY <1>8, <1>1 DEF ClusterStep, PodModified, PodStops, PodStarts, KernelStep, Emit,
        Restart, PodSpecPosted, ProcessUnlessExcluded, WatcherIdle
  <1>9. CASE WatcherStep
    <2>1. CASE Inspect
      BY <2>1, <1>1, <1>2 DEF Inspect
    <2> QED BY <1>9, <1>1, <1>3, <2>1 DEF WatcherStep, WatchEvent, WatchSkips, SendIp,
        GiveUp, SendInum, ProcessUnlessExcluded, WatcherIdle
  <1>10. CASE EbpfStep
    BY <1>10, <1>1, <1>7 DEF EbpfStep, Poll, Deliver, TryInum, MapSys, TryIp, InumPanics,
        IpPanics, Dies, WatcherIdle
  <1>11. CASE BeginPost \/ FindSet
    BY <1>11, <1>5, <1>6 DEF BeginPost, FindSet
  <1>12. CASE AskSet
    <2>1. Holds("sys")
      BY <1>12 DEF AskSet, MapLock
    <2> QED BY <1>12, <2>1, <1>5 DEF AskSet
  <1>13. CASE SkipPost
    BY <1>13, <1>6 DEF SkipPost
  <1>14. CASE RecordSyscall
    <2>1. Holds("sys")
      BY <1>14 DEF RecordSyscall, MapLock
    <2> QED BY <1>14, <2>1, <1>6 DEF RecordSyscall
  <1>15. CASE TrafficPosted
    BY <1>15, <1>6 DEF TrafficPosted, PostAnswered, MapLock
  <1>16. CASE RecorderTurn \/ RecorderStep
    BY <1>16, <1>1 DEF RecorderTurn, RecorderStep, RecorderLocks, RecorderCompares
  <1>17. CASE Killed \/ TaskFails
    BY <1>17, <1>7 DEF Killed, Dies, TaskFails, WatcherIdle
  <1>18. CASE UNCHANGED vars
    BY <1>18, <1>1 DEF vars
  <1> QED
    BY <1>4, <1>8, <1>9, <1>10, <1>11, <1>12, <1>13, <1>14, <1>15, <1>16, <1>17, <1>18
    DEF Next, NetStep, SysStep

(* The recorder joins the queue of the next set only, or of none, having   *)
(* left that of the last.                                                  *)
LEMMA GoesOnKeeps ==
    ASSUME NEW left \in SUBSET Pods, NEW q \in [Pods -> Seq(SetUsers)], GoesOn(left, q),
           \A p \in Pods : IsInjective(q[p]) /\ Range(q[p]) = {u \in {"sys"} : SetOf(u) = p},
           UNCHANGED <<hpc, hev, container_map>>
    PROVE  SetLocks'
  <1>1. SetOf("sys")' = SetOf("sys") /\ SetOf("recorder")' = rpod'
    BY DEF SetOf, PodOf
  <1>2. CASE setq' = q /\ rpc' = "away" /\ rpod' = NoPod
    <2>1. \A p \in Pods : {u \in SetUsers : SetOf(u)' = p} = {u \in {"sys"} : SetOf(u) = p}
      BY <1>1, <1>2
    <2> QED BY <1>2, <2>1 DEF SetLocks
  <1>3. ASSUME NEW p \in left, setq' = RequestSet(q, "recorder", p), rpc' = "lock", rpod' = p
        PROVE  SetLocks'
    <2>1. q[p] \in Seq(SetUsers) /\ "recorder" \notin Range(q[p]) /\ IsInjective(q[p])
      OBVIOUS
    <2>2. /\ IsInjective(Append(q[p], "recorder"))
          /\ Range(Append(q[p], "recorder")) = Range(q[p]) \cup {"recorder"}
      BY <2>1, JoinInjective, AppendElements
    <2>3. \A o \in Pods : setq'[o] = IF o = p THEN Append(q[p], "recorder") ELSE q[o]
      BY <1>3 DEF RequestSet
    <2>4. \A o \in Pods : {u \in SetUsers : SetOf(u)' = o}
                             = IF o = p THEN {u \in {"sys"} : SetOf(u) = o} \cup {"recorder"}
                               ELSE {u \in {"sys"} : SetOf(u) = o}
      BY <1>1, <1>3
    <2> QED BY <1>3, <2>2, <2>3, <2>4 DEF SetLocks
  <1> QED BY <1>2, <1>3 DEF GoesOn

(* What is left of a set's queue when its holder gives it back.            *)
LEMMA ReleaseSetKeeps ==
    ASSUME TypeOK, SetLocks, NEW p \in Pods, NEW h \in SetUsers, HoldsSet(h, p)
    PROVE  /\ ReleaseSet(p) \in [Pods -> Seq(SetUsers)]
           /\ SetOf(h) = p
           /\ \A o \in Pods :
                 /\ IsInjective(ReleaseSet(p)[o])
                 /\ Range(ReleaseSet(p)[o]) = {u \in SetUsers \ {h} : SetOf(u) = o}
  <1>1. setq \in [Pods -> Seq(SetUsers)] /\ setq[p] # <<>> /\ h = Head(setq[p])
    BY DEF TypeOK, HoldsSet
  <1>2. h \in Range(setq[p]) /\ SetOf(h) = p
    BY <1>1, TailElements DEF SetLocks
  <1>3. /\ IsInjective(Tail(setq[p])) /\ Range(Tail(setq[p])) = Range(setq[p]) \ {h}
    BY <1>1, TailInjective DEF SetLocks
  <1>4. \A o \in Pods : ReleaseSet(p)[o] = IF o = p THEN Tail(setq[p]) ELSE setq[o]
    BY <1>1 DEF ReleaseSet
  <1>5. ASSUME NEW o \in Pods
        PROVE  /\ IsInjective(ReleaseSet(p)[o])
               /\ Range(ReleaseSet(p)[o]) = {u \in SetUsers \ {h} : SetOf(u) = o}
    <2>1. CASE o = p
      BY <1>3, <1>4, <2>1 DEF SetLocks
    <2>2. CASE o # p
      <3>1. {u \in SetUsers \ {h} : SetOf(u) = o} = {u \in SetUsers : SetOf(u) = o}
        BY <1>2, <2>2
      <3> QED BY <1>4, <2>2, <3>1 DEF SetLocks
    <2> QED BY <2>1, <2>2
  <1> QED BY <1>2, <1>5, ReleaseSetType

(* Every step keeps the discipline of the sets' mutexes.                   *)
LEMMA StepSetLocks ==
    TypeOK /\ LockDiscipline /\ MonitoredIsMapped /\ [Next]_vars => SetLocks'
  <1> SUFFICES ASSUME TypeOK, LockDiscipline, MonitoredIsMapped, [Next]_vars PROVE SetLocks'
    OBVIOUS
  <1>0. /\ MapLock /\ SetLocks
        /\ hpc \in [Kinds -> {"recv", "lock", "post", "cache", "set"}] /\ DOMAIN hev = Kinds
        /\ setq \in [Pods -> Seq(SetUsers)] /\ rleft \in SUBSET Pods
    BY DEF LockDiscipline, TypeOK
  <1> USE DEF watcherVars, sharedVars, chanVars, ebpfVars, kernelVars, handlerVars, recorderVars
  <1>1. CASE SetOf("sys")' = SetOf("sys") /\ UNCHANGED <<setq, rpc, rpod>>
    <2>1. \A u \in SetUsers : SetOf(u)' = SetOf(u)
      BY <1>1 DEF SetOf
    <2> QED BY <1>0, <1>1, <2>1 DEF SetLocks, HoldsSet
  <1>2. CASE /\ UNCHANGED <<setq, rpc, rpod, container_map>>
             /\ hpc'["sys"] = hpc["sys"] /\ hev'["sys"] = hev["sys"]
    BY <1>1, <1>2 DEF SetOf, PodOf
  <1>3. CASE UNCHANGED <<setq, rpc, rpod>> /\ hpc["sys"] # "set" /\ hpc'["sys"] # "set"
    BY <1>1, <1>3 DEF SetOf
  <1>4. CASE Register
    <2>1. hpc["sys"] # "set" /\ UNCHANGED <<setq, rpc, rpod, hpc>>
      BY <1>0, <1>4 DEF Register, MapLock, Holds
    <2> QED BY <1>3, <2>1
  <1>5. CASE RecorderAway /\ hpc' = [k \in Kinds |-> "recv"]
    <2>1. \A p \in Pods, u \in SetUsers : SetOf(u)' # p
      BY <1>5 DEF RecorderAway, SetOf
    <2>2. \A p \in Pods : setq'[p] = <<>>
      BY <1>5, EmptySetQueues DEF RecorderAway
    <2>3. rpc' = "away"
      BY <1>5 DEF RecorderAway
    <2> QED BY <2>1, <2>2, <2>3 DEF SetLocks, IsInjective, Range
  <1>6. ASSUME NEW k \in Kinds, hpc[k] # "set", NEW pc \in {"recv", "lock", "post", "cache"},
               NEW e, hpc' = [hpc EXCEPT ![k] = pc], hev' = [hev EXCEPT ![k] = e] \/ hev' = hev,
               UNCHANGED <<setq, rpc, rpod, container_map>>
        PROVE  SetLocks'
    BY <1>0, <1>2, <1>3, <1>6
  <1>7. CASE AskSet
    <2> DEFINE p == PodOf(hev["sys"])
    <2>1. /\ p \in Pods /\ hpc["sys"] = "cache" /\ hpc'["sys"] = "set"
          /\ UNCHANGED <<hev, container_map, rpc, rpod>>
          /\ setq' = RequestSet(setq, "sys", p)
      BY <1>0, <1>7, SysHasPod DEF AskSet
    <2>2. SetOf("sys") = NoPod /\ SetOf("sys")' = p /\ SetOf("recorder")' = SetOf("recorder")
      BY <2>1 DEF SetOf, PodOf
    <2> HIDE DEF p
    <2>3. setq[p] \in Seq(SetUsers) /\ "sys" \notin Range(setq[p]) /\ IsInjective(setq[p])
      BY <1>0, <2>1, <2>2 DEF SetLocks
    <2>4. /\ IsInjective(Append(setq[p], "sys"))
          /\ Range(Append(setq[p], "sys")) = Range(setq[p]) \cup {"sys"}
          /\ setq[p] # <<>> => Append(setq[p], "sys") # <<>>
                               /\ Head(Append(setq[p], "sys")) = Head(setq[p])
      BY <2>3, JoinInjective, AppendElements
    <2>5. \A o \in Pods : setq'[o] = IF o = p THEN Append(setq[p], "sys") ELSE setq[o]
      BY <1>0, <2>1 DEF RequestSet
    <2>6. \A o \in Pods : {u \in SetUsers : SetOf(u)' = o}
                             = IF o = p THEN {u \in SetUsers : SetOf(u) = o} \cup {"sys"}
                               ELSE {u \in SetUsers : SetOf(u) = o}
      BY <2>1, <2>2
    <2>7. \A o \in Pods : IsInjective(setq'[o]) /\ Range(setq'[o]) = {u \in SetUsers : SetOf(u)' = o}
      BY <1>0, <2>4, <2>5, <2>6 DEF SetLocks
    <2>8. rpc' = "compare" => HoldsSet("recorder", rpod)'
      <3> SUFFICES ASSUME rpc = "compare" PROVE HoldsSet("recorder", rpod)'
        BY <2>1
      <3>1. HoldsSet("recorder", rpod) /\ rpod \in Pods /\ rpod' = rpod
        BY <1>0, <2>1 DEF SetLocks, TypeOK
      <3> QED BY <2>4, <2>5, <3>1 DEF HoldsSet
    <2> QED BY <2>7, <2>8 DEF SetLocks
  <1>8. CASE RecordSyscall
    <2> DEFINE p == PodOf(hev["sys"])
    <2>1. /\ p \in Pods /\ HoldsSet("sys", p) /\ setq' = ReleaseSet(p)
          /\ UNCHANGED <<rpc, rpod>> /\ hpc' = [hpc EXCEPT !["sys"] = "recv"]
      BY <1>8, SysHasPod DEF RecordSyscall, Done
    <2>2. SetOf("sys")' = NoPod /\ SetOf("recorder")' = SetOf("recorder")
      BY <1>0, <2>1 DEF SetOf
    <2> HIDE DEF p
    <2>3. \A o \in Pods : IsInjective(setq'[o]) /\ Range(setq'[o]) = {u \in SetUsers \ {"sys"} : SetOf(u) = o}
      BY <1>0, <2>1, ReleaseSetKeeps
    <2>4. \A o \in Pods : {u \in SetUsers : SetOf(u)' = o} = {u \in SetUsers \ {"sys"} : SetOf(u) = o}
      BY <2>2
    <2>5. rpc' = "compare" => HoldsSet("recorder", rpod)'
      <3> SUFFICES ASSUME rpc = "compare" PROVE HoldsSet("recorder", rpod)'
        BY <2>1
      <3>1. HoldsSet("recorder", rpod) /\ rpod' = rpod
        BY <1>0, <2>1 DEF SetLocks
      <3>2. rpod # p
        BY <2>1, <3>1 DEF HoldsSet
      <3>3. setq'[rpod] = setq[rpod]
        BY <1>0, <2>1, <3>2 DEF ReleaseSet
      <3> QED BY <3>1, <3>3 DEF HoldsSet
    <2> QED BY <2>3, <2>4, <2>5 DEF SetLocks
  <1>9. CASE RecorderTurn
    <2>1. GoesOn(Pods, setq) /\ UNCHANGED <<hpc, hev, container_map>> /\ rpod \notin Pods
      BY <1>9 DEF RecorderTurn, TypeOK
    <2>2. \A p \in Pods : {u \in SetUsers : SetOf(u) = p} = {u \in {"sys"} : SetOf(u) = p}
      BY <2>1 DEF SetOf
    <2>3. Pods \in SUBSET Pods
      OBVIOUS
    <2>4. \A p \in Pods : IsInjective(setq[p]) /\ Range(setq[p]) = {u \in {"sys"} : SetOf(u) = p}
      BY <1>0, <2>2 DEF SetLocks
    <2> QED BY <1>0, <2>1, <2>3, <2>4, GoesOnKeeps
  <1>10. CASE RecorderLocks
    <2>1. /\ HoldsSet("recorder", rpod) /\ UNCHANGED <<setq, rpod, hpc, hev, container_map>>
      BY <1>10 DEF RecorderLocks
    <2>2. \A u \in SetUsers : SetOf(u)' = SetOf(u)
      BY <2>1 DEF SetOf, PodOf
    <2> QED BY <1>0, <2>1, <2>2 DEF SetLocks, HoldsSet
  <1>11. CASE RecorderCompares
    <2>1. /\ GoesOn(rleft, ReleaseSet(rpod)) /\ HoldsSet("recorder", rpod) /\ rpod \in Pods
          /\ UNCHANGED <<hpc, hev, container_map>>
      BY <1>0, <1>11 DEF RecorderCompares, SetLocks, TypeOK
    <2> DEFINE q == ReleaseSet(rpod)
    <2>2. /\ q \in [Pods -> Seq(SetUsers)]
          /\ \A o \in Pods : /\ IsInjective(q[o])
                             /\ Range(q[o]) = {u \in SetUsers \ {"recorder"} : SetOf(u) = o}
      BY <1>0, <2>1, ReleaseSetKeeps
    <2> HIDE DEF q
    <2>3. \A o \in Pods : {u \in SetUsers \ {"recorder"} : SetOf(u) = o}
                             = {u \in {"sys"} : SetOf(u) = o}
      OBVIOUS
    <2>4. \A o \in Pods : IsInjective(q[o]) /\ Range(q[o]) = {u \in {"sys"} : SetOf(u) = o}
      BY <2>2, <2>3
    <2>5. GoesOn(rleft, q)
      BY <2>1 DEF q
    <2> QED BY <1>0, <2>1, <2>2, <2>4, <2>5, GoesOnKeeps
  <1>12. CASE ClusterStep \/ KernelStep \/ Restart \/ PodSpecPosted
    BY <1>12, <1>2 DEF ClusterStep, PodModified, PodStops, PodStarts, KernelStep, Emit,
        Restart, PodSpecPosted
  <1>13. CASE WatcherStep
    BY <1>13, <1>2, <1>4 DEF WatcherStep, WatchEvent, WatchSkips, SendIp, Inspect, GiveUp,
        SendInum
  <1>14. CASE EbpfStep
    BY <1>14, <1>2, <1>5 DEF EbpfStep, Poll, Deliver, TryInum, MapSys, TryIp, InumPanics,
        IpPanics, Dies
  <1>15. ASSUME NEW k \in Kinds, Recv(k) PROVE SetLocks'
    BY <1>15, <1>6 DEF Recv
  <1>16. CASE BeginPost \/ FindSet
    BY <1>16, <1>6 DEF BeginPost, FindSet, Done
  <1>17. CASE SkipPost \/ TrafficPosted
    BY <1>17, <1>6 DEF SkipPost, TrafficPosted, PostAnswered, Done
  <1>18. CASE Killed \/ TaskFails
    BY <1>18, <1>5 DEF Killed, Dies, TaskFails
  <1>19. CASE UNCHANGED vars
    BY <1>19, <1>2 DEF vars
  <1> QED
    BY <1>7, <1>8, <1>9, <1>10, <1>11, <1>12, <1>13, <1>14, <1>15, <1>16, <1>17, <1>18, <1>19
    DEF Next, NetStep, SysStep, RecorderStep

(* Every step keeps both.                                                  *)
LEMMA StepLockDiscipline ==
    TypeOK /\ LockDiscipline /\ MonitoredIsMapped /\ [Next]_vars => LockDiscipline'
  BY StepMapLock, StepSetLocks DEF LockDiscipline

-------------------------------------------------------------------------------
(* Whatever is monitored or in flight has its entry in container_map.      *)

(* The inode numbers of a queue that an event joins.                       *)
LEMMA AppendInums ==
    ASSUME NEW S, NEW s \in Seq(S), NEW e \in S
    PROVE  InumsOf(Append(s, e)) = InumsOf(s) \cup {e.inum}
  BY AppendElements DEF InumsOf

(* The inode numbers of a queue that its head leaves.                      *)
LEMMA TailInums ==
    ASSUME NEW S, NEW s \in Seq(S), s # <<>>
    PROVE  InumsOf(Tail(s)) \subseteq InumsOf(s) /\ Head(s).inum \in InumsOf(s)
  BY TailElements DEF InumsOf

(* No events, no inode numbers.                                            *)
LEMMA EmptyInums == InumsOf(<<>>) = {}
  BY EmptyElements DEF InumsOf

MapInv == MonitoredIsMapped /\ InFlightIsMapped

(* Nothing is monitored at first.                                          *)
LEMMA InitMapInv == Init => MapInv
  BY EmptyElements, EmptyInums
  DEF Init, FreshProcess, MapInv, MonitoredIsMapped, InFlightIsMapped

(* Every step keeps what is monitored or in flight mapped.                 *)
LEMMA StepMapInv == TypeOK /\ MapInv /\ [Next]_vars => MapInv'
  <1> SUFFICES ASSUME TypeOK, MapInv, [Next]_vars PROVE MapInv'
    OBVIOUS
  <1> USE DEF MapInv, MonitoredIsMapped, InFlightIsMapped, watcherVars, sharedVars,
              chanVars, ebpfVars, kernelVars, handlerVars, recorderVars
  <1> DEFINE mapVars == <<container_map, inum_ch, event_ch, epc, batch, einum, inode_num,
                          perf, hpc, hev>>
  <1>1. CASE /\ UNCHANGED mapVars
             /\ wpc' = "sendInum" => wpc = "sendInum" /\ winum' = winum
             /\ proc' # "zombie" => proc # "zombie"
    BY <1>1 DEF Mapped
  <1>2. ASSUME NEW k \in Kinds, NEW p \in Pods, NEW x \in Items(k), Emit(k, p, x)
        PROVE  MapInv'
    <2> DEFINE e == [inum |-> netns[p], item |-> x]
    <2>1. /\ e \in Event(k) /\ e.inum \in inode_num[k]
          /\ perf \in Queues /\ perf[k] \in Seq(Event(k))
      <3>1. netns[p] \in inode_num[k] /\ inode_num[k] \subseteq Inums /\ perf \in Queues
        BY <1>2 DEF Emit, TypeOK
      <3>2. e \in Event(k)
        BY <3>1
      <3> QED BY <3>1, <3>2, QueuesElement
    <2>2. perf' = [perf EXCEPT ![k] = Append(perf[k], e)]
      BY <1>2 DEF Emit
    <2> HIDE DEF e
    <2>3. perf'[k] = Append(perf[k], e) /\ \A j \in Kinds : j # k => perf'[j] = perf[j]
      <3>1. DOMAIN perf = Kinds
        BY <2>1 DEF Queues
      <3> QED BY <2>2, <3>1
    <2>4. InumsOf(perf'[k]) = InumsOf(perf[k]) \cup {e.inum}
      <3>1. PICK d : d = e
        OBVIOUS
      <3>2. \A s \in Seq(Event(k)), d2 \in Event(k) :
               InumsOf(Append(s, d2)) = InumsOf(s) \cup {d2.inum}
        BY AppendInums
      <3>3. InumsOf(Append(perf[k], d)) = InumsOf(perf[k]) \cup {d.inum}
        <4> HIDE DEF Event
        <4> QED BY <2>1, <3>1, <3>2
      <3> QED BY <2>3, <3>1, <3>3
    <2>5. UNCHANGED <<proc, wpc, winum, container_map, inum_ch, event_ch, epc, batch, einum,
                      inode_num, hpc, hev>>
      BY <1>2 DEF Emit
    <2>6. Mapped' = Mapped
      BY <2>5 DEF Mapped
    <2> QED BY <2>1, <2>3, <2>4, <2>5, <2>6
  <1>3. CASE Register
    <2>1. Mapped \subseteq Mapped' /\ (wpc' = "sendInum" => winum' \in Mapped')
      BY <1>3 DEF Register, Mapped, TypeOK
    <2>2. UNCHANGED <<proc, inum_ch, event_ch, epc, batch, einum, inode_num, perf, hpc, hev>>
      BY <1>3 DEF Register
    <2> QED BY <2>1, <2>2
  <1>4. CASE SendInum
    <2>1. winum \in Inums /\ inum_ch \in Seq(Inums)
      BY <1>4 DEF SendInum, TypeOK
    <2>2. inum_ch' = Append(inum_ch, winum) /\ wpc = "sendInum" /\ wpc' = "idle"
      BY <1>4 DEF SendInum, WatcherIdle
    <2>3. Range(inum_ch') = Range(inum_ch) \cup {winum}
      BY <2>1, <2>2, AppendElements
    <2>4. UNCHANGED <<proc, container_map, event_ch, epc, batch, einum, inode_num, perf,
                      hpc, hev>>
      BY <1>4 DEF SendInum
    <2>5. Mapped' = Mapped
      BY <2>4 DEF Mapped
    <2> QED BY <2>2, <2>3, <2>4, <2>5
  <1>5. CASE Poll
    <2>1. /\ batch' = perf[ekind] /\ perf' = [perf EXCEPT ![ekind] = <<>>]
          /\ epc' # "mapSys" /\ ekind \in Kinds /\ DOMAIN perf = Kinds
      BY <1>5 DEF Poll, PollEnds, TypeOK, Queues
    <2>2. \A j \in Kinds : InumsOf(perf'[j]) \subseteq InumsOf(perf[j])
      BY <2>1, EmptyInums
    <2>3. UNCHANGED <<proc, wpc, winum, container_map, inum_ch, event_ch, einum, inode_num,
                      hpc, hev>>
      BY <1>5 DEF Poll
    <2>4. Mapped' = Mapped
      BY <2>3 DEF Mapped
    <2> QED BY <2>1, <2>2, <2>3, <2>4
  <1>6. CASE Deliver
    <2>1. /\ batch \in Seq(Event(ekind)) /\ batch # <<>> /\ ekind \in Kinds
          /\ event_ch[ekind] \in Seq(Event(ekind)) /\ DOMAIN event_ch = Kinds
      BY <1>6, QueuesElement DEF Deliver, TypeOK, Queues
    <2>2. /\ InumsOf(batch') \subseteq InumsOf(batch)
          /\ Head(batch) \in Event(ekind) /\ Head(batch).inum \in InumsOf(batch)
      BY <1>6, <2>1, TailInums, TailElements DEF Deliver
    <2>3. \A j \in Kinds : InumsOf(event_ch'[j]) \subseteq InumsOf(event_ch[j]) \cup InumsOf(batch)
      <3>1. CASE event_ch' = event_ch
        BY <3>1
      <3>2. CASE event_ch' = [event_ch EXCEPT ![ekind] = Append(event_ch[ekind], Head(batch))]
        <4>1. InumsOf(event_ch'[ekind]) = InumsOf(event_ch[ekind]) \cup {Head(batch).inum}
          BY <2>1, <2>2, <3>2, AppendInums
        <4> QED BY <2>1, <2>2, <3>2, <4>1
      <3> QED BY <1>6, <3>1, <3>2 DEF Deliver
    <2>4. /\ UNCHANGED <<proc, wpc, winum, container_map, inum_ch, einum, inode_num, perf,
                         hpc, hev>>
          /\ epc' # "mapSys"
      BY <1>6 DEF Deliver, PollEnds
    <2>5. Mapped' = Mapped
      BY <2>4 DEF Mapped
    <2> QED BY <2>2, <2>3, <2>4, <2>5
  <1>7. CASE TryInum
    <2>1. CASE inum_ch = <<>>
      <3>1. /\ epc' # "mapSys"
            /\ UNCHANGED <<proc, wpc, winum, container_map, inum_ch, event_ch, batch,
                           inode_num, perf, hpc, hev>>
        BY <1>7, <2>1 DEF TryInum, AfterInum
      <3> QED BY <3>1 DEF Mapped
    <2>2. CASE inum_ch # <<>>
      <3>1. /\ inum_ch' = Tail(inum_ch) /\ einum' = Head(inum_ch)
            /\ inode_num' = [inode_num EXCEPT !["net"] = @ \cup {Head(inum_ch)}]
            /\ UNCHANGED <<proc, wpc, winum, container_map, event_ch, batch, perf, hpc, hev>>
        BY <1>7, <2>2 DEF TryInum
      <3>2. inum_ch \in Seq(Inums) /\ DOMAIN inode_num = Kinds
        BY DEF TypeOK
      <3>3. Head(inum_ch) \in Range(inum_ch) /\ Range(inum_ch') \subseteq Range(inum_ch)
        BY <2>2, <3>1, <3>2, TailElements
      <3>4. \A j \in Kinds : inode_num'[j] \subseteq inode_num[j] \cup Range(inum_ch)
        BY <3>1, <3>2, <3>3
      <3>5. Mapped' = Mapped
        BY <3>1 DEF Mapped
      <3> QED BY <3>1, <3>3, <3>4, <3>5
    <2> QED BY <2>1, <2>2
  <1>8. CASE MapSys
    <2>1. /\ epc = "mapSys" /\ epc' # "mapSys"
          /\ inode_num' = [inode_num EXCEPT !["sys"] = @ \cup {einum}]
          /\ UNCHANGED <<proc, wpc, winum, container_map, inum_ch, event_ch, batch, perf,
                         hpc, hev>>
      BY <1>8 DEF MapSys, AfterInum
    <2>2. \A j \in Kinds : inode_num'[j] \subseteq inode_num[j] \cup {einum}
      BY <2>1 DEF TypeOK
    <2>3. Mapped' = Mapped
      BY <2>1 DEF Mapped
    <2> QED BY <2>1, <2>2, <2>3
  <1>9. CASE TryIp
    <2>1. /\ epc' # "mapSys"
          /\ UNCHANGED <<proc, wpc, winum, container_map, inum_ch, event_ch, batch,
                         inode_num, perf, hpc, hev>>
      BY <1>9 DEF TryIp
    <2> QED BY <2>1 DEF Mapped
  <1>10. ASSUME NEW k \in Kinds, Recv(k) PROVE MapInv'
    <2>1. /\ proc = "up" /\ event_ch[k] # <<>> /\ event_ch[k] \in Seq(Event(k))
          /\ DOMAIN event_ch = Kinds /\ DOMAIN hev = Kinds /\ DOMAIN hpc = Kinds
      BY <1>10, QueuesElement DEF Recv, TypeOK, Queues
    <2>2. /\ event_ch' = [event_ch EXCEPT ![k] = Tail(event_ch[k])]
          /\ hev' = [hev EXCEPT ![k] = Head(event_ch[k])]
          /\ hpc' = [hpc EXCEPT ![k] = "lock"]
          /\ UNCHANGED <<proc, wpc, winum, container_map, inum_ch, epc, batch, einum,
                         inode_num, perf>>
      BY <1>10 DEF Recv
    <2>3. \A j \in Kinds : InumsOf(event_ch'[j]) \subseteq InumsOf(event_ch[j])
      BY <2>1, <2>2, TailInums
    <2>4. hev'[k].inum \in InumsOf(event_ch[k])
      BY <2>1, <2>2, TailInums
    <2>5. \A j \in Kinds : j # k => hev'[j] = hev[j] /\ hpc'[j] = hpc[j]
      BY <2>1, <2>2
    <2>6. Mapped' = Mapped
      BY <2>2 DEF Mapped
    <2> QED BY <2>1, <2>2, <2>3, <2>4, <2>5, <2>6
  <1>11. ASSUME NEW k \in Kinds, Done(k),
                UNCHANGED <<proc, wpc, winum, container_map, inum_ch, event_ch, epc, batch,
                            einum, inode_num, perf>>
         PROVE  MapInv'
    <2>1. \A j \in Kinds : hpc'[j] # "recv" => hpc[j] # "recv" /\ hev'[j] = hev[j]
      BY <1>11 DEF Done, TypeOK
    <2> QED BY <1>11, <2>1 DEF Mapped
  <1>12. CASE BeginPost \/ FindSet \/ AskSet
    <2>1. /\ \A j \in Kinds : hpc'[j] # "recv" => hpc[j] # "recv" /\ hev'[j] = hev[j]
          /\ UNCHANGED <<proc, wpc, winum, container_map, inum_ch, event_ch, epc, batch,
                         einum, inode_num, perf>>
      BY <1>12 DEF BeginPost, FindSet, AskSet, Done, TypeOK
    <2> QED BY <2>1 DEF Mapped
  <1>13. CASE Dies
    BY <1>13, EmptyElements, EmptyInums DEF Dies, WatcherIdle
  <1>14. CASE TaskFails
    BY <1>14 DEF TaskFails
  <1>15. CASE ClusterStep \/ PodSpecPosted \/ Restart
    BY <1>15, <1>1 DEF ClusterStep, PodModified, PodStops, PodStarts, PodSpecPosted,
        ProcessUnlessExcluded, WatcherIdle, Restart
  <1>16. CASE WatcherStep
    BY <1>16, <1>1, <1>3, <1>4 DEF WatcherStep, WatchEvent, WatchSkips, SendIp, Inspect,
        GiveUp, ProcessUnlessExcluded, WatcherIdle
  <1>17. CASE KernelStep \/ EbpfStep
    BY <1>17, <1>2, <1>5, <1>6, <1>7, <1>8, <1>9, <1>13
    DEF KernelStep, EbpfStep, InumPanics, IpPanics
  <1>18. CASE NetStep \/ SysStep \/ TrafficPosted
    BY <1>18, <1>10, <1>11, <1>12 DEF NetStep, SysStep, SkipPost, RecordSyscall,
        TrafficPosted, PostAnswered
  <1>19. CASE Killed \/ TaskFails
    BY <1>19, <1>13, <1>14 DEF Killed
  <1>20. CASE UNCHANGED vars
    BY <1>20, <1>1 DEF vars
  <1>21. CASE RecorderTurn \/ RecorderStep
    BY <1>21, <1>1 DEF RecorderTurn, RecorderStep, RecorderLocks, RecorderCompares
  <1> QED
    BY <1>15, <1>16, <1>17, <1>18, <1>19, <1>20, <1>21 DEF Next

-------------------------------------------------------------------------------
(* Who waits for whom. *)

FreeActors == {u \in Actors : Free(u)}

(* Whoever is behind a set of actors is behind all that are behind it.     *)
LEMMA BehindGrows == ASSUME NEW S PROVE S \subseteq Behind(S)
  BY DEF Behind

(* The holder of a pod's set waits for nobody: the syscall handler took    *)
(* container_map first, and the recorder has one set at a time.            *)
LEMMA SetHolderIsFree ==
    ASSUME TypeOK, LockDiscipline, NEW p \in Pods, setq[p] # <<>>
    PROVE  Head(setq[p]) \in FreeActors
  <1> DEFINE h == Head(setq[p])
  <1>1. setq[p] \in Seq(SetUsers) /\ lockq \in Seq(Tasks) /\ setq \in [Pods -> Seq(SetUsers)]
    BY DEF TypeOK
  <1>2. h \in SetUsers /\ h \in Range(setq[p]) /\ h \notin Range(Tail(setq[p]))
    BY <1>1, TailElements, TailInjective DEF LockDiscipline, SetLocks
  <1>3. SetOf(h) = p
    BY <1>2 DEF LockDiscipline, SetLocks
  <1>4. h = "sys" => hpc["sys"] = "set"
    BY <1>3 DEF SetOf
  <1>5. h = "recorder" => rpc # "away"
    BY <1>3 DEF SetOf, TypeOK
  <1> HIDE DEF h
  <1>6. ASSUME NEW u, IsBehindHead(lockq, h, u) PROVE FALSE
    <2>1. lockq # <<>> /\ h \in Range(Tail(lockq))
      BY <1>6 DEF IsBehindHead
    <2>2. h \in Tasks
      BY <1>1, <2>1, TailMember
    <2>3. h = "sys" /\ Head(lockq) = "sys"
      BY <1>2, <1>4, <2>2 DEF LockDiscipline, MapLock, Holds
    <2> QED BY <1>1, <2>1, <2>3, TailInjective DEF LockDiscipline, MapLock
  <1>7. ASSUME NEW u, NEW o \in Pods, IsBehindHead(setq[o], h, u) PROVE FALSE
    <2>1. setq[o] # <<>> /\ h \in Range(Tail(setq[o])) /\ setq[o] \in Seq(SetUsers)
      BY <1>1, <1>7 DEF IsBehindHead
    <2>2. h \in Range(setq[o])
      BY <2>1, TailElements
    <2>3. o = p
      BY <1>3, <2>2 DEF LockDiscipline, SetLocks
    <2> QED BY <1>2, <2>1, <2>3
  <1>8. h \in Actors /\ h # "watcher" /\ h # "ebpf"
    BY <1>2 DEF Actors
  <1>9. \A u \in Actors : ~WaitsFor(h, u)
    BY <1>6, <1>7, <1>8 DEF WaitsFor
  <1>10. ~Idle(h)
    BY <1>2, <1>4, <1>5 DEF Idle
  <1>11. h \in FreeActors
    BY <1>8, <1>9, <1>10 DEF FreeActors, Free
  <1> QED BY <1>11 DEF h

(* One that is at a pod's set has it or waits for its holder.              *)
LEMMA SetUserIsBehind ==
    ASSUME TypeOK, LockDiscipline, NEW u \in SetUsers, SetOf(u) \in Pods
    PROVE  u \in Behind(FreeActors)
  <1> DEFINE p == SetOf(u)
  <1>1. setq[p] \in Seq(SetUsers) /\ u \in Range(setq[p])
    BY DEF TypeOK, LockDiscipline, SetLocks
  <1>2. setq[p] # <<>>
    BY <1>1, EmptyElements
  <1>3. Head(setq[p]) \in FreeActors
    BY <1>2, SetHolderIsFree
  <1>4. u = Head(setq[p]) \/ u \in Range(Tail(setq[p]))
    BY <1>1, <1>2, TailElements
  <1>5. u = Head(setq[p]) \/ WaitsFor(u, Head(setq[p]))
    BY <1>2, <1>4 DEF WaitsFor, IsBehindHead
  <1> QED BY <1>3, <1>5 DEF Behind, Actors

(* An actor in no queue of a mutex that is no sender waits for nobody.     *)
LEMMA OutOfQueues ==
    ASSUME TypeOK, LockDiscipline, NEW k \in Kinds, SetOf(k) \notin Pods,
           lockq = <<>> \/ k \notin Range(Tail(lockq))
    PROVE  \A u \in Actors : ~WaitsFor(k, u)
  <1>1. ASSUME NEW u, NEW o \in Pods, IsBehindHead(setq[o], k, u) PROVE FALSE
    <2>1. setq[o] # <<>> /\ k \in Range(Tail(setq[o])) /\ setq[o] \in Seq(SetUsers)
      BY <1>1 DEF IsBehindHead, TypeOK
    <2>2. k \in Range(setq[o])
      BY <2>1, TailElements
    <2> QED BY <2>2 DEF LockDiscipline, SetLocks
  <1> QED BY <1>1 DEF WaitsFor, IsBehindHead

(* The holder of container_map awaits at most a set: the watcher awaits    *)
(* nothing with it, the network handler the broker.                        *)
LEMMA HolderIsBehind ==
    ASSUME TypeOK, LockDiscipline, MonitoredIsMapped, proc = "up", lockq # <<>>
    PROVE  Head(lockq) \in Tasks /\ Head(lockq) \in Behind(FreeActors)
  <1> DEFINE h == Head(lockq)
  <1>1. lockq \in Seq(Tasks) /\ h \in Tasks /\ h \in Range(lockq) /\ h \notin Range(Tail(lockq))
    BY TailElements, TailInjective DEF TypeOK, LockDiscipline, MapLock
  <1>2. Wants(h)
    BY <1>1 DEF LockDiscipline, MapLock
  <1> HIDE DEF h
  <1>3. ~Idle(h)
    BY <1>1, <1>2 DEF Idle, Wants
  <1>4. CASE h = "sys" /\ hpc["sys"] = "set"
    <2>1. SetOf("sys") \in Pods
      BY <1>4, SysHasPod DEF SetOf
    <2> QED BY <1>1, <1>4, <2>1, SetUserIsBehind DEF h
  <1>5. CASE h \in Kinds /\ ~(h = "sys" /\ hpc["sys"] = "set")
    <2>1. SetOf(h) \notin Pods \/ h = "net"
      BY <1>5 DEF SetOf
    <2>2. \A u \in Actors : ~WaitsFor(h, u)
      <3>1. CASE h = "sys"
        BY <1>1, <2>1, <3>1, OutOfQueues
      <3>2. CASE h = "net"
        <4>1. ASSUME NEW u, NEW o \in Pods, IsBehindHead(setq[o], "net", u) PROVE FALSE
          <5>1. setq[o] # <<>> /\ "net" \in Range(Tail(setq[o])) /\ setq[o] \in Seq(SetUsers)
            BY <4>1 DEF IsBehindHead, TypeOK
          <5> QED BY <5>1, TailMember
        <4> QED BY <1>1, <3>2, <4>1 DEF WaitsFor, IsBehindHead
      <3> QED BY <1>5, <3>1, <3>2
    <2> QED BY <1>1, <1>3, <1>5, <2>2, BehindGrows DEF Free, FreeActors, Actors, h
  <1>6. CASE h = "watcher"
    <2>1. wpc = "lock"
      BY <1>2, <1>6 DEF Wants
    <2>2. ASSUME NEW u, NEW o \in Pods, IsBehindHead(setq[o], "watcher", u) PROVE FALSE
      <3>1. setq[o] # <<>> /\ "watcher" \in Range(Tail(setq[o])) /\ setq[o] \in Seq(SetUsers)
        BY <2>2 DEF IsBehindHead, TypeOK
      <3> QED BY <3>1, TailMember
    <2>3. \A u \in Actors : ~WaitsFor(h, u)
      BY <1>1, <1>6, <2>1, <2>2 DEF WaitsFor, IsBehindHead
    <2> QED BY <1>1, <1>3, <1>6, <2>3, BehindGrows DEF Free, FreeActors, Actors, h
  <1> QED BY <1>1, <1>4, <1>5, <1>6

(* One that wants container_map holds it or waits for its holder.          *)
LEMMA WantsIsBehind ==
    ASSUME TypeOK, LockDiscipline, MonitoredIsMapped, proc = "up", NEW t \in Tasks, Wants(t)
    PROVE  t \in Behind(Behind(FreeActors))
  <1>1. t \in Range(lockq) /\ lockq \in Seq(Tasks)
    BY DEF LockDiscipline, MapLock, TypeOK
  <1>2. lockq # <<>>
    BY <1>1, EmptyElements
  <1>3. Head(lockq) \in Tasks /\ Head(lockq) \in Behind(FreeActors)
    BY <1>2, HolderIsBehind
  <1>4. t = Head(lockq) \/ t \in Range(Tail(lockq))
    BY <1>1, <1>2, TailElements
  <1>5. t = Head(lockq) \/ WaitsFor(t, Head(lockq))
    BY <1>2, <1>4 DEF WaitsFor, IsBehindHead
  <1> QED BY <1>3, <1>5 DEF Behind, Actors

(* A handler that has an event to receive or to handle is behind nobody,   *)
(* or behind the holder of container_map.                                  *)
LEMMA HandlerIsBehind ==
    ASSUME TypeOK, LockDiscipline, MonitoredIsMapped, proc = "up", NEW k \in Kinds, ~Idle(k)
    PROVE  k \in Behind(Behind(FreeActors))
  <1>1. CASE Wants(k)
    BY <1>1, WantsIsBehind
  <1>2. CASE ~Wants(k)
    <2>1. hpc[k] = "recv" /\ k \notin Range(lockq) /\ lockq \in Seq(Tasks)
      BY <1>2 DEF Wants, LockDiscipline, MapLock, TypeOK
    <2>2. lockq = <<>> \/ k \notin Range(Tail(lockq))
      BY <2>1, TailElements
    <2>3. \A u \in Actors : ~WaitsFor(k, u)
      <3>1. ASSUME NEW u, NEW o \in Pods, IsBehindHead(setq[o], k, u) PROVE FALSE
        <4>1. setq[o] # <<>> /\ k \in Range(Tail(setq[o])) /\ setq[o] \in Seq(SetUsers)
          BY <3>1 DEF IsBehindHead, TypeOK
        <4>2. k \in Range(setq[o]) /\ k \in SetUsers
          BY <4>1, TailMember
        <4>3. k = "sys" /\ SetOf("sys") = o
          BY <4>2 DEF LockDiscipline, SetLocks
        <4> QED BY <2>1, <4>3 DEF SetOf
      <3> QED BY <2>2, <3>1 DEF WaitsFor, IsBehindHead
    <2> QED BY <2>3, BehindGrows DEF Free, FreeActors, Actors
  <1> QED BY <1>1, <1>2

(* No queue of a mutex holds the blocking thread.                          *)
LEMMA ThreadInNoQueue ==
    ASSUME TypeOK, NEW u, WaitsFor("ebpf", u)
    PROVE  epc = "deliver" /\ u = ekind /\ Len(event_ch[u]) = ChanCap
  <1>1. ~IsBehindHead(lockq, "ebpf", u)
    <2> SUFFICES ASSUME IsBehindHead(lockq, "ebpf", u) PROVE FALSE
      OBVIOUS
    <2>1. lockq # <<>> /\ "ebpf" \in Range(Tail(lockq)) /\ lockq \in Seq(Tasks)
      BY DEF IsBehindHead, TypeOK
    <2> QED BY <2>1, TailMember
  <1>2. \A o \in Pods : ~IsBehindHead(setq[o], "ebpf", u)
    <2> SUFFICES ASSUME NEW o \in Pods, IsBehindHead(setq[o], "ebpf", u) PROVE FALSE
      OBVIOUS
    <2>1. setq[o] # <<>> /\ "ebpf" \in Range(Tail(setq[o])) /\ setq[o] \in Seq(SetUsers)
      BY DEF IsBehindHead, TypeOK
    <2> QED BY <2>1, TailMember
  <1> QED BY <1>1, <1>2 DEF WaitsFor

(* The blocking thread waits for a handler that has a full channel.        *)
LEMMA ThreadIsBehind ==
    ASSUME TypeOK, LockDiscipline, MonitoredIsMapped, proc = "up"
    PROVE  "ebpf" \in Behind(Behind(Behind(FreeActors)))
  <1>1. CASE epc = "deliver" /\ Len(event_ch[ekind]) = ChanCap
    <2>1. ekind \in Kinds /\ event_ch[ekind] # <<>>
      <3>1. ekind \in Kinds /\ event_ch \in Queues
        BY DEF TypeOK
      <3>2. Len(<<>>) = 0
        OBVIOUS
      <3> QED BY <1>1, <3>1, <3>2
    <2>2. ~Idle(ekind)
      BY <2>1 DEF Idle
    <2>3. ekind \in Behind(Behind(FreeActors))
      BY <2>1, <2>2, HandlerIsBehind
    <2>4. WaitsFor("ebpf", ekind)
      BY <1>1 DEF WaitsFor
    <2> QED BY <2>3, <2>4 DEF Behind, Actors
  <1>2. CASE ~(epc = "deliver" /\ Len(event_ch[ekind]) = ChanCap)
    <2>1. \A u \in Actors : ~WaitsFor("ebpf", u)
      BY <1>2, ThreadInNoQueue
    <2>2. Free("ebpf")
      BY <2>1 DEF Free, Idle
    <2> QED BY <2>2, BehindGrows DEF FreeActors, Actors
  <1> QED BY <1>1, <1>2

(* So the watcher, who may wait for the thread, is the last in line.       *)
LEMMA StallsAtBroker == TypeOK /\ LockDiscipline /\ MonitoredIsMapped => OnlyBrokerStalls
  <1> SUFFICES ASSUME TypeOK, LockDiscipline, MonitoredIsMapped, proc = "up",
                      NEW t \in Actors, ~Idle(t)
               PROVE  t \in Behind(Behind(Behind(Behind(FreeActors))))
    BY DEF OnlyBrokerStalls, FreeActors
  <1>1. \A S : S \subseteq Behind(S)
    BY BehindGrows
  <1>2. CASE t \in Kinds
    BY <1>1, <1>2, HandlerIsBehind
  <1>3. CASE t = "ebpf"
    BY <1>1, <1>3, ThreadIsBehind
  <1>4. CASE t = "recorder"
    <2>1. SetOf("recorder") \in Pods
      BY <1>4 DEF Idle, SetOf, TypeOK
    <2> QED BY <1>1, <1>4, <2>1, SetUserIsBehind
  <1>5. CASE t = "watcher"
    <2>1. CASE Wants(t)
      BY <1>1, <1>5, <2>1, WantsIsBehind
    <2>2. CASE WaitsFor(t, "ebpf")
      BY <2>2, ThreadIsBehind DEF Behind
    <2>3. CASE ~Wants(t) /\ ~WaitsFor(t, "ebpf")
      <3>1. "watcher" \notin Range(lockq) /\ lockq \in Seq(Tasks)
        BY <1>5, <2>3 DEF LockDiscipline, MapLock, TypeOK
      <3>2. \A u : ~IsBehindHead(lockq, "watcher", u)
        BY <3>1, TailElements DEF IsBehindHead
      <3>3. ASSUME NEW u, NEW o \in Pods, IsBehindHead(setq[o], "watcher", u) PROVE FALSE
        <4>1. setq[o] # <<>> /\ "watcher" \in Range(Tail(setq[o])) /\ setq[o] \in Seq(SetUsers)
          BY <3>3 DEF IsBehindHead, TypeOK
        <4> QED BY <4>1, TailMember
      <3>4. \A u \in Actors : ~WaitsFor(t, u)
        BY <1>5, <2>3, <3>2, <3>3 DEF WaitsFor
      <3> QED BY <1>1, <3>4 DEF Free, FreeActors
    <2> QED BY <2>1, <2>2, <2>3
  <1> QED BY <1>2, <1>3, <1>4, <1>5 DEF Actors

-------------------------------------------------------------------------------
(* Whose entry an inode number has. *)

(* What the watcher is about to insert is the pod's own: a namespace has   *)
(* one pod, unless it is the host's, and one that got it since the watcher *)
(* looked is still to be watched. Only a pid given away to another process *)
(* before /proc is read can have misled it.                                *)
FoundIsOwn ==
    wpc = "lock" /\ ~misread /\ winum # NoInum /\ winum # HostInum =>
        \A p \in Pods : netns[p] = winum => p = wpod \/ p \in applied
NamespacesArePrivate ==
    \A p, q \in Pods :
        netns[p] = netns[q] /\ netns[p] # NoInum /\ netns[p] # HostInum => p = q
OwnerInv == FoundIsOwn /\ NamespacesArePrivate

(* No pod runs at first.                                                   *)
LEMMA InitOwnerInv == Init => OwnerInv
  BY DEF Init, FreshProcess, OwnerInv, FoundIsOwn, NamespacesArePrivate

(* Pods come with a namespace of their own and are watched from then on.   *)
LEMMA StepOwnerInv == TypeOK /\ OwnerInv /\ [Next]_vars => OwnerInv'
  <1> SUFFICES ASSUME TypeOK, OwnerInv, [Next]_vars PROVE OwnerInv'
    OBVIOUS
  <1> USE DEF OwnerInv, FoundIsOwn, NamespacesArePrivate, watcherVars, sharedVars,
              chanVars, ebpfVars, kernelVars, handlerVars
  <1>1. CASE /\ UNCHANGED netns
             /\ wpc' = "lock" => wpc = "lock" /\ UNCHANGED <<winum, wpod, misread>>
                                /\ applied \subseteq applied'
    BY <1>1
  <1>2. ASSUME NEW p \in Pods, NEW i \in Inums, PodStarts(p, i) PROVE OwnerInv'
    <2>1. /\ netns' = [netns EXCEPT ![p] = i] /\ applied' = applied \cup {p}
          /\ UNCHANGED <<wpc, wpod, winum, misread>>
      BY <1>2 DEF PodStarts
    <2>2. i = HostInum \/ \A q \in Pods : netns[q] # i
      BY <1>2 DEF PodStarts
    <2>3. \A q \in Pods : netns'[q] = IF q = p THEN i ELSE netns[q]
      BY <2>1 DEF TypeOK
    <2> QED BY <2>1, <2>2, <2>3
  <1>3. ASSUME NEW p \in Pods, PodStops(p) PROVE OwnerInv'
    <2>1. netns' = [netns EXCEPT ![p] = NoInum] /\ UNCHANGED <<applied, wpc, wpod, winum, misread>>
      BY <1>3 DEF PodStops
    <2>2. \A q \in Pods : netns'[q] = IF q = p THEN NoInum ELSE netns[q]
      BY <2>1 DEF TypeOK
    <2> QED BY <2>1, <2>2
  <1>4. CASE Inspect
    <2>1. UNCHANGED <<netns, wpod, applied>>
      BY <1>4 DEF Inspect
    <2>2. CASE winum' \in {netns[wpod], NoInum}
      <3>1. wpod \in Pods
        BY <1>4 DEF Inspect, TypeOK
      <3> QED BY <2>1, <2>2, <3>1
    <2>3. CASE UNCHANGED wpc
      BY <1>4, <2>1, <2>3 DEF Inspect
    <2>4. CASE misread'
      BY <2>1, <2>4
    <2> QED BY <1>4, <2>2, <2>3, <2>4 DEF Inspect
  <1>5. CASE Restart
    <2>1. UNCHANGED <<netns, wpc, wpod, winum>> /\ applied' = {p \in Pods : netns[p] # NoInum}
      BY <1>5 DEF Restart
    <2> QED BY <2>1
  <1>6. CASE ClusterStep
    BY <1>6, <1>1, <1>2, <1>3 DEF ClusterStep, PodModified
  <1>7. CASE WatcherStep
    BY <1>7, <1>1, <1>4 DEF WatcherStep, WatchEvent, WatchSkips, SendIp, GiveUp, Register,
        SendInum, ProcessUnlessExcluded, WatcherIdle
  <1>8. CASE KernelStep \/ PodSpecPosted
    BY <1>8, <1>1 DEF KernelStep, Emit, PodSpecPosted, ProcessUnlessExcluded, WatcherIdle
  <1>9. CASE EbpfStep
    BY <1>9, <1>1 DEF EbpfStep, Poll, Deliver, TryInum, MapSys, TryIp, InumPanics, IpPanics,
        Dies, WatcherIdle
  <1>10. CASE NetStep \/ SysStep \/ TrafficPosted \/ RecorderTurn \/ RecorderStep
    BY <1>10, <1>1 DEF NetStep, SysStep, Recv, BeginPost, SkipPost, FindSet, AskSet,
        RecordSyscall, TrafficPosted, PostAnswered, RecorderTurn, RecorderStep,
        RecorderLocks, RecorderCompares
  <1>11. CASE Killed \/ TaskFails
    BY <1>11, <1>1 DEF Killed, Dies, TaskFails, WatcherIdle
  <1>12. CASE UNCHANGED vars
    BY <1>12, <1>1 DEF vars
  <1> QED BY <1>5, <1>6, <1>7, <1>8, <1>9, <1>10, <1>11, <1>12 DEF Next

(* The entry of a pod of which the watcher has nothing new.                *)
EntryStays ==
    \A p \in Pods, i \in Inums :
        /\ proc' = "up" /\ i # HostInum /\ ~misread
        /\ netns[p] = i /\ container_map[i] = p /\ p \notin applied
        => container_map'[i] = p

(* Only Register writes container_map, and only what FoundIsOwn allows.    *)
LEMMA StepEntryStays == TypeOK /\ OwnerInv /\ [Next]_vars => EntryStays
  <1> SUFFICES ASSUME TypeOK, OwnerInv, [Next]_vars PROVE EntryStays
    OBVIOUS
  <1> USE DEF EntryStays, sharedVars
  <1>1. CASE UNCHANGED container_map \/ proc' # "up"
    BY <1>1
  <1>2. CASE Register
    <2> SUFFICES ASSUME NEW p \in Pods, NEW i \in Inums, i # HostInum, ~misread,
                        netns[p] = i, container_map[i] = p, p \notin applied
                 PROVE  container_map'[i] = p
      OBVIOUS
    <2>1. wpc = "lock"
      BY <1>2 DEF Register
    <2>2. CASE winum = i
      <3>1. wpod = p
        BY <2>1, <2>2 DEF OwnerInv, FoundIsOwn
      <3> QED BY <1>2, <3>1 DEF Register, TypeOK
    <2>3. CASE winum # i
      BY <1>2, <2>3 DEF Register, TypeOK
    <2> QED BY <2>2, <2>3
  <1>3. CASE ClusterStep \/ KernelStep \/ WatcherStep
    BY <1>3, <1>1, <1>2 DEF ClusterStep, PodModified, PodStops, PodStarts, KernelStep, Emit,
        WatcherStep, WatchEvent, WatchSkips, SendIp, Inspect, GiveUp, SendInum
  <1>4. CASE EbpfStep
    BY <1>4, <1>1 DEF EbpfStep, Poll, Deliver, TryInum, MapSys, TryIp, InumPanics, IpPanics,
        Dies
  <1>5. CASE NetStep \/ SysStep \/ TrafficPosted \/ PodSpecPosted
    BY <1>5, <1>1 DEF NetStep, SysStep, Recv, BeginPost, SkipPost, FindSet, AskSet,
        RecordSyscall, TrafficPosted, PostAnswered, PodSpecPosted
  <1>6. CASE Killed \/ TaskFails \/ Restart
    BY <1>6, <1>1 DEF Killed, Dies, TaskFails, Restart
  <1>7. CASE UNCHANGED vars
    BY <1>7, <1>1 DEF vars
  <1>8. CASE RecorderTurn \/ RecorderStep
    BY <1>8, <1>1 DEF RecorderTurn, RecorderStep, RecorderLocks, RecorderCompares
  <1> QED BY <1>3, <1>4, <1>5, <1>6, <1>7, <1>8 DEF Next

-------------------------------------------------------------------------------
(* The theorems. *)

Inv == TypeOK /\ LockDiscipline /\ MapInv

(* The three invariants hold together: a record is well typed because its  *)
(* inode is mapped, a mutex is not released by a task without it, and the  *)
(* set the syscall handler is at is that of a pod.                         *)
THEOREM Invariance == Spec => []Inv
  <1>1. Init => Inv
    BY InitTypeOK, InitLockDiscipline, InitMapInv DEF Inv
  <1>2. Inv /\ [Next]_vars => Inv'
    BY StepTypeOK, StepLockDiscipline, StepMapInv DEF Inv, MapInv
  <1> QED BY <1>1, <1>2, PTL DEF Spec

(* Every variable keeps its type, each queue holding events of its kind.   *)
THEOREM TypeCorrect == Spec => []TypeOK
  BY Invariance, PTL DEF Inv

(* The mutexes are taken in one order, that of container_map before that   *)
(* of a pod's set, and the recorder takes one set at a time: container_map *)
(* is held across the POST by the network handler, and across the search   *)
(* of SYSCALL_CACHE and the await of a pod's set by the syscall handler.   *)
THEOREM LockCorrect == Spec => []LockDiscipline
  BY Invariance, PTL DEF Inv

(* No event of a monitored namespace is dropped for want of an entry in    *)
(* container_map, whatever the capacities, the faults and the interleaving.*)
THEOREM MonitoredIsMappedCorrect == Spec => []MonitoredIsMapped
  BY Invariance, PTL DEF Inv, MapInv

(* And so is everything on its way through the channels.                   *)
THEOREM InFlightIsMappedCorrect == Spec => []InFlightIsMapped
  BY Invariance, PTL DEF Inv, MapInv

(* However full the channels are and whatever set the recorder has, there  *)
(* is no circle: whoever waits is at most four places behind an actor that *)
(* can go on, or that awaits the broker or containerd.                     *)
THEOREM OnlyBrokerStallsCorrect == Spec => []OnlyBrokerStalls
  <1>1. Inv => OnlyBrokerStalls
    BY StallsAtBroker DEF Inv, MapInv
  <1> QED BY <1>1, Invariance, PTL

(* The entry of a running pod that the watcher is through with stays the   *)
(* pod's, though nobody removes entries, inode numbers are reused, and     *)
(* pids are: only while what the watcher has in hand was read through one  *)
(* given away may another pod take the entry.                              *)
THEOREM OwnEntryStaysCorrect == Spec => OwnEntryStays
  <1>1. Init => OwnerInv
    BY InitOwnerInv
  <1>2. Inv /\ OwnerInv /\ [Next]_vars => OwnerInv'
    BY StepOwnerInv DEF Inv
  <1>3. Spec => []OwnerInv
    BY <1>1, <1>2, Invariance, PTL DEF Spec
  <1>4. Inv /\ OwnerInv /\ [Next]_vars => [EntryStays]_vars
    BY StepEntryStays DEF Inv
  <1>5. Spec => [][EntryStays]_vars
    BY <1>3, <1>4, Invariance, PTL DEF Spec
  <1> QED BY <1>5 DEF OwnEntryStays, EntryStays

=============================================================================

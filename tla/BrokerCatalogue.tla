---------------------------- MODULE BrokerCatalogue ----------------------------
(***************************************************************************)
(* What the broker knows of pods and services. Each controller watches the *)
(* pods of its node and every service (controller/src/pod_watcher.rs,      *)
(* service_watcher.rs) and posts what it is told, one object at a time and *)
(* in order; the broker keeps one row for each name of a pod and for each  *)
(* address of a service, the last that was posted (broker/src/add.rs), and *)
(* never deletes any. Pods move between nodes, names are used in several   *)
(* namespaces and addresses are used again.                                *)
(*                                                                         *)
(* A watch begins with a list of what there is. One that breaks takes the  *)
(* other with it and leaves a process that is up and silent until it is    *)
(* killed (ControllerPipeline, TaskFails). A request whose client has left *)
(* runs on and may be late.                                                *)
(***************************************************************************)
EXTENDS Naturals, Sequences, FiniteSets

CONSTANTS
    Controllers,
    Pods, Services,
    KeyOf,       \* the name of a pod, the cluster address of a service
    Values,      \* the address of a pod, the specification of a service
    NoValue, NoEvent,
    MaxChanges,  \* bound: how often an object starts or changes
    MaxFaults    \* bound: failed requests, failed tasks and restarts

Objects == Pods \cup Services
Keys == {KeyOf[o] : o \in Objects}

ASSUME ObjectsAssumption ==
    /\ IsFiniteSet(Objects) /\ DOMAIN KeyOf = Objects
    /\ \A p \in Pods : \A s \in Services : KeyOf[p] # KeyOf[s]
ASSUME ValuesAssumption ==
    /\ NoValue \notin Values
    /\ \A o \in Objects : \A v \in Values : NoEvent # [obj |-> o, val |-> v]
ASSUME BoundsAssumption == MaxChanges \in Nat /\ MaxFaults \in Nat

VARIABLES
    now,      \* each object of the cluster, NoValue if it is not there
    seers,    \* the watches that are told of it
    queue,    \* what each watch has been told and not yet posted
    posting,  \* what each watch awaits the answer of
    stray,    \* requests whose client left
    silent,   \* the controllers of which a task failed
    row,      \* pod_details and svc_details
    spoilt,   \* history: keys of which a post failed, was dropped or overtaken
    changes, faults

clusterVars == <<now, seers, changes>>
vars == <<clusterVars, queue, posting, stray, silent, row, spoilt, faults>>

\* The watches of a controller run side by side.
WatchesOf(c) == {<<c, "pods">>, <<c, "services">>}
Watches == UNION {WatchesOf(c) : c \in Controllers}

Event(o) == [obj |-> o, val |-> now[o]]

Init ==
    /\ now = [o \in Objects |-> NoValue]
    /\ seers = [o \in Objects |-> {}]
    /\ queue = [w \in Watches |-> <<>>]
    /\ posting = [w \in Watches |-> NoEvent]
    /\ stray = {} /\ silent = {}
    /\ row = [k \in Keys |-> NoEvent]
    /\ spoilt = {}
    /\ changes = 0 /\ faults = 0

IsOf(e, k) == e # NoEvent /\ KeyOf[e.obj] = k

InRange(s) == {s[i] : i \in DOMAIN s}

(* The watches that still have something of the key to post. *)
Busy(k) == {w \in Watches : IsOf(posting[w], k) \/ \E e \in InRange(queue[w]) : IsOf(e, k)}

Live(k) == {o \in Objects : KeyOf[o] = k /\ now[o] # NoValue}

-------------------------------------------------------------------------------
(* The cluster.                                                            *)

(* An object becomes ready or changes, and the watches W are told. Others  *)
(* may have something older of that key to post, or its name may be in use *)
(* in another namespace.                                                   *)
Change(o, v, W) ==
    LET k == KeyOf[o]
    IN  /\ changes < MaxChanges /\ changes' = changes + 1
        /\ now' = [now EXCEPT ![o] = v]
        /\ seers' = [seers EXCEPT ![o] = W]
        /\ queue' = [w \in Watches |->
               IF w \in W /\ w[1] \notin silent THEN Append(queue[w], [obj |-> o, val |-> v])
               ELSE queue[w]]
        /\ spoilt' = IF Live(k) \ {o} # {} \/ ~(Busy(k) \subseteq W) THEN spoilt \cup {k}
                     ELSE IF Busy(k) = {} /\ ~\E e \in stray : IsOf(e, k) THEN spoilt \ {k}
                     ELSE spoilt
        /\ UNCHANGED <<posting, stray, silent, row, faults>>

(* A pod keeps node and address while it runs. *)
PodStarts(p, addr, c) ==
    /\ now[p] = NoValue
    /\ \A o \in Pods : now[o] # addr
    /\ Change(p, addr, {<<c, "pods">>})

(* Headless services all have the address "None", and one row.             *)
ServiceChanges(s, v) ==
    /\ now[s] # v
    /\ Change(s, v, Controllers \X {"services"})

(* applied_objects() says nothing of what is deleted. *)
Removed(o) ==
    /\ now[o] # NoValue
    /\ now' = [now EXCEPT ![o] = NoValue]
    /\ UNCHANGED <<seers, changes, queue, posting, stray, silent, row, spoilt, faults>>

-------------------------------------------------------------------------------
(* Controllers and broker.                                                 *)

Fault == faults < MaxFaults /\ faults' = faults + 1

(* Mutant: the row of the address is the one replaced.                     *)
UpsertByValue(e) ==
    row' = [k \in Keys |->
        IF IsOf(e, k) \/ (row[k] # NoEvent /\ row[k].val = e.val) THEN e ELSE row[k]]

(* Mutant: a row that is there is left as it is.                           *)
UpsertOnce(e) == row' = [k \in Keys |-> IF IsOf(e, k) /\ row[k] = NoEvent THEN e ELSE row[k]]

(* upsert_pod_details, upsert_svc_details: a single statement. *)
Upsert(e) == row' = [k \in Keys |-> IF IsOf(e, k) THEN e ELSE row[k]]

Post(w) ==
    /\ posting[w] = NoEvent /\ queue[w] # <<>>
    /\ posting' = [posting EXCEPT ![w] = Head(queue[w])]
    /\ queue' = [queue EXCEPT ![w] = Tail(@)]
    /\ UNCHANGED <<clusterVars, stray, silent, row, spoilt, faults>>

Ends(w) == posting[w] # NoEvent /\ posting' = [posting EXCEPT ![w] = NoEvent]

Spoils(w) == spoilt' = spoilt \cup {KeyOf[posting[w].obj]}

Store(w) ==
    /\ Ends(w)
    /\ Upsert(posting[w])
    /\ UNCHANGED <<clusterVars, queue, stray, silent, spoilt, faults>>

(* The statement fails: expect() panics, and a 500 is an answer like any.  *)
Refused(w) ==
    /\ Fault /\ Ends(w) /\ Spoils(w)
    /\ UNCHANGED <<clusterVars, queue, stray, silent, row>>

(* The error is logged, and nothing posted again. *)
ConnectionBreaks(w) ==
    /\ Fault /\ Ends(w) /\ Spoils(w)
    /\ stray' = stray \/ stray' = stray \cup {posting[w]}
    /\ UNCHANGED <<clusterVars, queue, silent, row>>

Lands(e) ==
    /\ e \in stray
    /\ stray' = stray \ {e}
    /\ Upsert(e)
    /\ UNCHANGED <<clusterVars, queue, posting, silent, spoilt, faults>>

Listed(w) == {Event(o) : o \in {p \in Objects : now[p] # NoValue /\ w \in seers[p]}}

(* Mutant: a watch that begins again does so without a list.               *)
ListNothing(w) == {<<>>}

(* What there is, in any order. *)
Lists(w) ==
    {s \in [1 .. Cardinality(Listed(w)) -> Listed(w)] : \A e \in Listed(w) : e \in InRange(s)}

(* What a controller was posting is lost or runs on. *)
Leaves(c, undone) ==
    LET left == {posting[w] : w \in WatchesOf(c)} \ {NoEvent}
    IN  /\ posting' = [w \in Watches |-> IF w[1] = c THEN NoEvent ELSE posting[w]]
        /\ \E run \in SUBSET left :
               /\ stray' = stray \cup run
               /\ spoilt' = spoilt \cup {KeyOf[e.obj] : e \in run} \cup undone

(* A stream yields an error: try_join! drops both watches, with what they  *)
(* had yet to post. They may have posted something older before.           *)
TaskFails(c) ==
    /\ Fault
    /\ c \notin silent /\ silent' = silent \cup {c}
    /\ Leaves(c, {k \in Keys : Busy(k) \cap WatchesOf(c) # {}})
    /\ queue' = [w \in Watches |-> IF w[1] = c THEN <<>> ELSE queue[w]]
    /\ UNCHANGED <<clusterVars, row>>

(* The process is killed, or the blocking thread panics, and the kubelet   *)
(* starts it again; the watches begin with lists.                          *)
ControllerRestarts(c) ==
    /\ Fault
    /\ silent' = silent \ {c}
    /\ Leaves(c, {})
    /\ \E s \in Lists(<<c, "pods">>), t \in Lists(<<c, "services">>) :
           queue' = [queue EXCEPT ![<<c, "pods">>] = s, ![<<c, "services">>] = t]
    /\ UNCHANGED <<clusterVars, row>>

Next ==
    \/ \E p \in Pods, v \in Values, c \in Controllers : PodStarts(p, v, c)
    \/ \E s \in Services, v \in Values : ServiceChanges(s, v)
    \/ \E o \in Objects : Removed(o)
    \/ \E w \in Watches :
         Post(w) \/ Store(w) \/ Refused(w) \/ ConnectionBreaks(w)
    \/ \E e \in stray : Lands(e)
    \/ \E c \in Controllers : TaskFails(c) \/ ControllerRestarts(c)

Spec == Init /\ [][Next]_vars

(* Watches take what they are told and the broker answers. *)
Fairness == \A w \in Watches : WF_vars(Post(w)) /\ WF_vars(Store(w))

FairSpec == Spec /\ Fairness

-------------------------------------------------------------------------------
(* What the advisor is told.                                               *)

(* get_pod_by_ip: the first row with the address, which is any. *)
PodsAt(addr) == {row[k].obj : k \in {j \in Keys : row[j] # NoEvent /\ row[j].val = addr}} \cap Pods

(* GeneratePolicy asks for the pod by the address of a record, and makes   *)
(* the policy of the pod it is given.                                      *)
PolicyIsOf(recorded) == UNION {PodsAt(addr) : addr \in recorded}

-------------------------------------------------------------------------------
(* Properties.                                                             *)

Events == [obj : Objects, val : Values]

TypeOK ==
    /\ now \in [Objects -> Values \cup {NoValue}]
    /\ seers \in [Objects -> SUBSET Watches]
    /\ queue \in [Watches -> Seq(Events)]
    /\ posting \in [Watches -> Events \cup {NoEvent}]
    /\ stray \subseteq Events
    /\ silent \subseteq Controllers
    /\ \A w \in Watches : w[1] \in silent => queue[w] = <<>> /\ posting[w] = NoEvent
    /\ row \in [Keys -> Events \cup {NoEvent}]
    /\ \A k \in Keys : row[k] # NoEvent => IsOf(row[k], k)
    /\ spoilt \subseteq Keys
    /\ changes \in 0 .. MaxChanges /\ faults \in 0 .. MaxFaults

Reported(o) == \E w \in seers[o] : w[1] \notin silent

Settled(o) ==
    now[o] # NoValue /\ KeyOf[o] \notin spoilt /\ Reported(o) /\ Busy(KeyOf[o]) = {}

(* When every watch is through with an object that is there, and one that  *)
(* is told of it runs, the broker has it as it is: although several        *)
(* controllers post each service, in whatever order, fall silent and begin *)
(* again. The exceptions are keys of which a post failed, was dropped or   *)
(* runs on, names that two pods have, and pods that changed nodes before   *)
(* the first node's controller was through with them.                      *)
SettledIsCurrent == \A o \in Objects : Settled(o) => row[KeyOf[o]] = Event(o)

(* What is in the cluster is on record as it is in the end, with the same  *)
(* exceptions, if it is not removed and its controllers do not fall silent *)
(* before.                                                                 *)
ChangesSettle ==
    \A o \in Objects :
        now[o] # NoValue ~>
            \/ row[KeyOf[o]] = Event(o)
            \/ now[o] = NoValue \/ KeyOf[o] \in spoilt \/ ~Reported(o)

(* A policy that is asked for a pod is made of that pod, if all its        *)
(* traffic was recorded at one address, which it still has and which the   *)
(* broker knows to be its own.                                             *)
PolicyIsOfItsPod == \A p \in Pods : Settled(p) => PolicyIsOf({now[p]}) \subseteq {p}
================================================================================

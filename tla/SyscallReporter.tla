---------------------------- MODULE SyscallReporter ----------------------------
(***************************************************************************)
(* From the system calls that controllers see to the table that seccomp    *)
(* profiles are made of: the set that SYSCALL_CACHE keeps of each pod name *)
(* and send_syscall_cache_periodically with its LAST_SENT_CACHE            *)
(* (controller/src/syscall.rs), and the broker's POST pod/syscalls         *)
(* (broker/src/add.rs).                                                    *)
(*                                                                         *)
(* A batch holds the sets that changed, whole, and what it holds counts as *)
(* sent before it is posted. The broker takes the items one by one, with a *)
(* query and a statement for each, and replaces the row by the item. A     *)
(* failure drops the rest of the batch; a request whose client left runs   *)
(* on and may be late.                                                     *)
(***************************************************************************)
EXTENDS Naturals, FiniteSets

CONSTANTS
    Controllers,  \* one on each node
    Names,        \* names of pods; what is sent has no namespace
    Syscalls,
    Makes,        \* the calls that pods of each name make on each node
    ArchOf,       \* the architecture of each node
    NoArch,
    Requests, NoRequest, NoName,
    CacheCap,     \* names that a cache holds: 10000 in the code
    MaxFaults     \* bound: broken connections, failed statements, restarts, evictions

ASSUME NodesAssumption ==
    /\ Makes \in [Controllers -> [Names -> SUBSET Syscalls]]
    /\ DOMAIN ArchOf = Controllers
    /\ \A c \in Controllers : ArchOf[c] # NoArch
ASSUME ValuesAssumption == NoRequest \notin Requests /\ NoName \notin Names
ASSUME BoundsAssumption == CacheCap \in Nat /\ MaxFaults \in Nat

VARIABLES
    cache,    \* SYSCALL_CACHE of each controller, {} for a name it has not
    sent,     \* LAST_SENT_CACHE of each controller
    waiting,  \* the request each controller awaits the answer of
    pc,       \* where each request is
    arch,     \* the architecture in its items
    rest,     \* the items it has not carried out, {} for the others
    at,       \* the item it is at
    rowArch,  \* the architecture in each row of pod_syscalls
    row,      \* the calls in each row
    faults,
    missed,   \* history: names whose last set was sent and not stored
    late      \* history: names in requests that ran on unattended

requestVars == <<pc, arch, rest, at>>
tableVars == <<rowArch, row>>
controllerVars == <<cache, sent, waiting>>
vars == <<controllerVars, requestVars, tableVars, faults, missed, late>>

Archs == {ArchOf[c] : c \in Controllers}
NoCalls == [n \in Names |-> {}]
Working == {"lookup", "update", "insert"}
Answered == {"ok", "refused"}

Init ==
    /\ cache = [c \in Controllers |-> NoCalls]
    /\ sent = [c \in Controllers |-> NoCalls]
    /\ waiting = [c \in Controllers |-> NoRequest]
    /\ pc = [r \in Requests |-> "unused"]
    /\ arch = [r \in Requests |-> NoArch]
    /\ rest = [r \in Requests |-> NoCalls]
    /\ at = [r \in Requests |-> NoName]
    /\ rowArch = [n \in Names |-> NoArch]
    /\ row = NoCalls
    /\ faults = 0
    /\ missed = [c \in Controllers |-> {}]
    /\ late = {}

Held(calls) == {n \in Names : calls[n] # {}}
Attended(r) == \E c \in Controllers : waiting[c] = r

-------------------------------------------------------------------------------
(* The controller.                                                         *)

(* process_syscall_event: a call the set has not got yet. *)
Note(c, n, s) ==
    /\ s \in Makes[c][n] \ cache[c][n]
    /\ cache' = [cache EXCEPT ![c][n] = @ \cup {s}]
    /\ UNCHANGED <<sent, waiting, requestVars, tableVars, faults, missed, late>>

Fault == faults < MaxFaults /\ faults' = faults + 1

(* A cache is over its capacity and drops a name. *)
EvictCalls(c, n) ==
    /\ Fault
    /\ n \in Held(cache[c]) /\ Cardinality(Held(cache[c])) > CacheCap
    /\ cache' = [cache EXCEPT ![c][n] = {}]
    /\ UNCHANGED <<sent, waiting, requestVars, tableVars, missed, late>>

EvictSent(c, n) ==
    /\ Fault
    /\ n \in Held(sent[c]) /\ Cardinality(Held(sent[c])) > CacheCap
    /\ sent' = [sent EXCEPT ![c][n] = {}]
    /\ UNCHANGED <<cache, waiting, requestVars, tableVars, missed, late>>

(* Mutant: a set is sent when nothing of its name has been sent.           *)
ChangedFirst(c) == {n \in Held(cache[c]) : sent[c][n] = {}}

Changed(c) == {n \in Held(cache[c]) : cache[c][n] # sent[c][n]}

(* Mutant: only what is new is put in the batch.                           *)
ItemsNew(c) == [n \in Names |-> cache[c][n] \ sent[c][n]]

Items(c) == [n \in Names |-> IF n \in Changed(c) THEN cache[c][n] ELSE {}]

(* One turn of send_syscall_cache_periodically, up to its POST. *)
SendBatch(c, r) ==
    /\ waiting[c] = NoRequest
    /\ pc[r] = "unused"
    /\ Changed(c) # {}
    /\ sent' = [sent EXCEPT ![c] = [n \in Names |-> IF n \in Changed(c) THEN cache[c][n] ELSE @[n]]]
    /\ waiting' = [waiting EXCEPT ![c] = r]
    /\ pc' = [pc EXCEPT ![r] = "lookup"]
    /\ arch' = [arch EXCEPT ![r] = ArchOf[c]]
    /\ rest' = [rest EXCEPT ![r] = Items(c)]
    /\ missed' = [missed EXCEPT ![c] = @ \ Changed(c)]
    /\ UNCHANGED <<cache, at, tableVars, faults, late>>

Frees(r) ==
    /\ pc' = [pc EXCEPT ![r] = "unused"]
    /\ arch' = [arch EXCEPT ![r] = NoArch]
    /\ rest' = [rest EXCEPT ![r] = NoCalls]
    /\ at' = [at EXCEPT ![r] = NoName]

(* Any answer makes api_post_call return Ok, a 500 too. *)
Reply(c) ==
    LET r == waiting[c]
    IN  /\ r # NoRequest /\ pc[r] \in Answered
        /\ waiting' = [waiting EXCEPT ![c] = NoRequest]
        /\ missed' = [missed EXCEPT ![c] = @ \cup Held(rest[r])]
        /\ Frees(r)
        /\ UNCHANGED <<cache, sent, tableVars, faults, late>>

(* The connection breaks; the error is logged, and the sets stay in        *)
(* LAST_SENT_CACHE. The request is lost, if it had not arrived or the      *)
(* broker crashed between two items, or runs on.                           *)
ConnectionBreaks(c) ==
    LET r == waiting[c]
    IN  /\ Fault
        /\ r # NoRequest
        /\ waiting' = [waiting EXCEPT ![c] = NoRequest]
        /\ \/ /\ pc[r] = "lookup"
              /\ Frees(r)
              /\ missed' = [missed EXCEPT ![c] = @ \cup Held(rest[r])]
              /\ UNCHANGED late
           \/ /\ late' = late \cup Held(rest[r])
              /\ UNCHANGED <<requestVars, missed>>
        /\ UNCHANGED <<cache, sent, tableVars>>

(* Both caches are gone, and nobody awaits the controller's request, which *)
(* is lost or runs on.                                                     *)
ControllerRestarts(c) ==
    LET r == waiting[c]
    IN  /\ Fault
        /\ cache' = [cache EXCEPT ![c] = NoCalls]
        /\ sent' = [sent EXCEPT ![c] = NoCalls]
        /\ waiting' = [waiting EXCEPT ![c] = NoRequest]
        /\ \/ r # NoRequest /\ pc[r] = "lookup" /\ Frees(r) /\ UNCHANGED late
           \/ /\ late' = IF r = NoRequest THEN late ELSE late \cup Held(rest[r])
              /\ UNCHANGED requestVars
        /\ UNCHANGED <<tableVars, missed>>

-------------------------------------------------------------------------------
(* The broker: create_pod_syscalls.                                        *)

Goes(r, to) == pc' = [pc EXCEPT ![r] = to]

BrokerLeavesAlone == UNCHANGED <<controllerVars, missed, late>>

(* Mutant: the row is looked for by its name alone.                        *)
LookupByName(r, n) ==
    /\ pc[r] = "lookup"
    /\ n \in Held(rest[r])
    /\ at' = [at EXCEPT ![r] = n]
    /\ Goes(r, IF rowArch[n] # NoArch THEN "update" ELSE "insert")
    /\ UNCHANGED <<arch, rest, tableVars, faults>> /\ BrokerLeavesAlone

(* get_row, by name, namespace and architecture. The items are in the      *)
(* order of the controller's map, which is any.                            *)
Lookup(r, n) ==
    /\ pc[r] = "lookup"
    /\ n \in Held(rest[r])
    /\ at' = [at EXCEPT ![r] = n]
    /\ Goes(r, IF rowArch[n] = arch[r] THEN "update" ELSE "insert")
    /\ UNCHANGED <<arch, rest, tableVars, faults>> /\ BrokerLeavesAlone

Writes(r) == row' = [row EXCEPT ![at[r]] = rest[r][at[r]]]

(* Mutant: the items are never taken off the batch.                        *)
ItemStays(r) ==
    /\ at' = [at EXCEPT ![r] = NoName]
    /\ Goes(r, IF Held(rest[r]) = {at[r]} THEN "ok" ELSE "lookup")
    /\ UNCHANGED rest

(* Mutant: the loop returns after its first item.                          *)
ItemEndsBatch(r) ==
    /\ rest' = [rest EXCEPT ![r] = NoCalls]
    /\ at' = [at EXCEPT ![r] = NoName]
    /\ Goes(r, "ok")

ItemDone(r) ==
    /\ rest' = [rest EXCEPT ![r][at[r]] = {}]
    /\ at' = [at EXCEPT ![r] = NoName]
    /\ Goes(r, IF Held(rest[r]) = {at[r]} THEN "ok" ELSE "lookup")

(* The calls alone: neither the architecture nor the time. *)
Update(r) ==
    /\ pc[r] = "update"
    /\ Writes(r)
    /\ ItemDone(r)
    /\ UNCHANGED <<arch, rowArch, faults>> /\ BrokerLeavesAlone

Insert(r) ==
    /\ pc[r] = "insert"
    /\ rowArch[at[r]] = NoArch
    /\ rowArch' = [rowArch EXCEPT ![at[r]] = arch[r]]
    /\ Writes(r)
    /\ ItemDone(r)
    /\ UNCHANGED <<arch, faults>> /\ BrokerLeavesAlone

(* The name is taken: expect() panics, which is answered with a 500. *)
InsertPanics(r) ==
    /\ pc[r] = "insert"
    /\ rowArch[at[r]] # NoArch
    /\ Goes(r, "refused")
    /\ UNCHANGED <<arch, rest, at, tableVars, faults>> /\ BrokerLeavesAlone

(* No connection in time, or the database fails a statement, which may     *)
(* have been carried out.                                                  *)
StatementFails(r) ==
    /\ Fault
    /\ pc[r] \in Working
    /\ Goes(r, "refused")
    /\ \/ UNCHANGED tableVars
       \/ pc[r] = "update" /\ Writes(r) /\ UNCHANGED rowArch
       \/ /\ pc[r] = "insert" /\ rowArch[at[r]] = NoArch
          /\ Writes(r) /\ rowArch' = [rowArch EXCEPT ![at[r]] = arch[r]]
    /\ UNCHANGED <<arch, rest, at>> /\ BrokerLeavesAlone

(* The answer to a request nobody awaits goes nowhere. *)
Unheard(r) ==
    /\ pc[r] \in Answered /\ ~Attended(r)
    /\ Frees(r)
    /\ UNCHANGED <<tableVars, faults>> /\ BrokerLeavesAlone

RequestStep(r) ==
    \/ \E n \in Names : Lookup(r, n)
    \/ Update(r) \/ Insert(r) \/ InsertPanics(r) \/ Unheard(r)

Sends(c) == \E r \in Requests : SendBatch(c, r)

Next ==
    \/ \E c \in Controllers :
         \/ \E n \in Names :
              \/ \E s \in Syscalls : Note(c, n, s)
              \/ EvictCalls(c, n) \/ EvictSent(c, n)
         \/ Sends(c) \/ Reply(c) \/ ConnectionBreaks(c) \/ ControllerRestarts(c)
    \/ \E r \in Requests : RequestStep(r) \/ StatementFails(r)

Spec == Init /\ [][Next]_vars

(* The broker's threads run and answers are delivered. The recorder's turn *)
(* comes once a minute, whatever was seen or dropped meanwhile.            *)
Fairness ==
    /\ \A r \in Requests : WF_vars(RequestStep(r))
    /\ \A c \in Controllers : WF_vars(Reply(c)) /\ WF_vars(Sends(c))

FairSpec == Spec /\ Fairness

-------------------------------------------------------------------------------
(* Properties.                                                             *)

CallsOf == [Names -> SUBSET Syscalls]

TypeOK ==
    /\ cache \in [Controllers -> CallsOf]
    /\ sent \in [Controllers -> CallsOf]
    /\ waiting \in [Controllers -> Requests \cup {NoRequest}]
    /\ \A c, d \in Controllers : waiting[c] = waiting[d] => c = d \/ waiting[c] = NoRequest
    /\ pc \in [Requests -> {"unused"} \cup Working \cup Answered]
    /\ \A c \in Controllers : waiting[c] # NoRequest => pc[waiting[c]] # "unused"
    /\ arch \in [Requests -> Archs \cup {NoArch}]
    /\ rest \in [Requests -> CallsOf]
    /\ at \in [Requests -> Names \cup {NoName}]
    /\ \A r \in Requests : /\ pc[r] \in {"update", "insert"} => at[r] \in Held(rest[r])
                           /\ pc[r] \in {"unused", "ok"} => Held(rest[r]) = {}
    /\ rowArch \in [Names -> Archs \cup {NoArch}]
    /\ row \in CallsOf
    /\ faults \in Nat
    /\ missed \in [Controllers -> SUBSET Names]
    /\ late \subseteq Names

(* The calls in a row are calls that pods of that name make on nodes of the      *)
(* row's architecture: rows are found by architecture and stored by name.  *)
RowIsOfOneArch ==
    \A n \in Names :
        row[n] \subseteq UNION {Makes[c][n] : c \in {d \in Controllers : ArchOf[d] = rowArch[n]}}

Alone(c, n) == \A d \in Controllers : Makes[d][n] # {} => d = c

UnderWay(c) == IF waiting[c] = NoRequest THEN {} ELSE Held(rest[waiting[c]])

(* What a controller takes for sent is what the row of the pod holds, once *)
(* the broker is through with the item, unless the item was in the rest of *)
(* a batch that failed or in a request that ran on, or pods of that name   *)
(* are on several nodes.                                                   *)
SentIsRecorded ==
    \A c \in Controllers : \A n \in Held(sent[c]) \ (UnderWay(c) \cup missed[c] \cup late) :
        Alone(c, n) => row[n] = sent[c][n]

(* A row loses a call only when a request nobody awaits is late, or when   *)
(* the controller has not sent that call since it started or dropped the   *)
(* name: what is sent is the whole set.                                    *)
LossNeedsCause ==
    [][\A r \in Requests : \A c \in Controllers : \A n \in Names :
         waiting[c] = r /\ n = at[r] /\ pc'[r] # pc[r]
             => row[n] \ row'[n] \subseteq Syscalls \ sent[c][n]]_vars

(* A call that a controller has in its set is in the row in the end,       *)
(* unless the set was sent and not stored, or the name was dropped.        *)
CallsSettle ==
    \A c \in Controllers : \A n \in Names : \A s \in Syscalls :
        Alone(c, n) /\ s \in cache[c][n]
            ~> s \in row[n] \/ s \notin cache[c][n] \/ n \in missed[c] \cup late
================================================================================

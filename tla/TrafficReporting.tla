--------------------------- MODULE TrafficReporting ---------------------------
(***************************************************************************)
(* The controllers of several nodes report traffic to one broker: the end  *)
(* of process_network_event (controller/src/network.rs) and api_post_call  *)
(* (controller/src/client.rs) against the handler in BrokerTraffic.        *)
(*                                                                         *)
(* A controller has one POST under way at a time and remembers in          *)
(* TRAFFIC_CACHE the records it need not post again. Connections break,    *)
(* with the request not yet arrived, in progress or answered; controllers  *)
(* and the broker crash and restart; the table outlives them all.          *)
(***************************************************************************)
EXTENDS BrokerTraffic

CONSTANTS
    Controllers,
    Own,         \* the records that the events of each controller's node give
    NoRequest,
    MaxFaults    \* bound: broken connections and crashes

ASSUME ControllersAssumption ==
    /\ Own \in [Controllers -> SUBSET Bodies]
    /\ \A c, d \in Controllers : c # d => Own[c] \cap Own[d] = {}
    /\ NoRequest \notin Requests
    /\ MaxFaults \in Nat

VARIABLES
    waiting,    \* the request each controller awaits the answer of
    cache,      \* TRAFFIC_CACHE of each controller
    faults,     \* how many faults there have been
    abandoned,  \* history: POSTs of each record that were left unanswered
    refused     \* history: records of which a POST was answered with a 500

vars == <<brokerVars, waiting, cache, faults, abandoned, refused>>

Init ==
    /\ BrokerInit
    /\ waiting = [c \in Controllers |-> NoRequest]
    /\ cache = [c \in Controllers |-> {}]
    /\ faults = 0
    /\ abandoned = [b \in Bodies |-> 0]
    /\ refused = {}

Attended(r) == \E c \in Controllers : waiting[c] = r

(* Mutant: the record is cached when it is sent, not when it is accepted.  *)
PostCached(c, b, r) ==
    /\ waiting[c] = NoRequest
    /\ b \in Own[c] \ cache[c]
    /\ pc[r] = "unused"
    /\ waiting' = [waiting EXCEPT ![c] = r]
    /\ cache' = [cache EXCEPT ![c] = @ \cup {b}]
    /\ pc' = [pc EXCEPT ![r] = "queued"]
    /\ body' = [body EXCEPT ![r] = b]
    /\ UNCHANGED <<table, faults, abandoned, refused>>

(* process_network_event: a record that is not cached is posted. *)
Post(c, b, r) ==
    /\ waiting[c] = NoRequest
    /\ b \in Own[c] \ cache[c]
    /\ pc[r] = "unused"
    /\ waiting' = [waiting EXCEPT ![c] = r]
    /\ pc' = [pc EXCEPT ![r] = "queued"]
    /\ body' = [body EXCEPT ![r] = b]
    /\ UNCHANGED <<table, cache, faults, abandoned, refused>>

(* Any answer makes api_post_call return Ok, and the record is cached.     *)
Reply(c) ==
    LET r == waiting[c]
    IN  /\ r # NoRequest /\ pc[r] \in Answered
        /\ waiting' = [waiting EXCEPT ![c] = NoRequest]
        /\ cache' = [cache EXCEPT ![c] = @ \cup {body[r]}]
        /\ refused' = IF pc[r] = "refused" THEN refused \cup {body[r]} ELSE refused
        /\ Frees({r})
        /\ UNCHANGED <<table, faults, abandoned>>

(* TRAFFIC_CACHE is full and drops an entry. *)
Evict(c, b) ==
    /\ b \in cache[c]
    /\ cache' = [cache EXCEPT ![c] = @ \ {b}]
    /\ UNCHANGED <<brokerVars, waiting, faults, abandoned, refused>>

(* Mutant: the client never notices that the connection is gone.           *)
AbandonUnnoticed(C) ==
    /\ UNCHANGED waiting
    /\ abandoned' = [b \in Bodies |->
          IF \E c \in C : waiting[c] # NoRequest /\ body[waiting[c]] = b
          THEN abandoned[b] + 1 ELSE abandoned[b]]

(* The controllers in C hear no answer to what they have posted.           *)
Abandon(C) ==
    /\ waiting' = [c \in Controllers |-> IF c \in C THEN NoRequest ELSE waiting[c]]
    /\ abandoned' = [b \in Bodies |->
          IF \E c \in C : waiting[c] # NoRequest /\ body[waiting[c]] = b
          THEN abandoned[b] + 1 ELSE abandoned[b]]

Fault == faults < MaxFaults /\ faults' = faults + 1

(* The connection breaks: Err, nothing is cached. The request was lost if  *)
(* it had not arrived, and runs on if it had.                              *)
ConnectionBreaks(c) ==
    /\ Fault
    /\ waiting[c] # NoRequest
    /\ Abandon({c})
    /\ \/ pc[waiting[c]] = "queued" /\ Frees({waiting[c]})
       \/ UNCHANGED <<pc, body>>
    /\ UNCHANGED <<table, cache, refused>>

ControllerRestarts(c) ==
    /\ Fault
    /\ Abandon({c})
    /\ cache' = [cache EXCEPT ![c] = {}]
    /\ UNCHANGED <<brokerVars, refused>>

(* The answer to a request nobody awaits goes nowhere. *)
Unheard(r) ==
    /\ pc[r] \in Answered /\ ~Attended(r)
    /\ Frees({r})
    /\ UNCHANGED <<table, waiting, cache, faults, abandoned, refused>>

(* Mutant: the table is lost with the broker. *)
BrokerCrashesEmpty(R) ==
    /\ Fault
    /\ R \subseteq {r \in Requests : pc[r] = "insert"}
    /\ Abandon(Controllers)
    /\ Frees(Requests)
    /\ table' = [b \in Bodies |-> 0]
    /\ UNCHANGED <<cache, refused>>

(* Every connection breaks and every request ends, but an insertion the    *)
(* database has received (those of R) is still carried out or rolled back. *)
BrokerCrashes(R) ==
    /\ Fault
    /\ R \subseteq {r \in Requests : pc[r] = "insert"}
    /\ Abandon(Controllers)
    /\ pc' = [r \in Requests |->
                IF r \in R \/ pc[r] = "orphan" THEN "orphan" ELSE "unused"]
    /\ body' = [r \in Requests |-> IF pc'[r] = "orphan" THEN body[r] ELSE NoBody]
    /\ UNCHANGED <<table, cache, refused>>

BrokerStep(r) ==
    /\ RequestStep(r)
    /\ UNCHANGED <<waiting, cache, faults, abandoned, refused>>

Posts(c, b) == \E r \in Requests : Post(c, b, r)

Next ==
    \/ \E c \in Controllers :
         \/ \E b \in Bodies : Posts(c, b) \/ Evict(c, b)
         \/ Reply(c) \/ ConnectionBreaks(c) \/ ControllerRestarts(c)
    \/ \E r \in Requests : BrokerStep(r) \/ Unheard(r)
    \/ \E R \in SUBSET Requests : BrokerCrashes(R)

Spec == Init /\ [][Next]_vars

(* The broker's threads run, and the runtime delivers answers. A flow that *)
(* recurs gets its turn: events are handled in the order they are queued.  *)
Fairness ==
    /\ \A r \in Requests : WF_vars(BrokerStep(r)) /\ WF_vars(Unheard(r))
    /\ \A c \in Controllers : WF_vars(Reply(c))
    /\ \A c \in Controllers : \A b \in Own[c] : SF_vars(Posts(c, b))

FairSpec == Spec /\ Fairness

-------------------------------------------------------------------------------
(* Properties.                                                             *)

TypeOK ==
    /\ pc \in [Requests -> States]
    /\ body \in [Requests -> Bodies \cup {NoBody}]
    /\ \A r \in Requests : pc[r] # "unused" => body[r] \in Bodies
    /\ table \in [Bodies -> Nat]
    /\ waiting \in [Controllers -> Requests \cup {NoRequest}]
    /\ \A c \in Controllers :
          waiting[c] # NoRequest => /\ pc[waiting[c]] \notin {"unused", "orphan"}
                                    /\ body[waiting[c]] \in Own[c]
    /\ cache \in [Controllers -> SUBSET Bodies]
    /\ faults \in Nat
    /\ abandoned \in [Bodies -> Nat]
    /\ refused \subseteq Bodies

Covered(b) == \E c \in Rows : Stands(c, b)

(* A controller stops posting a record only when a row of pod_traffic      *)
(* stands for it, or when it was told of an error.                         *)
CachedIsCovered ==
    \A c \in Controllers : cache[c] \subseteq refused \cup {b \in Bodies : Covered(b)}

(* No two rows hold the same record unless a POST of it was left           *)
(* unanswered: posting again what was stored finds the row, and the broker *)
(* looks before it inserts ("Data already exists").                        *)
DuplicatesNeedAbandon == \A b \in Bodies : table[b] <= 1 + abandoned[b]

(* The promise of RecordedFlows. *)
Promise == INSTANCE RecordedFlows
    WITH Reporters <- Controllers, Flows <- Bodies,
         recorded <- Rows, givenUp <- refused, suppressed <- cache
PromiseKept == Promise!Spec

(* A flow that recurs is covered in the end, or refused. *)
FlowsSettle ==
    \A c \in Controllers : \A b \in Own[c] : <>(Covered(b) \/ b \in refused)

(* The broker says "Data already exists" only of a record that does.       *)
ExistsIsExact ==
    [][\A r \in Requests :
         pc[r] \in {"first", "second"} /\ pc'[r] = "ok" => body[r] \in Rows]_vars
===============================================================================

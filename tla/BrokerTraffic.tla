---------------------------- MODULE BrokerTraffic ----------------------------
(***************************************************************************)
(* The broker's POST pod/traffic (broker/src/add.rs). Each request runs on *)
(* a thread of its own (web::block) with a connection from the pool: it    *)
(* looks for a row that stands for the record, then inserts the record if  *)
(* there is none. The queries and the insertion are separate statements    *)
(* outside any transaction, so requests interleave between them, and a     *)
(* request runs on when the client that posted it has left.                *)
(***************************************************************************)
EXTENDS Naturals, FiniteSets

CONSTANTS
    Requests,     \* requests the broker can have in progress
    Bodies,       \* traffic records, without uuid and time stamp
    NoBody,
    Connections   \* connections of the pool that requests can have

\* What tells records apart; "zero" is the port the controller leaves out.
BodyFields == {"pod", "ip", "port", "type", "proto", "peer", "peerPort"}

ASSUME BodiesAssumption ==
    NoBody \notin Bodies /\ \A b \in Bodies : b = [f \in BodyFields |-> b[f]]
ASSUME RequestsAssumption == IsFiniteSet(Requests)
ASSUME ConnectionsAssumption == Connections \in Nat \ {0}

VARIABLES
    pc,      \* where each request is
    body,    \* the record it carries
    table    \* how many rows of pod_traffic hold each record

brokerVars == <<pc, body, table>>

Working == {"first", "second", "insert"}
Answered == {"ok", "refused"}
States == {"unused", "queued", "orphan"} \cup Working \cup Answered

BrokerInit ==
    /\ pc = [r \in Requests |-> "unused"]
    /\ body = [r \in Requests |-> NoBody]
    /\ table = [b \in Bodies |-> 0]

Rows == {b \in Bodies : table[b] > 0}

Agree(c, b, fields) == \A f \in fields : c[f] = b[f]

(* Mutant: the row is looked for by its uuid, which is new in each POST.   *)
FirstByUuid(c, b) == c = b /\ FALSE

(* get_row: neither query looks at the pod's name nor at the protocol.     *)
First(c, b) ==
    Agree(c, b, {"ip", "type", "peer", "peerPort"} \cup IF b.proto = "UDP" THEN {} ELSE {"port"})
Second(c, b) == b.proto = "UDP" /\ Agree(c, b, {"ip", "port", "type", "peer"})

Stands(c, b) == First(c, b) \/ Second(c, b)

Goes(r, to) == pc' = [pc EXCEPT ![r] = to]

Frees(R) ==
    /\ pc' = [r \in Requests |-> IF r \in R THEN "unused" ELSE pc[r]]
    /\ body' = [r \in Requests |-> IF r \in R THEN NoBody ELSE body[r]]

-------------------------------------------------------------------------------
(* pool.get(): waits for a connection, up to r2d2's timeout. main keeps    *)
(* for ever the one it ran the migrations with.                            *)

Start(r) ==
    /\ pc[r] = "queued"
    /\ Cardinality({q \in Requests : pc[q] \in Working}) < Connections
    /\ Goes(r, "first")
    /\ UNCHANGED <<body, table>>

(* None came free in time, or the database refuses to be connected to.     *)
PoolTimeout(r) ==
    /\ pc[r] = "queued"
    /\ Goes(r, "refused")
    /\ UNCHANGED <<body, table>>

(* Mutant: is_none() and its opposite are mistaken for each other.         *)
LookupFirstInverted(r) ==
    /\ pc[r] = "first"
    /\ Goes(r, IF \E c \in Rows : First(c, body[r]) THEN "insert" ELSE "ok")
    /\ UNCHANGED <<body, table>>

LookupFirst(r) ==
    /\ pc[r] = "first"
    /\ Goes(r, IF \E c \in Rows : First(c, body[r]) THEN "ok"
               ELSE IF body[r].proto = "UDP" THEN "second" ELSE "insert")
    /\ UNCHANGED <<body, table>>

LookupSecond(r) ==
    /\ pc[r] = "second"
    /\ Goes(r, IF \E c \in Rows : Second(c, body[r]) THEN "ok" ELSE "insert")
    /\ UNCHANGED <<body, table>>

Store(r) == table' = [table EXCEPT ![body[r]] = @ + 1]

Insert(r) ==
    /\ pc[r] = "insert"
    /\ Store(r)
    /\ Goes(r, "ok")
    /\ UNCHANGED body

(* The database fails a statement: a query's error is returned, the        *)
(* insertion's panics; both become a 500. An insertion may have committed. *)
StatementFails(r) ==
    /\ pc[r] \in Working
    /\ Goes(r, "refused")
    /\ UNCHANGED table \/ (pc[r] = "insert" /\ Store(r))
    /\ UNCHANGED body

(* The database ends an insertion whose broker crashed meanwhile.          *)
OrphanEnds(r) ==
    /\ pc[r] = "orphan"
    /\ Frees({r})
    /\ UNCHANGED table \/ Store(r)

RequestStep(r) ==
    \/ Start(r) \/ PoolTimeout(r)
    \/ LookupFirst(r) \/ LookupSecond(r) \/ Insert(r)
    \/ StatementFails(r) \/ OrphanEnds(r)
==============================================================================

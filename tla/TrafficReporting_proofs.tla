------------------------ MODULE TrafficReporting_proofs ------------------------
(***************************************************************************)
(* Proofs about TrafficReporting: that a record is suppressed only when a  *)
(* row stands for it or it was refused, that the controllers and the       *)
(* broker together keep the promise of RecordedFlows, and how often one    *)
(* record can be stored.                                                   *)
(***************************************************************************)
EXTENDS TrafficReporting, FiniteSetTheorems, TLAPS

(* A request that is about to be answered 200 is covered (add.rs: the      *)
(* answer follows the row that was found or inserted).                     *)
OkIsCovered == \A r \in Requests : pc[r] = "ok" => Covered(body[r])

IInv == TypeOK /\ OkIsCovered /\ CachedIsCovered

-------------------------------------------------------------------------------
(* A record stands for itself: posting it again finds it. *)
LEMMA StandsForItself == \A b : Stands(b, b)
  BY DEF Stands, First, Agree

(* Two controllers never await the same request: their records differ. *)
LEMMA WaitsApart ==
  ASSUME TypeOK, NEW c \in Controllers, NEW d \in Controllers, c # d,
         waiting[c] # NoRequest
  PROVE  waiting[c] # waiting[d]
  BY ControllersAssumption DEF TypeOK

(* What every request step leaves of the types, and what it may add. *)
LEMMA RequestStepTypes ==
  ASSUME TypeOK, NEW r \in Requests, BrokerStep(r)
  PROVE  TypeOK'
  <1> USE BodiesAssumption
  <1>1. CASE OrphanEnds(r)
    <2>1. pc' = [q \in Requests |-> IF q = r THEN "unused" ELSE pc[q]]
      BY <1>1 DEF OrphanEnds, Frees
    <2>2. body' = [q \in Requests |-> IF q = r THEN NoBody ELSE body[q]]
      BY <1>1 DEF OrphanEnds, Frees
    <2>3. table' \in [Bodies -> Nat]
      BY <1>1 DEF OrphanEnds, Store, TypeOK
    <2>4. \A c \in Controllers : waiting[c] # r
      BY <1>1, ControllersAssumption DEF OrphanEnds, TypeOK
    <2> QED
      BY <2>1, <2>2, <2>3, <2>4, ControllersAssumption
      DEF BrokerStep, TypeOK, States, Working, Answered
  <1>2. CASE ~OrphanEnds(r)
    <2>1. /\ pc[r] \notin {"unused", "orphan"}
          /\ \E to \in Working \cup Answered : pc' = [pc EXCEPT ![r] = to]
          /\ UNCHANGED body
      BY <1>2 DEF BrokerStep, RequestStep, Start, PoolTimeout, LookupFirst, LookupSecond,
                  Insert, StatementFails, Goes, Working, Answered
    <2>2. table' \in [Bodies -> Nat]
      BY <1>2 DEF BrokerStep, RequestStep, Start, PoolTimeout, LookupFirst, LookupSecond,
                  Insert, StatementFails, Store, TypeOK
    <2>3. PICK to \in Working \cup Answered : pc' = [pc EXCEPT ![r] = to]
      BY <2>1
    <2>4. to \in States \ {"unused", "orphan"}
      BY DEF Working, Answered, States
    <2>5. pc' \in [Requests -> States]
      BY <2>3, <2>4 DEF TypeOK
    <2>6. \A q \in Requests : pc'[q] # "unused" => body'[q] \in Bodies
      BY <2>1, <2>3 DEF TypeOK
    <2>7. \A c \in Controllers : waiting'[c] # NoRequest =>
             pc'[waiting'[c]] \notin {"unused", "orphan"} /\ body'[waiting'[c]] \in Own[c]
      BY <2>1, <2>3, <2>4 DEF TypeOK, BrokerStep
    <2> QED
      BY <2>1, <2>2, <2>5, <2>6, <2>7 DEF TypeOK, BrokerStep
  <1> QED
    BY <1>1, <1>2

(* A request step only adds rows, and only for the record it carries. *)
LEMMA RequestStepRows ==
  ASSUME TypeOK, NEW r \in Requests, BrokerStep(r)
  PROVE  table' = table \/ (body[r] \in Bodies /\ table' = [table EXCEPT ![body[r]] = @ + 1])
  BY DEF BrokerStep, RequestStep, Start, PoolTimeout, LookupFirst, LookupSecond,
         Insert, StatementFails, OrphanEnds, Store, TypeOK

(* Counting a row up never empties Rows, and makes its record one of them. *)
LEMMA StoredIsRow ==
  ASSUME table \in [Bodies -> Nat], NEW b \in Bodies, table' = [table EXCEPT ![b] = @ + 1]
  PROVE  Rows' = Rows \cup {b}
  <1>1. \A c \in Bodies : table'[c] > 0 <=> table[c] > 0 \/ c = b
    OBVIOUS
  <1> QED
    BY <1>1 DEF Rows

-------------------------------------------------------------------------------
(* The types of what an abandoned POST leaves behind. *)
LEMMA AbandonTypes ==
  ASSUME TypeOK, NEW C \in SUBSET Controllers, Abandon(C)
  PROVE  /\ waiting' \in [Controllers -> Requests \cup {NoRequest}]
         /\ abandoned' \in [Bodies -> Nat]
         /\ \A c \in Controllers : waiting'[c] # NoRequest => waiting'[c] = waiting[c]
         /\ \A c \in C : waiting'[c] = NoRequest
  BY DEF TypeOK, Abandon

(* Every step of the system keeps the types. *)
LEMMA TypeStep ==
  ASSUME TypeOK, [Next]_vars
  PROVE  TypeOK'
  <1> USE ControllersAssumption
  <1>1. ASSUME NEW c \in Controllers, NEW b \in Bodies, Posts(c, b)
        PROVE  TypeOK'
    <2>1. PICK r \in Requests : Post(c, b, r)
      BY <1>1 DEF Posts
    <2>2. pc' = [pc EXCEPT ![r] = "queued"] /\ body' = [body EXCEPT ![r] = b]
          /\ waiting' = [waiting EXCEPT ![c] = r]
      BY <2>1 DEF Post
    <2>3. \A d \in Controllers : waiting[d] # r
      BY <2>1 DEF Post, TypeOK
    <2>4. b \in Own[c]
      BY <2>1 DEF Post
    <2>5. \A d \in Controllers : waiting'[d] # NoRequest =>
             pc'[waiting'[d]] \notin {"unused", "orphan"} /\ body'[waiting'[d]] \in Own[d]
      BY <2>2, <2>3, <2>4 DEF TypeOK
    <2>6. pc' \in [Requests -> States]
      BY <2>2 DEF TypeOK, States
    <2>7. \A q \in Requests : pc'[q] # "unused" => body'[q] \in Bodies
      BY <2>2 DEF TypeOK
    <2> QED
      BY <2>1, <2>2, <2>5, <2>6, <2>7 DEF Post, TypeOK
  <1>2. ASSUME NEW c \in Controllers, NEW b \in Bodies, Evict(c, b)
        PROVE  TypeOK'
    BY <1>2 DEF Evict, TypeOK, brokerVars
  <1>3. ASSUME NEW c \in Controllers, Reply(c)
        PROVE  TypeOK'
    <2> DEFINE r == waiting[c]
    <2>1. r \in Requests /\ pc[r] \in Answered /\ body[r] \in Bodies
      BY <1>3 DEF Reply, TypeOK
    <2>2. /\ pc' = [q \in Requests |-> IF q = r THEN "unused" ELSE pc[q]]
          /\ body' = [q \in Requests |-> IF q = r THEN NoBody ELSE body[q]]
      BY <1>3 DEF Reply, Frees
    <2>3. \A d \in Controllers : waiting'[d] # NoRequest => waiting'[d] = waiting[d] /\ waiting[d] # r
      BY <1>3, <2>1, WaitsApart DEF Reply, TypeOK
    <2>4. \A d \in Controllers : waiting'[d] # NoRequest =>
             pc'[waiting'[d]] \notin {"unused", "orphan"} /\ body'[waiting'[d]] \in Own[d]
      BY <2>2, <2>3 DEF TypeOK
    <2>5. pc' \in [Requests -> States] /\ body' \in [Requests -> Bodies \cup {NoBody}]
      BY <2>2 DEF TypeOK, States
    <2>6. \A q \in Requests : pc'[q] # "unused" => body'[q] \in Bodies
      BY <2>2 DEF TypeOK
    <2>7. /\ waiting' = [waiting EXCEPT ![c] = NoRequest]
          /\ cache' = [cache EXCEPT ![c] = @ \cup {body[r]}]
          /\ refused' \subseteq refused \cup {body[r]}
          /\ UNCHANGED <<table, faults, abandoned>>
      BY <1>3 DEF Reply
    <2> QED
      BY <2>1, <2>4, <2>5, <2>6, <2>7 DEF TypeOK
  <1>4. ASSUME NEW c \in Controllers, ConnectionBreaks(c)
        PROVE  TypeOK'
    <2> DEFINE r == waiting[c]
    <2>1. r \in Requests /\ pc[r] # "unused"
      BY <1>4 DEF ConnectionBreaks, TypeOK
    <2>2. \A d \in Controllers : waiting'[d] # NoRequest => waiting'[d] = waiting[d] /\ waiting[d] # r
      BY <1>4, <2>1, WaitsApart, AbandonTypes DEF ConnectionBreaks, TypeOK
    <2>3. /\ \/ /\ pc' = [q \in Requests |-> IF q = r THEN "unused" ELSE pc[q]]
                /\ body' = [q \in Requests |-> IF q = r THEN NoBody ELSE body[q]]
             \/ UNCHANGED <<pc, body>>
          /\ UNCHANGED <<table, cache, refused>>
          /\ faults' = faults + 1
      BY <1>4 DEF ConnectionBreaks, Frees, Fault
    <2>4. \A d \in Controllers : waiting'[d] # NoRequest =>
             pc'[waiting'[d]] \notin {"unused", "orphan"} /\ body'[waiting'[d]] \in Own[d]
      BY <2>2, <2>3 DEF TypeOK
    <2>5. pc' \in [Requests -> States] /\ body' \in [Requests -> Bodies \cup {NoBody}]
      BY <2>3 DEF TypeOK, States
    <2>6. \A q \in Requests : pc'[q] # "unused" => body'[q] \in Bodies
      BY <2>3 DEF TypeOK
    <2>7. waiting' \in [Controllers -> Requests \cup {NoRequest}] /\ abandoned' \in [Bodies -> Nat]
      BY <1>4, AbandonTypes DEF ConnectionBreaks
    <2> QED
      BY <2>3, <2>4, <2>5, <2>6, <2>7 DEF TypeOK
  <1>5. ASSUME NEW c \in Controllers, ControllerRestarts(c)
        PROVE  TypeOK'
    <2>1. /\ waiting' \in [Controllers -> Requests \cup {NoRequest}]
          /\ abandoned' \in [Bodies -> Nat]
          /\ \A d \in Controllers : waiting'[d] # NoRequest => waiting'[d] = waiting[d]
      BY <1>5, AbandonTypes DEF ControllerRestarts
    <2>2. /\ UNCHANGED <<pc, body, table, refused>>
          /\ cache' \in [Controllers -> SUBSET Bodies] /\ faults' \in Nat
      BY <1>5 DEF ControllerRestarts, Fault, TypeOK, brokerVars
    <2>3. \A d \in Controllers : waiting'[d] # NoRequest =>
             pc'[waiting'[d]] \notin {"unused", "orphan"} /\ body'[waiting'[d]] \in Own[d]
      BY <2>1, <2>2 DEF TypeOK
    <2> QED
      BY <2>1, <2>2, <2>3 DEF TypeOK
  <1>6. ASSUME NEW r \in Requests, Unheard(r)
        PROVE  TypeOK'
    <2>1. /\ pc' = [q \in Requests |-> IF q = r THEN "unused" ELSE pc[q]]
          /\ body' = [q \in Requests |-> IF q = r THEN NoBody ELSE body[q]]
      BY <1>6 DEF Unheard, Frees
    <2>2. \A d \in Controllers : waiting[d] # r
      BY <1>6 DEF Unheard, Attended
    <2>3. UNCHANGED <<table, waiting, cache, faults, abandoned, refused>>
      BY <1>6 DEF Unheard
    <2> QED
      BY <2>1, <2>2, <2>3 DEF TypeOK, States
  <1>7. ASSUME NEW R \in SUBSET Requests, BrokerCrashes(R)
        PROVE  TypeOK'
    <2>1. /\ waiting' \in [Controllers -> Requests \cup {NoRequest}]
          /\ abandoned' \in [Bodies -> Nat]
          /\ \A d \in Controllers : waiting'[d] = NoRequest
      BY <1>7, AbandonTypes DEF BrokerCrashes
    <2>2. /\ pc' \in [Requests -> States] /\ body' \in [Requests -> Bodies \cup {NoBody}]
          /\ \A q \in Requests : pc'[q] # "unused" => pc'[q] = "orphan" /\ body'[q] = body[q]
                                                       /\ pc[q] # "unused"
      BY <1>7 DEF BrokerCrashes, TypeOK, States
    <2> QED
      BY <1>7, <2>1, <2>2 DEF BrokerCrashes, Fault, TypeOK
  <1>8. CASE UNCHANGED vars
    BY <1>8 DEF vars, brokerVars, TypeOK
  <1> QED
    BY <1>1, <1>2, <1>3, <1>4, <1>5, <1>6, <1>7, <1>8, RequestStepTypes DEF Next

-------------------------------------------------------------------------------
(* No step empties Rows: nothing but an insertion touches the table. *)
LEMMA RowsStay ==
  ASSUME TypeOK, [Next]_vars
  PROVE  Rows \subseteq Rows'
  <1>1. CASE \E r \in Requests : BrokerStep(r)
    <2>1. PICK r \in Requests : BrokerStep(r)
      BY <1>1
    <2>2. CASE table' = table
      BY <2>2 DEF Rows
    <2>3. CASE body[r] \in Bodies /\ table' = [table EXCEPT ![body[r]] = @ + 1]
      BY <2>3, StoredIsRow DEF TypeOK
    <2> QED
      BY <2>1, <2>2, <2>3, RequestStepRows
  <1>2. CASE ~\E r \in Requests : BrokerStep(r)
    <2>1. table' = table
      BY <1>2 DEF Next, vars, brokerVars, Posts, Post, Evict, Reply, ConnectionBreaks,
                  ControllerRestarts, Unheard, BrokerCrashes
    <2> QED
      BY <2>1 DEF Rows
  <1> QED
    BY <1>1, <1>2

(* A request answers 200 only once it is covered: the row it found stays,  *)
(* or the row it inserted is there.                                        *)
LEMMA OkStep ==
  ASSUME TypeOK, OkIsCovered, [Next]_vars
  PROVE  OkIsCovered'
  <1> SUFFICES ASSUME NEW r \in Requests, pc'[r] = "ok"
               PROVE  Covered(body[r])' 
    BY DEF OkIsCovered
  <1>1. Rows \subseteq Rows'
    BY RowsStay
  <1>2. CASE pc[r] = "ok" /\ body'[r] = body[r]
    <2>1. Covered(body[r])
      BY <1>2 DEF OkIsCovered
    <2>2. \E c \in Rows' : Stands(c, body[r])
      BY <1>1, <2>1 DEF Covered
    <2> QED
      BY <1>2, <2>2 DEF Covered, Stands, First, Second, Agree
  <1>3. CASE BrokerStep(r)
    <2>1. /\ body'[r] = body[r] /\ body[r] \in Bodies
          /\ Insert(r) \/ \E c \in Rows : Stands(c, body[r])
      <3>1. LookupFirst(r) \/ LookupSecond(r) \/ Insert(r)
        BY <1>3 DEF BrokerStep, RequestStep, Start, PoolTimeout, StatementFails, OrphanEnds,
                    Goes, Frees, TypeOK
      <3>2. UNCHANGED body /\ body[r] \in Bodies
        BY <3>1 DEF LookupFirst, LookupSecond, Insert, TypeOK
      <3>3. CASE LookupFirst(r)
        BY <3>2, <3>3 DEF LookupFirst, Goes, TypeOK, Stands
      <3>4. CASE LookupSecond(r)
        BY <3>2, <3>4 DEF LookupSecond, Goes, TypeOK, Stands
      <3> QED
        BY <3>1, <3>2, <3>3, <3>4
    <2>2. CASE Insert(r)
      <3>1. Rows' = Rows \cup {body[r]}
        BY <2>1, <2>2, StoredIsRow DEF Insert, Store, TypeOK
      <3>2. Stands(body[r], body[r])
        BY StandsForItself
      <3> QED
        BY <2>1, <3>1, <3>2 DEF Covered, Stands, First, Second, Agree
    <2>3. CASE \E c \in Rows : Stands(c, body[r])
      <3>1. \E c \in Rows' : Stands(c, body[r])
        BY <1>1, <2>3
      <3> QED
        BY <2>1, <3>1 DEF Covered, Stands, First, Second, Agree
    <2> QED
      BY <2>1, <2>2, <2>3
  <1>4. (pc[r] = "ok" /\ body'[r] = body[r]) \/ BrokerStep(r)
    <2>1. CASE \E q \in Requests : BrokerStep(q)
      <3>1. PICK q \in Requests : BrokerStep(q)
        BY <2>1
      <3>2. CASE q # r
        <4>1. pc'[r] = pc[r] /\ body'[r] = body[r]
          BY <3>1, <3>2 DEF BrokerStep, RequestStep, Start, PoolTimeout, LookupFirst,
             LookupSecond, Insert, StatementFails, OrphanEnds, Goes, Frees, TypeOK
        <4> QED
          BY <4>1
      <3> QED
        BY <3>1, <3>2
    <2>2. CASE \E c \in Controllers, b \in Bodies : Posts(c, b)
      BY <2>2 DEF Posts, Post, TypeOK
    <2>3. CASE \E c \in Controllers, b \in Bodies : Evict(c, b)
      BY <2>3 DEF Evict, brokerVars
    <2>4. CASE \E c \in Controllers : Reply(c)
      BY <2>4 DEF Reply, Frees
    <2>5. CASE \E c \in Controllers : ConnectionBreaks(c)
      BY <2>5 DEF ConnectionBreaks, Frees
    <2>6. CASE \E c \in Controllers : ControllerRestarts(c)
      BY <2>6 DEF ControllerRestarts, brokerVars
    <2>7. CASE \E q \in Requests : Unheard(q)
      BY <2>7 DEF Unheard, Frees
    <2>8. CASE \E R \in SUBSET Requests : BrokerCrashes(R)
      BY <2>8 DEF BrokerCrashes
    <2>9. CASE UNCHANGED vars
      BY <2>9 DEF vars, brokerVars
    <2> QED
      BY <2>1, <2>2, <2>3, <2>4, <2>5, <2>6, <2>7, <2>8, <2>9 DEF Next
  <1> QED
    BY <1>2, <1>3, <1>4 DEF OkIsCovered

(* What a step may do to one controller's cache. *)
LEMMA CacheStep ==
  ASSUME TypeOK, [Next]_vars
  PROVE  \A c \in Controllers :
            \/ cache'[c] \subseteq cache[c]
            \/ Reply(c)
  BY DEF Next, Posts, Post, Evict, Reply, ConnectionBreaks, ControllerRestarts, Unheard,
         BrokerCrashes, BrokerStep, vars, TypeOK

(* Nothing that was refused is forgotten. *)
LEMMA RefusedStays ==
  ASSUME [Next]_vars
  PROVE  refused \subseteq refused'
  BY DEF Next, Posts, Post, Evict, Reply, ConnectionBreaks, ControllerRestarts, Unheard,
         BrokerCrashes, BrokerStep, vars

(* Only an answer adds to a cache, and an answer of 200 was covered.       *)
LEMMA CachedStep ==
  ASSUME TypeOK, OkIsCovered, CachedIsCovered, [Next]_vars
  PROVE  CachedIsCovered'
  <1> SUFFICES ASSUME NEW c \in Controllers, NEW b \in cache'[c], b \notin refused'
               PROVE  b \in Bodies /\ \E d \in Rows' : Stands(d, b)
    BY DEF CachedIsCovered, Covered, Stands, First, Second, Agree
  <1>1. Rows \subseteq Rows' /\ refused \subseteq refused'
    BY RowsStay, RefusedStays
  <1>2. CASE b \in cache[c]
    BY <1>1, <1>2 DEF CachedIsCovered, Covered
  <1>3. CASE Reply(c) /\ b \notin cache[c]
    <2>1. waiting[c] \in Requests /\ b = body[waiting[c]] /\ pc[waiting[c]] \in Answered
      BY <1>3 DEF Reply, TypeOK
    <2>2. pc[waiting[c]] = "ok" /\ b \in Bodies
      BY <1>3, <2>1 DEF Reply, Answered, TypeOK
    <2>3. Covered(b)
      BY <2>1, <2>2 DEF OkIsCovered
    <2> QED
      BY <1>1, <2>2, <2>3 DEF Covered
  <1> QED
    BY <1>2, <1>3, CacheStep

-------------------------------------------------------------------------------
(* The first state has empty tables and caches.                            *)
LEMMA Initial == Init => IInv
  BY ControllersAssumption
  DEF Init, BrokerInit, IInv, TypeOK, States, OkIsCovered, CachedIsCovered

(* The three parts of the invariant are kept together.                     *)
LEMMA Inductive == IInv /\ [Next]_vars => IInv'
  BY TypeStep, OkStep, CachedStep DEF IInv

(* The invariant of the proofs holds in every reachable state. *)
LEMMA Invariance == Spec => []IInv
  BY Initial, Inductive, PTL DEF Spec

(* Every variable keeps its type; a controller awaits only a request in    *)
(* progress that carries a record of its own node.                         *)
THEOREM TypeCorrect == Spec => []TypeOK
  <1>1. IInv => TypeOK
    BY DEF IInv
  <1> QED
    BY <1>1, Invariance, PTL

(* TRAFFIC_CACHE suppresses a record only when a row stands for it or the  *)
(* broker refused it, whatever connections break and whoever crashes.      *)
THEOREM CachedIsCoveredCorrect == Spec => []CachedIsCovered
  <1>1. IInv => CachedIsCovered
    BY DEF IInv
  <1> QED
    BY <1>1, Invariance, PTL

-------------------------------------------------------------------------------
(* The system starts as the promise does. *)
LEMMA PromiseInit == Init => Promise!Init
  BY DEF Init, BrokerInit, Promise!Init, Rows

(* A request step records what it carries, or nothing. *)
LEMMA PromiseRequestStep ==
  ASSUME TypeOK, NEW r \in Requests, BrokerStep(r)
  PROVE  [Promise!Next]_(Promise!vars)
  <1>1. UNCHANGED <<refused, cache>>
    BY DEF BrokerStep
  <1>2. CASE table' = table
    BY <1>1, <1>2 DEF Promise!vars, Rows
  <1>3. CASE body[r] \in Bodies /\ table' = [table EXCEPT ![body[r]] = @ + 1]
    <2>1. Rows' = Rows \cup {body[r]}
      BY <1>3, StoredIsRow DEF TypeOK
    <2>2. Promise!Record(body[r])
      BY <1>1, <2>1 DEF Promise!Record
    <2> QED
      BY <1>3, <2>2 DEF Promise!Next
  <1> QED
    BY <1>2, <1>3, RequestStepRows

(* Every step of the system is a step of the promise or none. *)
LEMMA PromiseStep ==
  ASSUME IInv, [Next]_vars
  PROVE  [Promise!Next]_(Promise!vars)
  <1> USE DEF IInv
  <1>1. ASSUME NEW c \in Controllers, Reply(c)
        PROVE  Promise!Next
    <2> DEFINE r == waiting[c]
    <2>1. r \in Requests /\ pc[r] \in Answered /\ body[r] \in Bodies
      BY <1>1 DEF Reply, TypeOK
    <2>2. UNCHANGED Rows /\ cache' = [cache EXCEPT ![c] = @ \cup {body[r]}]
      BY <1>1 DEF Reply, Rows
    <2>3. CASE pc[r] = "refused"
      <3>1. Promise!GiveUp(c, body[r])
        BY <1>1, <2>2, <2>3 DEF Promise!GiveUp, Reply
      <3> QED
        BY <2>1, <3>1 DEF Promise!Next
    <2>4. CASE pc[r] = "ok"
      <3>1. Promise!Covered(body[r])
        BY <2>1, <2>4 DEF OkIsCovered, Covered, Promise!Covered
      <3>2. Promise!Suppress(c, body[r])
        BY <1>1, <2>2, <2>4, <3>1 DEF Promise!Suppress, Reply
      <3> QED
        BY <2>1, <3>2 DEF Promise!Next
    <2> QED
      BY <2>1, <2>3, <2>4 DEF Answered
  <1>2. ASSUME NEW c \in Controllers, NEW b \in Bodies, Evict(c, b)
        PROVE  Promise!Next
    <2>1. Promise!Forget(c, {b})
      BY <1>2 DEF Evict, brokerVars, Promise!Forget, Rows
    <2> QED
      BY <2>1 DEF Promise!Next
  <1>3. ASSUME NEW c \in Controllers, ControllerRestarts(c)
        PROVE  Promise!Next
    <2>1. cache' = [cache EXCEPT ![c] = @ \ Bodies]
      BY <1>3 DEF ControllerRestarts, TypeOK
    <2>2. Promise!Forget(c, Bodies)
      BY <1>3, <2>1 DEF ControllerRestarts, brokerVars, Promise!Forget, Rows
    <2> QED
      BY <2>2 DEF Promise!Next
  <1>4. ASSUME NEW r \in Requests, BrokerStep(r)
        PROVE  [Promise!Next]_(Promise!vars)
    BY <1>4, PromiseRequestStep
  <1>5. ASSUME \/ \E c \in Controllers, b \in Bodies : Posts(c, b)
               \/ \E c \in Controllers : ConnectionBreaks(c)
               \/ \E r \in Requests : Unheard(r)
               \/ \E R \in SUBSET Requests : BrokerCrashes(R)
               \/ UNCHANGED vars
        PROVE  UNCHANGED Promise!vars
    <2>1. UNCHANGED <<table, refused, cache>>
      BY <1>5 DEF Posts, Post, ConnectionBreaks, Unheard, BrokerCrashes, vars, brokerVars
    <2> QED
      BY <2>1 DEF Promise!vars, Rows
  <1> QED
    BY <1>1, <1>2, <1>3, <1>4, <1>5 DEF Next

(* The controllers and the broker keep the promise of RecordedFlows: what  *)
(* is recorded stays, and no controller falls silent about a flow without  *)
(* a record that stands for it or an error from the broker.                *)
THEOREM Implements == Spec => PromiseKept
  <1>1. Init => Promise!Init
    BY PromiseInit
  <1>2. IInv /\ [Next]_vars => [Promise!Next]_(Promise!vars)
    BY PromiseStep
  <1> QED
    BY <1>1, <1>2, Invariance, PTL DEF Spec, PromiseKept, Promise!Spec

-------------------------------------------------------------------------------
(* How often a record is stored. Of the requests that carry it, one has an *)
(* owner who waits; each of the others was left by a POST that counts as   *)
(* abandoned; and only those that look before any row is there can insert. *)

Carrying(b) == {r \in Requests : body[r] = b}
Stray(b) == {r \in Carrying(b) : ~Attended(r)}
Inserting(b) == {r \in Carrying(b) : pc[r] \in {"insert", "orphan"}}

(* Only a datagram is looked for a second time. *)
SecondsAreDatagrams == \A r \in Requests : pc[r] = "second" => body[r].proto = "UDP"

StraysAreAbandoned == \A b \in Bodies : Cardinality(Stray(b)) <= abandoned[b]
InsertsAreFew ==
    \A b \in Bodies : table[b] + Cardinality(Inserting(b)) <= 1 + abandoned[b]

(* Cardinalities of sets of requests. *)
LEMMA CardIsNat ==
  ASSUME NEW S \in SUBSET Requests
  PROVE  IsFiniteSet(S) /\ Cardinality(S) \in Nat
  BY RequestsAssumption, FS_Subset, FS_CardinalityType

LEMMA CardSubset ==
  ASSUME NEW T \in SUBSET Requests, NEW S \in SUBSET T
  PROVE  Cardinality(S) <= Cardinality(T)
  BY CardIsNat, FS_Subset

LEMMA CardPlusOne ==
  ASSUME NEW T \in SUBSET Requests, NEW r \in Requests, NEW S \in SUBSET (T \cup {r})
  PROVE  Cardinality(S) <= Cardinality(T) + 1
  <1>1. Cardinality(S) <= Cardinality(T \cup {r})
    BY CardSubset
  <1>2. Cardinality(T \cup {r}) <= Cardinality(T) + 1
    BY CardIsNat, FS_AddElement
  <1> QED
    BY <1>1, <1>2, CardIsNat

LEMMA CardLessOne ==
  ASSUME NEW T \in SUBSET Requests, NEW r \in T, NEW S \in SUBSET (T \ {r})
  PROVE  Cardinality(S) + 1 <= Cardinality(T)
  <1>1. Cardinality(S) <= Cardinality(T \ {r})
    BY CardSubset
  <1>2. Cardinality(T \ {r}) = Cardinality(T) - 1
    BY CardIsNat, FS_RemoveElement
  <1> QED
    BY <1>1, <1>2, CardIsNat

(* All but one of the requests that carry a record are strays. *)
LEMMA OwnerIsOne ==
  ASSUME TypeOK, NEW b \in Bodies, NEW c \in Controllers, NEW d \in Controllers,
         waiting[c] # NoRequest, waiting[d] # NoRequest,
         body[waiting[c]] = b, body[waiting[d]] = b
  PROVE  c = d
  BY ControllersAssumption DEF TypeOK

LEMMA CarryingIsFew ==
  ASSUME TypeOK, StraysAreAbandoned, NEW b \in Bodies
  PROVE  Cardinality(Carrying(b)) <= 1 + abandoned[b]
  <1>1. /\ Cardinality(Stray(b)) <= abandoned[b] /\ abandoned[b] \in Nat
        /\ Stray(b) \in SUBSET Requests /\ Carrying(b) \in SUBSET Requests
    BY DEF StraysAreAbandoned, TypeOK, Stray, Carrying
  <1>2. CASE \E r \in Carrying(b) : Attended(r)
    <2>1. PICK r \in Carrying(b) : Attended(r)
      BY <1>2
    <2>2. Carrying(b) \in SUBSET (Stray(b) \cup {r})
      BY <2>1, OwnerIsOne, ControllersAssumption DEF Carrying, Stray, Attended
    <2>3. r \in Requests
      BY DEF Carrying
    <2>4. Cardinality(Carrying(b)) <= Cardinality(Stray(b)) + 1
      BY <1>1, <2>2, <2>3, CardPlusOne
    <2> QED
      BY <1>1, <2>4, CardIsNat
  <1>3. CASE ~\E r \in Carrying(b) : Attended(r)
    <2>1. Carrying(b) = Stray(b)
      BY <1>3 DEF Stray
    <2> QED
      BY <1>1, <2>1, CardIsNat
  <1> QED
    BY <1>2, <1>3

(* The strays of a record after a step of which controllers hear nothing.  *)
LEMMA AbandonStrays ==
  ASSUME TypeOK, NEW C \in SUBSET Controllers, Abandon(C),
         \A r \in Requests : body'[r] \in {body[r], NoBody}, NEW b \in Bodies
  PROVE  \/ abandoned'[b] = abandoned[b] /\ Stray(b)' \subseteq Stray(b)
         \/ /\ abandoned'[b] = abandoned[b] + 1
            /\ \E r \in Requests : Stray(b)' \subseteq Stray(b) \cup {r}
  <1>1. \A r \in Requests : body'[r] = b => body[r] = b
    BY BodiesAssumption
  <1>2. \A c \in Controllers : waiting'[c] = IF c \in C THEN NoRequest ELSE waiting[c]
    BY DEF Abandon
  <1>3. CASE \E c \in C : waiting[c] # NoRequest /\ body[waiting[c]] = b
    <2>1. PICK c \in C : waiting[c] # NoRequest /\ body[waiting[c]] = b
      BY <1>3
    <2>2. abandoned'[b] = abandoned[b] + 1
      BY <1>3 DEF Abandon
    <2>3. ASSUME NEW r \in Stray(b)'
          PROVE  r \in Stray(b) \cup {waiting[c]}
      <3>1. r \in Requests /\ body[r] = b
        BY <1>1, <2>3 DEF Stray, Carrying
      <3>2. \A d \in Controllers : waiting[d] = r => d = c
        BY <2>1, <3>1, OwnerIsOne, ControllersAssumption
      <3> QED
        BY <3>1, <3>2 DEF Stray, Carrying, Attended
    <2>4. waiting[c] \in Requests
      BY <2>1 DEF TypeOK
    <2> QED
      BY <2>2, <2>3, <2>4
  <1>4. CASE ~\E c \in C : waiting[c] # NoRequest /\ body[waiting[c]] = b
    <2>1. abandoned'[b] = abandoned[b]
      BY <1>4 DEF Abandon
    <2>2. ASSUME NEW r \in Stray(b)'
          PROVE  r \in Stray(b)
      <3>1. r \in Requests /\ body[r] = b /\ r # NoRequest
        BY <1>1, <2>2, ControllersAssumption DEF Stray, Carrying
      <3>2. \A d \in C : waiting[d] # r
        BY <1>4, <3>1
      <3>3. \A d \in Controllers : waiting'[d] # r
        BY <2>2 DEF Stray, Attended
      <3> QED
        BY <1>2, <3>1, <3>2, <3>3 DEF Stray, Carrying, Attended
    <2> QED
      BY <2>1, <2>2
  <1> QED
    BY <1>3, <1>4

(* The strays of a record after any step. *)
LEMMA StrayStep ==
  ASSUME TypeOK, [Next]_vars, NEW b \in Bodies
  PROVE  \/ abandoned'[b] = abandoned[b] /\ Stray(b)' \subseteq Stray(b)
         \/ /\ abandoned'[b] = abandoned[b] + 1
            /\ \E r \in Requests : Stray(b)' \subseteq Stray(b) \cup {r}
  <1> USE BodiesAssumption, ControllersAssumption
  <1>1. ASSUME NEW c \in Controllers, NEW f \in Bodies, NEW r \in Requests, Post(c, f, r)
        PROVE  abandoned' = abandoned /\ Stray(b)' \subseteq Stray(b)
    <2>1. \A q \in Requests : q # r => body'[q] = body[q]
      BY <1>1 DEF Post, TypeOK
    <2>2. waiting[c] = NoRequest /\ waiting'[c] = r
          /\ \A d \in Controllers : d # c => waiting'[d] = waiting[d]
      BY <1>1 DEF Post, TypeOK
    <2> QED
      BY <1>1, <2>1, <2>2 DEF Post, Stray, Carrying, Attended
  <1>2. ASSUME NEW R \in SUBSET Requests, Frees(R), UNCHANGED abandoned,
               \A d \in Controllers : waiting'[d] = waiting[d] \/ waiting[d] \in R
        PROVE  abandoned' = abandoned /\ Stray(b)' \subseteq Stray(b)
    <2>1. \A q \in Requests : body'[q] = b => q \notin R /\ body[q] = b
      BY <1>2 DEF Frees
    <2> QED
      BY <1>2, <2>1 DEF Stray, Carrying, Attended
  <1>3. ASSUME UNCHANGED <<body, waiting, abandoned>>
        PROVE  abandoned' = abandoned /\ Stray(b)' \subseteq Stray(b)
    BY <1>3 DEF Stray, Carrying, Attended
  <1>4. ASSUME NEW c \in Controllers, Reply(c)
        PROVE  abandoned' = abandoned /\ Stray(b)' \subseteq Stray(b)
    <2>1. waiting[c] \in Requests /\ Frees({waiting[c]}) /\ UNCHANGED abandoned
          /\ waiting' = [waiting EXCEPT ![c] = NoRequest]
      BY <1>4 DEF Reply, TypeOK
    <2>2. \A d \in Controllers : waiting'[d] = waiting[d] \/ waiting[d] \in {waiting[c]}
      BY <2>1 DEF TypeOK
    <2> QED
      BY <1>2, <2>1, <2>2
  <1>5. ASSUME NEW c \in Controllers, ConnectionBreaks(c) \/ ControllerRestarts(c)
        PROVE  Abandon({c}) /\ \A q \in Requests : body'[q] \in {body[q], NoBody}
    BY <1>5 DEF ConnectionBreaks, ControllerRestarts, Frees, brokerVars
  <1>6. ASSUME NEW R \in SUBSET Requests, BrokerCrashes(R)
        PROVE  Abandon(Controllers) /\ \A q \in Requests : body'[q] \in {body[q], NoBody}
    BY <1>6 DEF BrokerCrashes
  <1>7. ASSUME NEW r \in Requests, BrokerStep(r)
        PROVE  abandoned' = abandoned /\ Stray(b)' \subseteq Stray(b)
    <2>1. UNCHANGED <<waiting, abandoned>> /\ (UNCHANGED body \/ Frees({r}))
      BY <1>7 DEF BrokerStep, RequestStep, Start, PoolTimeout, LookupFirst, LookupSecond,
                  Insert, StatementFails, OrphanEnds
    <2> QED
      BY <1>2, <1>3, <2>1
  <1>8. ASSUME NEW r \in Requests, Unheard(r)
        PROVE  abandoned' = abandoned /\ Stray(b)' \subseteq Stray(b)
    BY <1>2, <1>8 DEF Unheard
  <1>9. ASSUME NEW c \in Controllers, NEW f \in Bodies, Evict(c, f)
        PROVE  abandoned' = abandoned /\ Stray(b)' \subseteq Stray(b)
    BY <1>3, <1>9 DEF Evict, brokerVars
  <1>10. CASE UNCHANGED vars
    BY <1>3, <1>10 DEF vars, brokerVars
  <1> QED
    BY <1>1, <1>4, <1>5, <1>6, <1>7, <1>8, <1>9, <1>10, AbandonStrays DEF Next, Posts

LEMMA StraysStep ==
  ASSUME TypeOK, StraysAreAbandoned, [Next]_vars
  PROVE  StraysAreAbandoned'
  <1> SUFFICES ASSUME NEW b \in Bodies
               PROVE  Cardinality(Stray(b)') <= abandoned'[b]
    BY DEF StraysAreAbandoned
  <1>1. /\ Cardinality(Stray(b)) <= abandoned[b] /\ abandoned[b] \in Nat
        /\ Stray(b) \in SUBSET Requests /\ Stray(b)' \in SUBSET Requests
    BY DEF StraysAreAbandoned, TypeOK, Stray, Carrying
  <1>2. CASE abandoned'[b] = abandoned[b] /\ Stray(b)' \subseteq Stray(b)
    <2>1. Cardinality(Stray(b)') <= Cardinality(Stray(b))
      BY <1>1, <1>2, CardSubset
    <2> QED
      BY <1>1, <1>2, <2>1, CardIsNat
  <1>3. CASE /\ abandoned'[b] = abandoned[b] + 1
             /\ \E r \in Requests : Stray(b)' \subseteq Stray(b) \cup {r}
    <2>1. Cardinality(Stray(b)') <= Cardinality(Stray(b)) + 1
      BY <1>1, <1>3, CardPlusOne
    <2> QED
      BY <1>1, <1>3, <2>1, CardIsNat
  <1> QED
    BY <1>2, <1>3, StrayStep

(* A request comes to insert only a record of which there is no row, since *)
(* both lookups find a row of the record itself.                           *)
LEMMA LookupGoesOn ==
  ASSUME TypeOK, SecondsAreDatagrams, NEW r \in Requests, LookupFirst(r) \/ LookupSecond(r)
  PROVE  /\ body[r] \in Bodies
         /\ pc'[r] \notin {"insert", "orphan"} \/ table[body[r]] = 0
         /\ UNCHANGED <<body, table>>
  <1>1. body[r] \in Bodies /\ pc[r] \in {"first", "second"} /\ UNCHANGED <<body, table>>
    BY DEF LookupFirst, LookupSecond, TypeOK
  <1>2. table[body[r]] # 0 => body[r] \in Rows
    BY <1>1 DEF Rows, TypeOK
  <1>3. CASE LookupFirst(r)
    <2>1. First(body[r], body[r])
      BY DEF First, Agree
    <2>2. pc' = [pc EXCEPT ![r] = IF \E c \in Rows : First(c, body[r]) THEN "ok"
                                  ELSE IF body[r].proto = "UDP" THEN "second" ELSE "insert"]
      BY <1>3 DEF LookupFirst, Goes
    <2>3. pc'[r] = IF \E c \in Rows : First(c, body[r]) THEN "ok"
                   ELSE IF body[r].proto = "UDP" THEN "second" ELSE "insert"
      BY <2>2 DEF TypeOK
    <2> QED
      BY <1>1, <1>2, <2>1, <2>2, <2>3
  <1>4. CASE LookupSecond(r)
    <2>1. pc' = [pc EXCEPT ![r] = IF \E c \in Rows : Second(c, body[r]) THEN "ok" ELSE "insert"]
      BY <1>4 DEF LookupSecond, Goes
    <2>2. pc'[r] = IF \E c \in Rows : Second(c, body[r]) THEN "ok" ELSE "insert"
      BY <2>1 DEF TypeOK
    <2>3. Second(body[r], body[r])
      BY <1>4 DEF LookupSecond, SecondsAreDatagrams, Second, Agree
    <2> QED
      BY <1>1, <1>2, <2>1, <2>2, <2>3
  <1> QED
    BY <1>3, <1>4

(* A request step moves its request: on to an insertion of a record that   *)
(* is not there, out of an insertion, or neither.                          *)
LEMMA RequestStepInserts ==
  ASSUME TypeOK, SecondsAreDatagrams, StraysAreAbandoned, InsertsAreFew, NEW r \in Requests,
         BrokerStep(r), NEW b \in Bodies
  PROVE  table'[b] + Cardinality(Inserting(b)') <= 1 + abandoned'[b]
  <1> USE BodiesAssumption
  <1>1. /\ table[b] + Cardinality(Inserting(b)) <= 1 + abandoned[b]
        /\ table[b] \in Nat /\ abandoned[b] \in Nat /\ abandoned' = abandoned
        /\ Inserting(b) \in SUBSET Carrying(b) /\ Carrying(b) \in SUBSET Requests
    BY DEF InsertsAreFew, TypeOK, Inserting, Carrying, BrokerStep
  <1>2. \A q \in Requests : body'[q] = b => body[q] = b
    BY DEF BrokerStep, RequestStep, Start, PoolTimeout, LookupFirst, LookupSecond,
           Insert, StatementFails, OrphanEnds, Frees
  <1>3. \A q \in Requests : q # r => pc'[q] = pc[q]
    BY DEF BrokerStep, RequestStep, Start, PoolTimeout, LookupFirst, LookupSecond,
           Insert, StatementFails, OrphanEnds, Goes, Frees, TypeOK
  <1>4. Inserting(b)' \in SUBSET (Inserting(b) \cup {r})
    BY <1>2, <1>3 DEF Inserting, Carrying
  <1>5. Inserting(b)' \in SUBSET Carrying(b)
    BY <1>2 DEF Inserting, Carrying
  <1>6. CASE table'[b] = table[b] /\ r \notin Inserting(b)'
    <2>1. Inserting(b)' \in SUBSET Inserting(b)
      BY <1>4, <1>6
    <2>2. Cardinality(Inserting(b)') <= Cardinality(Inserting(b))
      BY <1>1, <2>1, CardSubset
    <2> QED
      BY <1>1, <1>5, <1>6, <2>2, CardIsNat
  <1>7. CASE table'[b] = 0
    <2>1. Cardinality(Inserting(b)') <= Cardinality(Carrying(b))
      BY <1>1, <1>5, CardSubset
    <2>2. Cardinality(Carrying(b)) <= 1 + abandoned[b]
      BY CarryingIsFew
    <2> QED
      BY <1>1, <1>5, <1>7, <2>1, <2>2, CardIsNat
  <1>8. CASE /\ r \in Inserting(b) /\ r \notin Inserting(b)'
             /\ table'[b] \in {table[b], table[b] + 1}
    <2>1. Inserting(b)' \in SUBSET (Inserting(b) \ {r})
      BY <1>4, <1>8
    <2>2. Inserting(b) \in SUBSET Requests
      BY <1>1
    <2>3. Cardinality(Inserting(b)') + 1 <= Cardinality(Inserting(b))
      BY <1>8, <2>1, <2>2, CardLessOne
    <2> QED
      BY <1>1, <1>5, <1>8, <2>2, <2>3, CardIsNat
  <1>9. CASE LookupFirst(r) \/ LookupSecond(r)
    <2>1. /\ pc'[r] \notin {"insert", "orphan"} \/ table[body[r]] = 0
          /\ UNCHANGED <<body, table>>
      BY <1>9, LookupGoesOn
    <2>2. r \in Inserting(b)' => table[b] = 0
      BY <2>1 DEF Inserting, Carrying
    <2> QED
      BY <1>6, <1>7, <2>1, <2>2
  <1>10. CASE Start(r) \/ PoolTimeout(r)
    <2>1. pc'[r] \notin {"insert", "orphan"} /\ UNCHANGED table
      BY <1>10 DEF Start, PoolTimeout, Goes, TypeOK
    <2> QED
      BY <1>6, <2>1 DEF Inserting
  <1>11. CASE Insert(r) \/ StatementFails(r) \/ OrphanEnds(r)
    <2>1. pc'[r] \notin {"insert", "orphan"}
      BY <1>11 DEF Insert, StatementFails, OrphanEnds, Goes, Frees, TypeOK
    <2>2. table' = table \/ (pc[r] \in {"insert", "orphan"} /\ body[r] \in Bodies /\ Store(r))
      BY <1>11 DEF Insert, StatementFails, OrphanEnds, TypeOK
    <2>3. r \notin Inserting(b)'
      BY <2>1 DEF Inserting
    <2>4. CASE table' = table
      BY <1>6, <2>3, <2>4
    <2>5. CASE pc[r] \in {"insert", "orphan"} /\ body[r] \in Bodies /\ Store(r)
      <3>1. table' = [table EXCEPT ![body[r]] = @ + 1]
        BY <2>5 DEF Store
      <3>2. CASE body[r] = b
        <4>1. table'[b] = table[b] + 1
          BY <3>1, <3>2 DEF TypeOK
        <4>2. r \in Inserting(b)
          BY <2>5, <3>2 DEF Inserting, Carrying
        <4> QED
          BY <1>8, <2>3, <4>1, <4>2
      <3>3. CASE body[r] # b
        BY <1>6, <2>3, <3>1, <3>3 DEF TypeOK
      <3> QED
        BY <3>2, <3>3
    <2> QED
      BY <2>2, <2>4, <2>5
  <1> QED
    BY <1>9, <1>10, <1>11 DEF BrokerStep, RequestStep

(* The other steps bring no request to an insertion.                       *)
LEMMA OtherStepInserts ==
  ASSUME TypeOK, [Next]_vars, ~\E r \in Requests : BrokerStep(r), NEW b \in Bodies
  PROVE  table' = table /\ Inserting(b)' \subseteq Inserting(b)
  <1> USE BodiesAssumption
  <1>1. ASSUME NEW c \in Controllers, NEW f \in Bodies, NEW r \in Requests, Post(c, f, r)
        PROVE  table' = table /\ Inserting(b)' \subseteq Inserting(b)
    <2>1. pc'[r] = "queued" /\ \A q \in Requests : q # r => pc'[q] = pc[q] /\ body'[q] = body[q]
      BY <1>1 DEF Post, TypeOK
    <2> QED
      BY <1>1, <2>1 DEF Post, Inserting, Carrying
  <1>2. ASSUME NEW R \in SUBSET Requests, Frees(R)
        PROVE  Inserting(b)' \subseteq Inserting(b)
    BY <1>2 DEF Frees, Inserting, Carrying
  <1>3. ASSUME UNCHANGED <<pc, body>>
        PROVE  Inserting(b)' \subseteq Inserting(b)
    BY <1>3 DEF Inserting, Carrying
  <1>4. ASSUME NEW c \in Controllers, Reply(c) \/ ConnectionBreaks(c) \/ ControllerRestarts(c)
        PROVE  table' = table /\ Inserting(b)' \subseteq Inserting(b)
    <2>1. waiting[c] # NoRequest => waiting[c] \in Requests
      BY DEF TypeOK
    <2>2. /\ table' = table
          /\ \/ UNCHANGED <<pc, body>>
             \/ waiting[c] # NoRequest /\ Frees({waiting[c]})
      BY <1>4 DEF Reply, ConnectionBreaks, ControllerRestarts, brokerVars
    <2> QED
      BY <1>2, <1>3, <2>1, <2>2
  <1>5. ASSUME NEW r \in Requests, Unheard(r)
        PROVE  table' = table /\ Inserting(b)' \subseteq Inserting(b)
    BY <1>2, <1>5 DEF Unheard
  <1>6. ASSUME NEW R \in SUBSET Requests, BrokerCrashes(R)
        PROVE  table' = table /\ Inserting(b)' \subseteq Inserting(b)
    BY <1>6 DEF BrokerCrashes, Inserting, Carrying
  <1>7. CASE UNCHANGED vars \/ \E c \in Controllers, f \in Bodies : Evict(c, f)
    BY <1>3, <1>7 DEF vars, brokerVars, Evict
  <1> QED
    BY <1>1, <1>4, <1>5, <1>6, <1>7 DEF Next, Posts

LEMMA InsertsStep ==
  ASSUME TypeOK, SecondsAreDatagrams, StraysAreAbandoned, InsertsAreFew, [Next]_vars
  PROVE  InsertsAreFew'
  <1> SUFFICES ASSUME NEW b \in Bodies
               PROVE  table'[b] + Cardinality(Inserting(b)') <= 1 + abandoned'[b]
    BY DEF InsertsAreFew
  <1>1. CASE \E r \in Requests : BrokerStep(r)
    BY <1>1, RequestStepInserts
  <1>2. CASE ~\E r \in Requests : BrokerStep(r)
    <2>1. table' = table /\ Inserting(b)' \in SUBSET Inserting(b)
      BY <1>2, OtherStepInserts
    <2>2. /\ table[b] + Cardinality(Inserting(b)) <= 1 + abandoned[b]
          /\ table[b] \in Nat /\ abandoned[b] \in Nat
          /\ Inserting(b) \in SUBSET Requests /\ Inserting(b)' \in SUBSET Requests
      BY DEF InsertsAreFew, TypeOK, Inserting, Carrying
    <2>3. Cardinality(Inserting(b)') <= Cardinality(Inserting(b))
      BY <2>1, <2>2, CardSubset
    <2>4. abandoned'[b] = abandoned[b] \/ abandoned'[b] = abandoned[b] + 1
      BY StrayStep
    <2> QED
      BY <2>1, <2>2, <2>3, <2>4, CardIsNat
  <1> QED
    BY <1>1, <1>2

LEMMA SecondsStep ==
  ASSUME TypeOK, SecondsAreDatagrams, [Next]_vars
  PROVE  SecondsAreDatagrams'
  <1> SUFFICES ASSUME NEW r \in Requests, pc'[r] = "second"
               PROVE  body'[r].proto = "UDP"
    BY DEF SecondsAreDatagrams
  <1>1. CASE pc[r] = "second" /\ body'[r] = body[r]
    BY <1>1 DEF SecondsAreDatagrams
  <1>2. CASE LookupFirst(r)
    BY <1>2 DEF LookupFirst, Goes, TypeOK
  <1>3. ASSUME NEW q \in Requests, BrokerStep(q)
        PROVE  (pc[r] = "second" /\ body'[r] = body[r]) \/ LookupFirst(r)
    <2>1. CASE q = r
      BY <1>3, <2>1 DEF BrokerStep, RequestStep, Start, PoolTimeout, LookupFirst, LookupSecond,
         Insert, StatementFails, OrphanEnds, Goes, Frees, TypeOK
    <2>2. CASE q # r
      BY <1>3, <2>2 DEF BrokerStep, RequestStep, Start, PoolTimeout, LookupFirst, LookupSecond,
         Insert, StatementFails, OrphanEnds, Goes, Frees, TypeOK
    <2> QED
      BY <2>1, <2>2
  <1>4. ASSUME NEW c \in Controllers,
               Reply(c) \/ ConnectionBreaks(c) \/ ControllerRestarts(c)
        PROVE  pc[r] = "second" /\ body'[r] = body[r]
    BY <1>4 DEF Reply, ConnectionBreaks, ControllerRestarts, Frees, brokerVars
  <1>5. ASSUME NEW c \in Controllers, NEW b \in Bodies, Posts(c, b) \/ Evict(c, b)
        PROVE  pc[r] = "second" /\ body'[r] = body[r]
    BY <1>5 DEF Posts, Post, Evict, brokerVars, TypeOK
  <1>6. ASSUME NEW q \in Requests, Unheard(q)
        PROVE  pc[r] = "second" /\ body'[r] = body[r]
    BY <1>6 DEF Unheard, Frees
  <1>7. ASSUME NEW R \in SUBSET Requests, BrokerCrashes(R)
        PROVE  FALSE
    BY <1>7 DEF BrokerCrashes
  <1>8. CASE UNCHANGED vars
    BY <1>1, <1>8 DEF vars, brokerVars
  <1> QED
    BY <1>1, <1>2, <1>3, <1>4, <1>5, <1>6, <1>7, <1>8 DEF Next

(* The inductive invariant of the count.                                   *)
CInv == TypeOK /\ SecondsAreDatagrams /\ StraysAreAbandoned /\ InsertsAreFew

LEMMA CountInitial == Init => CInv
  <1> SUFFICES ASSUME Init
               PROVE  CInv
    OBVIOUS
  <1>1. TypeOK
    BY Initial DEF IInv
  <1>2. \A b \in Bodies : Stray(b) = {} /\ Inserting(b) = {} /\ table[b] = 0 /\ abandoned[b] = 0
    BY BodiesAssumption DEF Init, BrokerInit, Stray, Inserting, Carrying
  <1>3. SecondsAreDatagrams
    BY DEF Init, BrokerInit, SecondsAreDatagrams
  <1> QED
    BY <1>1, <1>2, <1>3, FS_EmptySet DEF CInv, StraysAreAbandoned, InsertsAreFew

(* No two rows hold a record unless a POST of it was left unanswered, and  *)
(* no more rows than one and the number of such POSTs, for any controllers, *)
(* requests, records and faults.                                           *)
THEOREM DuplicatesNeedAbandonCorrect == Spec => []DuplicatesNeedAbandon
  <1>1. Init => CInv
    BY CountInitial
  <1>2. CInv /\ [Next]_vars => CInv'
    BY TypeStep, SecondsStep, StraysStep, InsertsStep DEF CInv
  <1>3. CInv => DuplicatesNeedAbandon
    <2> SUFFICES ASSUME CInv, NEW b \in Bodies
                 PROVE  table[b] <= 1 + abandoned[b]
      BY DEF DuplicatesNeedAbandon
    <2>1. /\ table[b] + Cardinality(Inserting(b)) <= 1 + abandoned[b]
          /\ table[b] \in Nat /\ abandoned[b] \in Nat /\ Inserting(b) \in SUBSET Requests
      BY DEF CInv, InsertsAreFew, TypeOK, Inserting, Carrying
    <2> QED
      BY <2>1, CardIsNat
  <1> QED
    BY <1>1, <1>2, <1>3, PTL DEF Spec
(* A POST is left unanswered by a fault, and by one fault once.            *)
FaultsAbandon == faults <= MaxFaults /\ \A b \in Bodies : abandoned[b] <= faults

(* Each step that abandons a POST counts as a fault.                       *)
LEMMA FaultsStep == TypeOK /\ FaultsAbandon /\ [Next]_vars => FaultsAbandon'
  <1> SUFFICES ASSUME TypeOK, FaultsAbandon, [Next]_vars
               PROVE  FaultsAbandon'
    OBVIOUS
  <1>0. faults \in Nat /\ MaxFaults \in Nat /\ abandoned \in [Bodies -> Nat]
    BY ControllersAssumption DEF TypeOK
  <1>1. ASSUME Fault, NEW C, Abandon(C)
        PROVE  FaultsAbandon'
    <2>1. faults' = faults + 1 /\ faults' <= MaxFaults
      BY <1>0, <1>1 DEF Fault
    <2>2. \A b \in Bodies : abandoned'[b] \in {abandoned[b], abandoned[b] + 1}
      BY <1>1 DEF Abandon
    <2> QED
      BY <1>0, <2>1, <2>2 DEF FaultsAbandon
  <1>2. CASE UNCHANGED <<faults, abandoned>>
    BY <1>2 DEF FaultsAbandon
  <1>3. CASE \E c \in Controllers : ConnectionBreaks(c) \/ ControllerRestarts(c)
    BY <1>1, <1>3 DEF ConnectionBreaks, ControllerRestarts
  <1>4. CASE \E R \in SUBSET Requests : BrokerCrashes(R)
    BY <1>1, <1>4 DEF BrokerCrashes
  <1> QED
    BY <1>2, <1>3, <1>4 DEF Next, Posts, Post, Evict, Reply, BrokerStep, Unheard, vars

(* A record is in at most one row more than there were broken connections  *)
(* and crashes, and in one row if there were none: with every POST         *)
(* answered, get_row and the insertion need no transaction (add.rs).       *)
DuplicatesNeedFaults == \A b \in Bodies : table[b] <= 1 + MaxFaults

THEOREM DuplicatesNeedFaultsCorrect == Spec => []DuplicatesNeedFaults
  <1>1. Init => FaultsAbandon
    BY ControllersAssumption DEF Init, FaultsAbandon
  <1>2. TypeOK /\ FaultsAbandon /\ DuplicatesNeedAbandon => DuplicatesNeedFaults
    BY ControllersAssumption
    DEF TypeOK, FaultsAbandon, DuplicatesNeedAbandon, DuplicatesNeedFaults
  <1> QED
    BY <1>1, <1>2, FaultsStep, TypeCorrect, DuplicatesNeedAbandonCorrect, PTL DEF Spec

-------------------------------------------------------------------------------
(* What is told apart.                                                     *)

(* Connections only, and no address of two pods: what get_row compares is  *)
(* then all there is to a record.                                          *)
Streams ==
    \A b, d \in Bodies : b.proto = "TCP" /\ (b.ip = d.ip => b.pod = d.pod)

(* Then only a record itself stands for it.                                *)
LEMMA StreamsStandAlone ==
  ASSUME Streams, NEW b \in Bodies, NEW d \in Bodies, Stands(d, b)
  PROVE  d = b
  <1>1. \A f \in {"ip", "type", "peer", "peerPort", "port"} : d[f] = b[f]
    BY DEF Streams, Stands, First, Second, Agree
  <1>2. d["proto"] = b["proto"] /\ d["pod"] = b["pod"]
    BY <1>1 DEF Streams
  <1>3. \A f \in BodyFields : d[f] = b[f]
    BY <1>1, <1>2 DEF BodyFields
  <1>4. d = [f \in BodyFields |-> d[f]] /\ b = [f \in BodyFields |-> b[f]]
    BY BodiesAssumption
  <1>5. [f \in BodyFields |-> d[f]] = [f \in BodyFields |-> b[f]]
    BY <1>3
  <1> QED
    BY <1>4, <1>5

(* Where there are no datagrams, the broker says "Data already exists"     *)
(* only of a record that does (add.rs, get_row): what the run              *)
(* traffic_exists finds is confined to them.                               *)
THEOREM ExistsIsExactForStreams == Streams => (Spec => ExistsIsExact)
  <1> SUFFICES ASSUME Streams PROVE Spec => ExistsIsExact
    OBVIOUS
  <1> DEFINE Step == \A r \in Requests :
                        pc[r] \in {"first", "second"} /\ pc'[r] = "ok" => body[r] \in Rows
  <1>1. TypeOK /\ [Next]_vars => [Step]_vars
    <2> SUFFICES ASSUME TypeOK, Next, NEW r \in Requests,
                        pc[r] \in {"first", "second"}, pc'[r] = "ok"
                 PROVE  body[r] \in Rows
      OBVIOUS
    <2>1. LookupFirst(r) \/ LookupSecond(r)
      <3>1. ASSUME NEW q \in Requests, BrokerStep(q) PROVE q = r /\ RequestStep(r)
        BY <3>1 DEF BrokerStep, RequestStep, Start, PoolTimeout, LookupFirst, LookupSecond,
           Insert, StatementFails, OrphanEnds, Goes, Frees, TypeOK
      <3>2. CASE \E q \in Requests : BrokerStep(q)
        BY <3>1, <3>2 DEF RequestStep, Start, PoolTimeout, Insert, StatementFails, OrphanEnds,
           Goes, Frees, TypeOK
      <3>3. ASSUME NEW c \in Controllers,
                   Reply(c) \/ ConnectionBreaks(c) \/ ControllerRestarts(c)
                   \/ \E b \in Bodies : Posts(c, b) \/ Evict(c, b)
            PROVE  FALSE
        BY <3>3 DEF Reply, ConnectionBreaks, ControllerRestarts, Posts, Post, Evict, Frees,
           brokerVars, TypeOK
      <3>4. ASSUME NEW q \in Requests, Unheard(q) PROVE FALSE
        BY <3>4 DEF Unheard, Frees
      <3>5. ASSUME NEW R \in SUBSET Requests, BrokerCrashes(R) PROVE FALSE
        BY <3>5 DEF BrokerCrashes
      <3> QED
        BY <3>2, <3>3, <3>4, <3>5 DEF Next
    <2>2. body[r] \in Bodies
      BY DEF TypeOK
    <2>3. PICK d \in Rows : Stands(d, body[r])
      BY <2>1 DEF LookupFirst, LookupSecond, Goes, Stands, TypeOK
    <2> QED
      BY <2>2, <2>3, StreamsStandAlone DEF Rows
  <1> QED
    BY <1>1, TypeCorrect, PTL DEF Spec, ExistsIsExact

(* Where there are no datagrams, TRAFFIC_CACHE suppresses only records     *)
(* that have a row of their own, or were refused.                          *)
CachedIsRecorded == \A c \in Controllers : cache[c] \subseteq refused \cup Rows

THEOREM CachedIsRecordedForStreams == Streams => (Spec => []CachedIsRecorded)
  <1> SUFFICES ASSUME Streams PROVE Spec => []CachedIsRecorded
    OBVIOUS
  <1>1. CachedIsCovered => CachedIsRecorded
    BY StreamsStandAlone DEF CachedIsCovered, CachedIsRecorded, Covered, Rows
  <1> QED
    BY <1>1, CachedIsCoveredCorrect, PTL
===============================================================================

------------------------ MODULE SyscallReporter_proofs ------------------------
(***************************************************************************)
(* Proofs about SyscallReporter, for all controllers, names, system calls, *)
(* requests and faults: what the rows of pod_syscalls hold, and what a     *)
(* controller that takes a set for sent may rely on.                       *)
(***************************************************************************)
EXTENDS SyscallReporter, TLAPS

(* The sets hold calls that pods of the name make on the node. *)
SeenIsMade ==
    \A c \in Controllers : \A n \in Names :
        cache[c][n] \subseteq Makes[c][n] /\ sent[c][n] \subseteq Makes[c][n]

(* A controller awaits a request with the sets it takes for sent. *)
AwaitedIsSent ==
    \A c \in Controllers : waiting[c] # NoRequest =>
        \A n \in Held(rest[waiting[c]]) :
            Makes[c][n] # {} /\ sent[c][n] \in {rest[waiting[c]][n], {}}

(* The names in a request that nobody awaits are known to be late. *)
StrayIsLate ==
    \A r \in Requests : pc[r] # "unused" /\ ~Attended(r) => Held(rest[r]) \subseteq late

CallsAt(n, a) == UNION {Makes[c][n] : c \in {d \in Controllers : ArchOf[d] = a}}

(* Items hold calls of their architecture, and a row is updated only with  *)
(* its own architecture.                                                   *)
ItemsAreOfOneArch ==
    \A r \in Requests :
        /\ pc[r] # "unused" => arch[r] # NoArch
        /\ \A n \in Names : rest[r][n] \subseteq CallsAt(n, arch[r])
        /\ pc[r] = "update" => rowArch[at[r]] = arch[r]

-------------------------------------------------------------------------------
(* Types.                                                                  *)

(* Freeing a request keeps the types of the requests' variables. *)
LEMMA FreesTypes ==
  ASSUME TypeOK, NEW r \in Requests, Frees(r)
  PROVE  /\ pc' \in [Requests -> {"unused"} \cup Working \cup Answered]
         /\ arch' \in [Requests -> Archs \cup {NoArch}]
         /\ rest' \in [Requests -> CallsOf]
         /\ at' \in [Requests -> Names \cup {NoName}]
         /\ Held(rest'[r]) = {} /\ pc'[r] = "unused"
         /\ \A q \in Requests \ {r} : pc'[q] = pc[q] /\ rest'[q] = rest[q] /\ at'[q] = at[q]
  <1>1. NoCalls \in CallsOf /\ Held(NoCalls) = {}
    BY DEF NoCalls, CallsOf, Held
  <1>2. rest' \in [Requests -> CallsOf]
    BY <1>1 DEF Frees, TypeOK
  <1> QED
    BY <1>1, <1>2 DEF Frees, TypeOK

(* The steps of the controllers keep the types. *)
LEMMA NoteTypes ==
  ASSUME TypeOK, NEW c \in Controllers, NEW n \in Names, NEW s \in Syscalls, Note(c, n, s)
  PROVE  TypeOK'
  <1>1. cache' \in [Controllers -> CallsOf]
    BY DEF Note, TypeOK, CallsOf
  <1> QED
    BY <1>1 DEF Note, TypeOK, requestVars, tableVars, Held

LEMMA EvictTypes ==
  ASSUME TypeOK, NEW c \in Controllers, NEW n \in Names,
         EvictCalls(c, n) \/ EvictSent(c, n)
  PROVE  TypeOK'
  <1>1. cache' \in [Controllers -> CallsOf] /\ sent' \in [Controllers -> CallsOf]
    <2>1. CASE EvictCalls(c, n)
      BY <2>1 DEF EvictCalls, TypeOK, CallsOf
    <2>2. CASE EvictSent(c, n)
      BY <2>2 DEF EvictSent, TypeOK, CallsOf
    <2> QED
      BY <2>1, <2>2
  <1>2. faults' \in Nat
    BY DEF EvictCalls, EvictSent, Fault, TypeOK
  <1>3. UNCHANGED <<waiting, requestVars, tableVars, missed, late>>
    BY DEF EvictCalls, EvictSent
  <1> QED
    BY <1>1, <1>2, <1>3 DEF TypeOK, requestVars, tableVars, Held

LEMMA SendTypes ==
  ASSUME TypeOK, NEW c \in Controllers, NEW r \in Requests, SendBatch(c, r)
  PROVE  TypeOK'
  <1>1. Items(c) \in CallsOf
    BY DEF Items, TypeOK, CallsOf
  <1>2. rest' \in [Requests -> CallsOf]
    BY <1>1 DEF SendBatch, TypeOK
  <1>3. sent' \in [Controllers -> CallsOf]
    BY DEF SendBatch, TypeOK, CallsOf
  <1>4. arch' \in [Requests -> Archs \cup {NoArch}]
    BY DEF SendBatch, TypeOK, Archs
  <1>5. \A d \in Controllers : waiting[d] # r
    BY ValuesAssumption DEF SendBatch, TypeOK
  <1>6. \A d, e \in Controllers : waiting'[d] = waiting'[e] => d = e \/ waiting'[d] = NoRequest
    BY <1>5 DEF SendBatch, TypeOK
  <1>7. waiting' \in [Controllers -> Requests \cup {NoRequest}]
    BY DEF SendBatch, TypeOK
  <1>8. /\ pc' \in [Requests -> {"unused"} \cup Working \cup Answered]
        /\ missed' \in [Controllers -> SUBSET Names]
    BY DEF SendBatch, TypeOK, Working
  <1>9. \A d \in Controllers : waiting'[d] # NoRequest => pc'[waiting'[d]] # "unused"
    BY <1>7 DEF SendBatch, TypeOK
  <1>10. \A q \in Requests : /\ pc'[q] \in {"update", "insert"} => at'[q] \in Held(rest'[q])
                             /\ pc'[q] \in {"unused", "ok"} => Held(rest'[q]) = {}
    <2> TAKE q \in Requests
    <2>1. CASE q = r
      BY <2>1 DEF SendBatch, TypeOK
    <2>2. CASE q # r
      BY <2>2 DEF SendBatch, TypeOK
    <2> QED
      BY <2>1, <2>2
  <1> QED
    BY <1>2, <1>3, <1>4, <1>6, <1>7, <1>8, <1>9, <1>10 DEF SendBatch, TypeOK, tableVars

(* A controller that awaits its request no longer keeps the types, whether *)
(* the request is freed or runs on.                                        *)
LEMMA ReleaseTypes ==
  ASSUME TypeOK, NEW c \in Controllers, waiting[c] \in Requests,
         waiting' = [waiting EXCEPT ![c] = NoRequest],
         Frees(waiting[c]) \/ UNCHANGED requestVars,
         missed' \in [Controllers -> SUBSET Names], late' \subseteq Names, faults' \in Nat,
         cache' \in [Controllers -> CallsOf], sent' \in [Controllers -> CallsOf], UNCHANGED tableVars
  PROVE  TypeOK'
  <1> DEFINE r == waiting[c]
  <1>1. \A d \in Controllers : waiting'[d] # NoRequest => waiting'[d] # r /\ waiting'[d] = waiting[d]
    BY ValuesAssumption DEF TypeOK
  <1>2. waiting' \in [Controllers -> Requests \cup {NoRequest}]
    BY DEF TypeOK
  <1>3. \A d, e \in Controllers : waiting'[d] = waiting'[e] => d = e \/ waiting'[d] = NoRequest
    BY <1>1 DEF TypeOK
  <1>4. CASE UNCHANGED requestVars
    BY <1>1, <1>2, <1>3, <1>4 DEF TypeOK, requestVars, tableVars
  <1>5. CASE Frees(r)
    <2>1. r \in Requests
      OBVIOUS
    <2> HIDE DEF r
    <2>2. /\ pc' \in [Requests -> {"unused"} \cup Working \cup Answered]
          /\ arch' \in [Requests -> Archs \cup {NoArch}]
          /\ rest' \in [Requests -> CallsOf]
          /\ at' \in [Requests -> Names \cup {NoName}]
          /\ Held(rest'[r]) = {} /\ pc'[r] = "unused"
          /\ \A q \in Requests \ {r} : pc'[q] = pc[q] /\ rest'[q] = rest[q] /\ at'[q] = at[q]
      BY <1>5, <2>1, FreesTypes
    <2>3. \A d \in Controllers : waiting'[d] # NoRequest => pc'[waiting'[d]] # "unused"
      BY <1>1, <1>2, <2>2 DEF TypeOK
    <2>4. \A q \in Requests : /\ pc'[q] \in {"update", "insert"} => at'[q] \in Held(rest'[q])
                              /\ pc'[q] \in {"unused", "ok"} => Held(rest'[q]) = {}
      BY <2>2 DEF TypeOK
    <2> QED
      BY <1>2, <1>3, <2>2, <2>3, <2>4 DEF TypeOK, tableVars
  <1> QED
    BY <1>4, <1>5

LEMMA ReplyTypes ==
  ASSUME TypeOK, NEW c \in Controllers, Reply(c)
  PROVE  TypeOK'
  <1>1. waiting[c] \in Requests
    BY DEF Reply, TypeOK
  <1>2. missed' \in [Controllers -> SUBSET Names] /\ late' \subseteq Names /\ faults' \in Nat
    BY DEF Reply, TypeOK, Held
  <1>3. cache' \in [Controllers -> CallsOf] /\ sent' \in [Controllers -> CallsOf]
    BY DEF Reply, TypeOK
  <1> QED
    BY <1>1, <1>2, <1>3, ReleaseTypes DEF Reply

LEMMA BreakTypes ==
  ASSUME TypeOK, NEW c \in Controllers, ConnectionBreaks(c)
  PROVE  TypeOK'
  <1>1. waiting[c] \in Requests
    BY DEF ConnectionBreaks, TypeOK
  <1>2. missed' \in [Controllers -> SUBSET Names] /\ late' \subseteq Names
    BY DEF ConnectionBreaks, TypeOK, Held
  <1>3. faults' \in Nat /\ cache' \in [Controllers -> CallsOf] /\ sent' \in [Controllers -> CallsOf]
    BY DEF ConnectionBreaks, Fault, TypeOK
  <1> QED
    BY <1>1, <1>2, <1>3, ReleaseTypes DEF ConnectionBreaks

LEMMA RestartTypes ==
  ASSUME TypeOK, NEW c \in Controllers, ControllerRestarts(c)
  PROVE  TypeOK'
  <1>1. NoCalls \in CallsOf
    BY DEF NoCalls, CallsOf
  <1>2. /\ cache' \in [Controllers -> CallsOf] /\ sent' \in [Controllers -> CallsOf]
        /\ late' \subseteq Names /\ faults' \in Nat
    BY <1>1 DEF ControllerRestarts, Fault, TypeOK, Held
  <1>3. /\ waiting' = [waiting EXCEPT ![c] = NoRequest]
        /\ UNCHANGED tableVars /\ missed' \in [Controllers -> SUBSET Names]
    BY DEF ControllerRestarts, TypeOK
  <1>4. CASE waiting[c] \in Requests
    BY <1>2, <1>3, <1>4, ReleaseTypes DEF ControllerRestarts
  <1>5. CASE waiting[c] = NoRequest
    <2>1. waiting' = waiting /\ UNCHANGED requestVars
      BY <1>3, <1>5 DEF TypeOK, ControllerRestarts
    <2> QED
      BY <1>2, <1>3, <2>1 DEF TypeOK, requestVars, tableVars
  <1> QED
    BY <1>4, <1>5 DEF TypeOK

(* The steps of the broker keep the types. *)
LEMMA BrokerTypes ==
  ASSUME TypeOK, NEW r \in Requests, RequestStep(r) \/ StatementFails(r)
  PROVE  TypeOK'
  <1>1. CASE Unheard(r)
    <2>1. \A d \in Controllers : waiting[d] # r
      BY <1>1 DEF Unheard, Attended
    <2>2. /\ pc' \in [Requests -> {"unused"} \cup Working \cup Answered]
          /\ arch' \in [Requests -> Archs \cup {NoArch}]
          /\ rest' \in [Requests -> CallsOf]
          /\ at' \in [Requests -> Names \cup {NoName}]
          /\ Held(rest'[r]) = {} /\ pc'[r] = "unused"
          /\ \A q \in Requests \ {r} : pc'[q] = pc[q] /\ rest'[q] = rest[q] /\ at'[q] = at[q]
      BY <1>1, FreesTypes DEF Unheard
    <2>3. UNCHANGED <<controllerVars, tableVars, faults, missed, late>>
      BY <1>1 DEF Unheard, BrokerLeavesAlone
    <2>4. \A d \in Controllers : waiting'[d] # NoRequest => pc'[waiting'[d]] # "unused"
      BY <2>1, <2>2, <2>3 DEF TypeOK, controllerVars
    <2>5. \A q \in Requests : /\ pc'[q] \in {"update", "insert"} => at'[q] \in Held(rest'[q])
                              /\ pc'[q] \in {"unused", "ok"} => Held(rest'[q]) = {}
      BY <2>2 DEF TypeOK
    <2> QED
      BY <2>2, <2>3, <2>4, <2>5 DEF TypeOK, tableVars, controllerVars
  <1>2. CASE \E n \in Names : Lookup(r, n)
    <2>1. PICK n \in Names : Lookup(r, n)
      BY <1>2
    <2>2. PICK to \in {"update", "insert"} : pc' = [pc EXCEPT ![r] = to]
      BY <2>1 DEF Lookup, Goes
    <2>3. at' = [at EXCEPT ![r] = n] /\ n \in Held(rest[r])
      BY <2>1 DEF Lookup
    <2>4. UNCHANGED <<controllerVars, arch, rest, tableVars, faults, missed, late>>
      BY <2>1 DEF Lookup, BrokerLeavesAlone
    <2>5. \A q \in Requests : /\ pc'[q] \in {"update", "insert"} => at'[q] \in Held(rest'[q])
                              /\ pc'[q] \in {"unused", "ok"} => Held(rest'[q]) = {}
      BY <2>2, <2>3, <2>4 DEF TypeOK
    <2>6. \A d \in Controllers : waiting'[d] # NoRequest => pc'[waiting'[d]] # "unused"
      BY <2>2, <2>4 DEF TypeOK, controllerVars
    <2>7. pc' \in [Requests -> {"unused"} \cup Working \cup Answered]
      BY <2>2 DEF TypeOK, Working
    <2> QED
      BY <2>3, <2>4, <2>5, <2>6, <2>7 DEF TypeOK, tableVars, controllerVars
  <1>3. CASE Update(r) \/ Insert(r)
    <2>1. at[r] \in Names /\ at[r] \in Held(rest[r]) /\ pc[r] # "unused"
      BY <1>3 DEF Update, Insert, TypeOK, Held
    <2>2. ItemDone(r) /\ Writes(r)
      BY <1>3 DEF Update, Insert
    <2>3. rowArch' \in [Names -> Archs \cup {NoArch}]
      BY <1>3, <2>1 DEF Update, Insert, TypeOK
    <2>4. row' \in CallsOf
      BY <2>1, <2>2 DEF Writes, TypeOK, CallsOf
    <2>5. rest' \in [Requests -> CallsOf] /\ Held(rest'[r]) = Held(rest[r]) \ {at[r]}
      <3>1. rest[r] \in CallsOf /\ rest' = [rest EXCEPT ![r] = [@ EXCEPT ![at[r]] = {}]]
        BY <2>2 DEF ItemDone, TypeOK
      <3>2. [rest[r] EXCEPT ![at[r]] = {}] \in CallsOf
        BY <2>1, <3>1 DEF CallsOf
      <3>3. rest'[r] = [rest[r] EXCEPT ![at[r]] = {}] /\ rest' \in [Requests -> CallsOf]
        BY <3>1, <3>2 DEF TypeOK
      <3> QED
        BY <2>1, <3>1, <3>3 DEF CallsOf, Held
    <2>6. PICK to \in {"ok", "lookup"} : pc' = [pc EXCEPT ![r] = to] /\ (to = "ok" => Held(rest[r]) = {at[r]})
      BY <2>2 DEF ItemDone, Goes
    <2>7. UNCHANGED <<controllerVars, arch, faults, missed, late>>
      BY <1>3 DEF Update, Insert, BrokerLeavesAlone
    <2>8. at' = [at EXCEPT ![r] = NoName] /\ \A q \in Requests \ {r} : rest'[q] = rest[q]
      BY <2>2 DEF ItemDone, TypeOK
    <2>9. \A q \in Requests : /\ pc'[q] \in {"update", "insert"} => at'[q] \in Held(rest'[q])
                              /\ pc'[q] \in {"unused", "ok"} => Held(rest'[q]) = {}
      BY <2>5, <2>6, <2>8 DEF TypeOK
    <2>10. \A d \in Controllers : waiting'[d] # NoRequest => pc'[waiting'[d]] # "unused"
      BY <2>6, <2>7 DEF TypeOK, controllerVars
    <2>11. /\ pc' \in [Requests -> {"unused"} \cup Working \cup Answered]
           /\ at' \in [Requests -> Names \cup {NoName}]
      BY <2>6, <2>8 DEF TypeOK, Working, Answered
    <2> QED
      BY <2>3, <2>4, <2>5, <2>7, <2>9, <2>10, <2>11 DEF TypeOK, controllerVars
  <1>4. CASE InsertPanics(r) \/ StatementFails(r)
    <2>1. pc' = [pc EXCEPT ![r] = "refused"] /\ UNCHANGED <<controllerVars, arch, rest, at, missed, late>>
      BY <1>4 DEF InsertPanics, StatementFails, Goes, BrokerLeavesAlone
    <2>2. faults' \in Nat
      BY <1>4 DEF InsertPanics, StatementFails, Fault, TypeOK
    <2>3. row' = row \/ (pc[r] \in {"update", "insert"} /\ Writes(r))
      BY <1>4 DEF InsertPanics, StatementFails, tableVars
    <2>4. row' \in CallsOf
      <3>1. CASE pc[r] \in {"update", "insert"} /\ Writes(r)
        <4>1. at[r] \in Names /\ rest[r][at[r]] \subseteq Syscalls
          BY <3>1 DEF TypeOK, CallsOf, Held
        <4> QED
          BY <3>1, <4>1 DEF Writes, TypeOK, CallsOf
      <3> QED
        BY <2>3, <3>1 DEF TypeOK
    <2>5. rowArch' = rowArch \/ rowArch' = [rowArch EXCEPT ![at[r]] = arch[r]]
      BY <1>4 DEF InsertPanics, StatementFails, tableVars
    <2>6. rowArch' \in [Names -> Archs \cup {NoArch}]
      BY <2>5 DEF TypeOK
    <2>7. /\ pc' \in [Requests -> {"unused"} \cup Working \cup Answered]
          /\ \A d \in Controllers : waiting'[d] # NoRequest => pc'[waiting'[d]] # "unused"
      BY <2>1 DEF TypeOK, controllerVars, Answered
    <2>8. \A q \in Requests : /\ pc'[q] \in {"update", "insert"} => at'[q] \in Held(rest'[q])
                              /\ pc'[q] \in {"unused", "ok"} => Held(rest'[q]) = {}
      BY <2>1 DEF TypeOK
    <2> QED
      BY <2>1, <2>2, <2>4, <2>6, <2>7, <2>8 DEF TypeOK, controllerVars
  <1> QED
    BY <1>1, <1>2, <1>3, <1>4 DEF RequestStep

LEMMA InitTypes == Init => TypeOK
  <1>1. NoCalls \in CallsOf /\ Held(NoCalls) = {}
    BY DEF NoCalls, CallsOf, Held
  <1> QED
    BY <1>1, BoundsAssumption, ValuesAssumption DEF Init, TypeOK, CallsOf

LEMMA StepTypes == TypeOK /\ [Next]_vars => TypeOK'
  <1> SUFFICES ASSUME TypeOK, [Next]_vars PROVE TypeOK'
    OBVIOUS
  <1>1. CASE UNCHANGED vars
    BY <1>1 DEF TypeOK, vars, controllerVars, requestVars, tableVars, Held
  <1>2. ASSUME NEW c \in Controllers, NEW n \in Names,
               (\E s \in Syscalls : Note(c, n, s)) \/ EvictCalls(c, n) \/ EvictSent(c, n)
        PROVE TypeOK'
    BY <1>2, NoteTypes, EvictTypes
  <1>3. ASSUME NEW c \in Controllers,
               Sends(c) \/ Reply(c) \/ ConnectionBreaks(c) \/ ControllerRestarts(c)
        PROVE TypeOK'
    BY <1>3, SendTypes, ReplyTypes, BreakTypes, RestartTypes DEF Sends
  <1>4. ASSUME NEW r \in Requests, RequestStep(r) \/ StatementFails(r) PROVE TypeOK'
    BY <1>4, BrokerTypes
  <1> QED
    BY <1>1, <1>2, <1>3, <1>4 DEF Next

(* The state stays within the types of Names, Syscalls and Requests: the   *)
(* controllers' caches, the requests in progress and pod_syscalls.         *)
THEOREM TypeCorrect == Spec => []TypeOK
  BY InitTypes, StepTypes, PTL DEF Spec
-------------------------------------------------------------------------------
(* What is in progress.                                                    *)

(* What a step of the broker may change: items of its own request end, and *)
(* a row takes an item that its request is at.                             *)
LEMMA BrokerEffect ==
  ASSUME TypeOK, NEW r \in Requests, RequestStep(r) \/ StatementFails(r)
  PROVE  /\ UNCHANGED <<controllerVars, missed, late>>
         /\ pc[r] # "unused"
         /\ \A q \in Requests \ {r} :
               pc'[q] = pc[q] /\ rest'[q] = rest[q] /\ arch'[q] = arch[q] /\ at'[q] = at[q]
         /\ \A n \in Names :
               /\ rest'[r][n] \in {rest[r][n], {}}
               /\ row'[n] # row[n] => n = at[r] /\ n \in Held(rest[r]) /\ row'[n] = rest[r][n]
               /\ rest'[r][n] # rest[r][n] => ~Attended(r) \/ row'[n] = rest[r][n]
  <1>1. CASE Unheard(r)
    <2>1. rest' = [rest EXCEPT ![r] = NoCalls]
      BY <1>1 DEF Unheard, Frees
    <2>2. rest'[r] = NoCalls
      BY <2>1 DEF TypeOK
    <2>3. \A n \in Names : rest'[r][n] = {}
      BY <2>2 DEF NoCalls
    <2> QED
      BY <1>1, <2>3 DEF Unheard, Frees, BrokerLeavesAlone, Answered, tableVars, TypeOK
  <1>2. CASE \E n \in Names : Lookup(r, n)
    BY <1>2 DEF Lookup, Goes, BrokerLeavesAlone, tableVars, TypeOK
  <1>3. CASE Update(r) \/ Insert(r)
    <2>1. at[r] \in Held(rest[r]) /\ pc[r] # "unused"
      BY <1>3 DEF Update, Insert, TypeOK
    <2>2. ItemDone(r) /\ Writes(r) /\ UNCHANGED <<controllerVars, arch, missed, late>>
      BY <1>3 DEF Update, Insert, BrokerLeavesAlone
    <2>3. at[r] \in Names /\ rest[r] \in CallsOf
      BY <2>1 DEF Held, TypeOK
    <2>4. rest' = [rest EXCEPT ![r] = [@ EXCEPT ![at[r]] = {}]]
      BY <2>2 DEF ItemDone
    <2>5. rest'[r] = [rest[r] EXCEPT ![at[r]] = {}]
      BY <2>4 DEF TypeOK
    <2>6. \A n \in Names : rest'[r][n] = IF n = at[r] THEN {} ELSE rest[r][n]
      BY <2>3, <2>5 DEF CallsOf
    <2>7. \A n \in Names : row'[n] = IF n = at[r] THEN rest[r][at[r]] ELSE row[n]
      BY <2>2, <2>3 DEF Writes, TypeOK, CallsOf
    <2>8. \A q \in Requests \ {r} : pc'[q] = pc[q] /\ rest'[q] = rest[q] /\ at'[q] = at[q]
      BY <2>2 DEF ItemDone, Goes, TypeOK
    <2> QED
      BY <2>1, <2>2, <2>6, <2>7, <2>8
  <1>4. CASE InsertPanics(r) \/ StatementFails(r)
    <2>1. pc' = [pc EXCEPT ![r] = "refused"] /\ UNCHANGED <<controllerVars, arch, rest, at, missed, late>>
      BY <1>4 DEF InsertPanics, StatementFails, Goes, BrokerLeavesAlone
    <2>2. row' = row \/ (pc[r] \in {"update", "insert"} /\ Writes(r))
      BY <1>4 DEF InsertPanics, StatementFails, tableVars
    <2>3. pc[r] # "unused"
      BY <1>4 DEF InsertPanics, StatementFails, Working
    <2>4. \A n \in Names : row'[n] # row[n] => n = at[r] /\ n \in Held(rest[r]) /\ row'[n] = rest[r][n]
      BY <2>2 DEF Writes, TypeOK, CallsOf
    <2> QED
      BY <2>1, <2>3, <2>4 DEF TypeOK
  <1> QED
    BY <1>1, <1>2, <1>3, <1>4 DEF RequestStep

(* What the caches hold comes from the pods. *)
LEMMA SeenStep ==
  ASSUME TypeOK, SeenIsMade, [Next]_vars
  PROVE  SeenIsMade'
  <1>1. CASE UNCHANGED <<cache, sent>>
    BY <1>1 DEF SeenIsMade
  <1>2. ASSUME NEW c \in Controllers, NEW n \in Names, NEW s \in Syscalls, Note(c, n, s)
        PROVE SeenIsMade'
    BY <1>2 DEF Note, SeenIsMade, TypeOK, CallsOf
  <1>3. ASSUME NEW c \in Controllers, NEW n \in Names, EvictCalls(c, n)
        PROVE SeenIsMade'
    BY <1>3 DEF EvictCalls, SeenIsMade, TypeOK, CallsOf
  <1>4. ASSUME NEW c \in Controllers, NEW n \in Names, EvictSent(c, n)
        PROVE SeenIsMade'
    BY <1>4 DEF EvictSent, SeenIsMade, TypeOK, CallsOf
  <1>5. ASSUME NEW c \in Controllers, Sends(c)
        PROVE SeenIsMade'
    BY <1>5 DEF Sends, SendBatch, SeenIsMade, TypeOK, CallsOf
  <1>6. ASSUME NEW c \in Controllers, ControllerRestarts(c)
        PROVE SeenIsMade'
    BY <1>6 DEF ControllerRestarts, NoCalls, SeenIsMade, TypeOK
  <1>7. ASSUME NEW c \in Controllers, Reply(c) \/ ConnectionBreaks(c)
        PROVE UNCHANGED <<cache, sent>>
    BY <1>7 DEF Reply, ConnectionBreaks
  <1>8. ASSUME NEW r \in Requests, RequestStep(r) \/ StatementFails(r)
        PROVE UNCHANGED <<cache, sent>>
    BY <1>8, BrokerEffect DEF controllerVars
  <1>9. CASE UNCHANGED vars
    BY <1>1, <1>9 DEF vars, controllerVars
  <1> QED
    BY <1>1, <1>2, <1>3, <1>4, <1>5, <1>6, <1>7, <1>8, <1>9 DEF Next
(* What a batch holds is what the controller then takes for sent. *)
LEMMA AwaitedStep ==
  ASSUME TypeOK, SeenIsMade, AwaitedIsSent, [Next]_vars
  PROVE  AwaitedIsSent'
  <1>1. CASE UNCHANGED <<waiting, rest, sent>>
    BY <1>1 DEF AwaitedIsSent, Held
  <1>2. ASSUME NEW c \in Controllers, NEW n \in Names, EvictSent(c, n)
        PROVE AwaitedIsSent'
    <2>1. UNCHANGED <<waiting, rest>> /\ sent' = [sent EXCEPT ![c] = [@ EXCEPT ![n] = {}]]
      BY <1>2 DEF EvictSent, requestVars
    <2>2. \A d \in Controllers : \A m \in Names : sent'[d][m] \in {sent[d][m], {}}
      BY <2>1 DEF TypeOK, CallsOf
    <2> QED
      BY <2>1, <2>2 DEF AwaitedIsSent, Held
  <1>3. ASSUME NEW c \in Controllers, NEW r \in Requests, SendBatch(c, r)
        PROVE AwaitedIsSent'
    <2>1. waiting' = [waiting EXCEPT ![c] = r] /\ rest' = [rest EXCEPT ![r] = Items(c)]
      BY <1>3 DEF SendBatch
    <2>2. sent' = [sent EXCEPT ![c] = [n \in Names |-> IF n \in Changed(c) THEN cache[c][n] ELSE @[n]]]
      BY <1>3 DEF SendBatch
    <2>3. \A d \in Controllers : waiting[d] # r
      BY <1>3, ValuesAssumption DEF SendBatch, TypeOK
    <2> SUFFICES ASSUME NEW d \in Controllers, waiting'[d] # NoRequest,
                        NEW n \in Names, rest'[waiting'[d]][n] # {}
                 PROVE Makes[d][n] # {} /\ sent'[d][n] \in {rest'[waiting'[d]][n], {}}
      BY DEF AwaitedIsSent, Held
    <2>4. CASE d = c
      <3>1. waiting'[d] = r /\ rest'[r] = Items(c)
        BY <2>1, <2>4 DEF TypeOK
      <3>2. n \in Changed(c) /\ Items(c)[n] = cache[c][n]
        BY <3>1 DEF Items
      <3>3. sent'[d][n] = cache[c][n]
        BY <2>2, <2>4, <3>2 DEF TypeOK
      <3>4. cache[c][n] # {} /\ cache[c][n] \subseteq Makes[c][n]
        BY <3>2 DEF Changed, Held, SeenIsMade
      <3> QED
        BY <2>4, <3>1, <3>2, <3>3, <3>4
    <2>5. CASE d # c
      BY <2>1, <2>2, <2>3, <2>5 DEF AwaitedIsSent, Held, TypeOK
    <2> QED
      BY <2>4, <2>5
  <1>4. ASSUME NEW c \in Controllers, Reply(c) \/ ConnectionBreaks(c)
        PROVE AwaitedIsSent'
    <2>1. /\ waiting[c] \in Requests /\ waiting' = [waiting EXCEPT ![c] = NoRequest]
          /\ UNCHANGED sent
          /\ rest' = rest \/ rest' = [rest EXCEPT ![waiting[c]] = NoCalls]
      BY <1>4 DEF Reply, ConnectionBreaks, Frees, requestVars, TypeOK
    <2>2. \A d \in Controllers : waiting'[d] # NoRequest =>
              waiting'[d] = waiting[d] /\ rest'[waiting[d]] = rest[waiting[d]]
      BY <2>1 DEF TypeOK
    <2> QED
      BY <2>1, <2>2 DEF AwaitedIsSent
  <1>5. ASSUME NEW c \in Controllers, ControllerRestarts(c)
        PROVE AwaitedIsSent'
    <2>1. /\ waiting' = [waiting EXCEPT ![c] = NoRequest] /\ sent' = [sent EXCEPT ![c] = NoCalls]
          /\ rest' = rest \/ rest' = [rest EXCEPT ![waiting[c]] = NoCalls]
      BY <1>5 DEF ControllerRestarts, Frees, requestVars
    <2>2. \A d \in Controllers : waiting'[d] # NoRequest =>
              waiting'[d] = waiting[d] /\ sent'[d] = sent[d] /\ rest'[waiting[d]] = rest[waiting[d]]
      BY <2>1 DEF TypeOK
    <2> QED
      BY <2>1, <2>2 DEF AwaitedIsSent
  <1>6. ASSUME NEW r \in Requests, RequestStep(r) \/ StatementFails(r)
        PROVE AwaitedIsSent'
    <2>1. UNCHANGED <<waiting, sent>>
      BY <1>6, BrokerEffect DEF controllerVars
    <2>2. \A q \in Requests : \A n \in Names : rest'[q][n] \in {rest[q][n], {}}
      BY <1>6, BrokerEffect
    <2> SUFFICES ASSUME NEW d \in Controllers, waiting[d] # NoRequest,
                        NEW n \in Names, rest'[waiting[d]][n] # {}
                 PROVE Makes[d][n] # {} /\ sent[d][n] \in {rest'[waiting[d]][n], {}}
      BY <2>1 DEF AwaitedIsSent, Held
    <2>3. waiting[d] \in Requests
      BY DEF TypeOK
    <2>4. rest'[waiting[d]][n] = rest[waiting[d]][n]
      BY <2>2, <2>3
    <2> QED
      BY <2>4 DEF AwaitedIsSent, Held
  <1>7. ASSUME NEW c \in Controllers, NEW n \in Names,
               (\E s \in Syscalls : Note(c, n, s)) \/ EvictCalls(c, n)
        PROVE UNCHANGED <<waiting, rest, sent>>
    BY <1>7 DEF Note, EvictCalls, requestVars
  <1>8. CASE UNCHANGED vars
    BY <1>1, <1>8 DEF vars, controllerVars, requestVars
  <1> QED
    BY <1>1, <1>2, <1>3, <1>4, <1>5, <1>6, <1>7, <1>8 DEF Next, Sends

(* A request loses its controller only when its names become late. *)
LEMMA StrayStep ==
  ASSUME TypeOK, StrayIsLate, [Next]_vars
  PROVE  StrayIsLate'
  <1>1. CASE UNCHANGED <<waiting, pc, rest, late>>
    BY <1>1 DEF StrayIsLate, Attended, Held
  <1>2. ASSUME NEW c \in Controllers, NEW r \in Requests, SendBatch(c, r)
        PROVE StrayIsLate'
    <2>1. /\ waiting' = [waiting EXCEPT ![c] = r] /\ waiting[c] = NoRequest /\ UNCHANGED late
          /\ pc' = [pc EXCEPT ![r] = "lookup"] /\ rest' = [rest EXCEPT ![r] = Items(c)]
      BY <1>2 DEF SendBatch
    <2>2. \A q \in Requests : Attended(q) => Attended(q)'
      BY <2>1, ValuesAssumption DEF Attended, TypeOK
    <2>3. Attended(r)'
      BY <2>1 DEF Attended, TypeOK
    <2> QED
      BY <2>1, <2>2, <2>3 DEF StrayIsLate, TypeOK
  <1>3. ASSUME NEW c \in Controllers, Reply(c) \/ ConnectionBreaks(c) \/ ControllerRestarts(c)
        PROVE StrayIsLate'
    <2>1. waiting' = [waiting EXCEPT ![c] = NoRequest]
      BY <1>3 DEF Reply, ConnectionBreaks, ControllerRestarts
    <2>2. \A q \in Requests : Attended(q) => Attended(q)' \/ q = waiting[c]
      BY <2>1 DEF Attended, TypeOK
    <2>3. late \subseteq late'
      BY <1>3 DEF Reply, ConnectionBreaks, ControllerRestarts
    <2>4. \A q \in Requests \ {waiting[c]} : pc'[q] = pc[q] /\ rest'[q] = rest[q]
      BY <1>3 DEF Reply, ConnectionBreaks, ControllerRestarts, Frees, requestVars, TypeOK
    <2>5. waiting[c] \in Requests =>
             \/ pc'[waiting[c]] = "unused"
             \/ rest'[waiting[c]] = rest[waiting[c]] /\ Held(rest[waiting[c]]) \subseteq late'
      BY <1>3, ValuesAssumption DEF Reply, ConnectionBreaks, ControllerRestarts, Frees, requestVars, TypeOK
    <2> QED
      BY <2>2, <2>3, <2>4, <2>5 DEF StrayIsLate, Attended
  <1>4. ASSUME NEW r \in Requests, RequestStep(r) \/ StatementFails(r)
        PROVE StrayIsLate'
    <2>1. /\ UNCHANGED <<waiting, late>> /\ pc[r] # "unused"
          /\ \A q \in Requests \ {r} : pc'[q] = pc[q] /\ rest'[q] = rest[q]
          /\ \A n \in Names : rest'[r][n] \in {rest[r][n], {}}
      BY <1>4, BrokerEffect DEF controllerVars
    <2>2. Held(rest'[r]) \subseteq Held(rest[r])
      BY <2>1 DEF Held
    <2> QED
      BY <2>1, <2>2 DEF StrayIsLate, Attended
  <1>5. ASSUME NEW c \in Controllers, NEW n \in Names,
               (\E s \in Syscalls : Note(c, n, s)) \/ EvictCalls(c, n) \/ EvictSent(c, n)
        PROVE UNCHANGED <<waiting, pc, rest, late>>
    BY <1>5 DEF Note, EvictCalls, EvictSent, requestVars
  <1>6. CASE UNCHANGED vars
    BY <1>1, <1>6 DEF vars, controllerVars, requestVars
  <1> QED
    BY <1>1, <1>2, <1>3, <1>4, <1>5, <1>6 DEF Next, Sends
-------------------------------------------------------------------------------
(* What is on record.                                                      *)

(* How a step of the broker treats architectures: a new row gets that of   *)
(* the request, and no row ever changes its own.                           *)
LEMMA BrokerArch ==
  ASSUME TypeOK, ItemsAreOfOneArch, NEW r \in Requests, RequestStep(r) \/ StatementFails(r)
  PROVE  /\ pc'[r] # "unused" => arch'[r] = arch[r]
         /\ pc'[r] = "update" => rowArch'[at'[r]] = arch'[r]
         /\ \A n \in Names : rowArch[n] # NoArch => rowArch'[n] = rowArch[n]
         /\ \A n \in Names : row'[n] # row[n] => rowArch'[n] = arch[r]
  <1>1. CASE Unheard(r)
    BY <1>1 DEF Unheard, Frees, tableVars, TypeOK
  <1>2. CASE \E n \in Names : Lookup(r, n)
    BY <1>2 DEF Lookup, Goes, tableVars, TypeOK
  <1>3. CASE Update(r)
    <2>1. rowArch[at[r]] = arch[r] /\ UNCHANGED <<rowArch, arch>>
      BY <1>3 DEF Update, ItemsAreOfOneArch
    <2>2. pc'[r] \in {"ok", "lookup"}
      BY <1>3 DEF Update, ItemDone, Goes, TypeOK
    <2>3. \A n \in Names : row'[n] # row[n] => n = at[r]
      BY <1>3, BrokerEffect
    <2> QED
      BY <2>1, <2>2, <2>3
  <1>4. CASE Insert(r)
    <2>1. /\ rowArch[at[r]] = NoArch /\ rowArch' = [rowArch EXCEPT ![at[r]] = arch[r]]
          /\ UNCHANGED arch
      BY <1>4 DEF Insert
    <2>2. pc'[r] \in {"ok", "lookup"}
      BY <1>4 DEF Insert, ItemDone, Goes, TypeOK
    <2>3. \A n \in Names : row'[n] # row[n] => n = at[r]
      BY <1>4, BrokerEffect
    <2> QED
      BY <2>1, <2>2, <2>3 DEF TypeOK
  <1>5. CASE InsertPanics(r)
    BY <1>5 DEF InsertPanics, Goes, tableVars, TypeOK
  <1>6. CASE StatementFails(r)
    <2>1. pc'[r] = "refused" /\ UNCHANGED arch
      BY <1>6 DEF StatementFails, Goes, TypeOK
    <2>2. \A n \in Names : row'[n] # row[n] => n = at[r]
      BY <1>6, BrokerEffect
    <2>3. \/ UNCHANGED tableVars
          \/ pc[r] = "update" /\ rowArch' = rowArch
          \/ rowArch[at[r]] = NoArch /\ rowArch' = [rowArch EXCEPT ![at[r]] = arch[r]]
      BY <1>6 DEF StatementFails
    <2>4. CASE UNCHANGED tableVars
      BY <2>1, <2>4 DEF tableVars
    <2>5. CASE pc[r] = "update" /\ rowArch' = rowArch
      BY <2>1, <2>2, <2>5 DEF ItemsAreOfOneArch
    <2>6. CASE rowArch[at[r]] = NoArch /\ rowArch' = [rowArch EXCEPT ![at[r]] = arch[r]]
      BY <2>1, <2>2, <2>6 DEF TypeOK
    <2> QED
      BY <2>3, <2>4, <2>5, <2>6
  <1> QED
    BY <1>1, <1>2, <1>3, <1>4, <1>5, <1>6 DEF RequestStep

LEMMA ArchStep ==
  ASSUME TypeOK, SeenIsMade, ItemsAreOfOneArch, RowIsOfOneArch, [Next]_vars
  PROVE  ItemsAreOfOneArch' /\ RowIsOfOneArch'
  <1>1. CASE UNCHANGED <<requestVars, tableVars>>
    BY <1>1 DEF requestVars, tableVars, ItemsAreOfOneArch, RowIsOfOneArch, CallsAt
  <1>2. ASSUME NEW c \in Controllers, NEW r \in Requests, SendBatch(c, r)
        PROVE ItemsAreOfOneArch' /\ RowIsOfOneArch'
    <2>1. /\ pc' = [pc EXCEPT ![r] = "lookup"] /\ arch' = [arch EXCEPT ![r] = ArchOf[c]]
          /\ rest' = [rest EXCEPT ![r] = Items(c)] /\ UNCHANGED <<at, rowArch, row>>
      BY <1>2 DEF SendBatch, tableVars
    <2>2. \A n \in Names : Items(c)[n] \subseteq Makes[c][n]
      BY DEF Items, SeenIsMade
    <2>3. \A n \in Names : Makes[c][n] \subseteq CallsAt(n, ArchOf[c])
      BY DEF CallsAt
    <2>4. ArchOf[c] # NoArch
      BY NodesAssumption
    <2>5. \A n \in Names : rest'[r][n] \subseteq CallsAt(n, arch'[r])
      BY <2>1, <2>2, <2>3 DEF TypeOK
    <2>6. ItemsAreOfOneArch'
      BY <2>1, <2>4, <2>5 DEF ItemsAreOfOneArch, TypeOK, CallsAt
    <2> QED
      BY <2>1, <2>6 DEF RowIsOfOneArch
  <1>3. ASSUME NEW c \in Controllers, Reply(c) \/ ConnectionBreaks(c) \/ ControllerRestarts(c)
        PROVE ItemsAreOfOneArch' /\ RowIsOfOneArch'
    <2>1. UNCHANGED tableVars /\ ((waiting[c] \in Requests /\ Frees(waiting[c])) \/ UNCHANGED requestVars)
      BY <1>3 DEF Reply, ConnectionBreaks, ControllerRestarts, TypeOK
    <2>2. CASE waiting[c] \in Requests /\ Frees(waiting[c])
      <3>1. \A n \in Names : rest'[waiting[c]][n] = {}
        BY <2>1, <2>2 DEF Frees, NoCalls, TypeOK
      <3>2. ItemsAreOfOneArch'
        BY <2>1, <2>2, <3>1 DEF Frees, ItemsAreOfOneArch, TypeOK, tableVars, CallsAt
      <3> QED
        BY <2>1, <3>2 DEF RowIsOfOneArch, tableVars
    <2> QED
      BY <1>1, <2>1, <2>2
  <1>4. ASSUME NEW r \in Requests, RequestStep(r) \/ StatementFails(r)
        PROVE ItemsAreOfOneArch' /\ RowIsOfOneArch'
    <2>1. /\ \A q \in Requests \ {r} :
               pc'[q] = pc[q] /\ rest'[q] = rest[q] /\ arch'[q] = arch[q] /\ at'[q] = at[q]
          /\ pc[r] # "unused"
          /\ \A n \in Names : rest'[r][n] \in {rest[r][n], {}}
          /\ \A n \in Names : row'[n] # row[n] => row'[n] = rest[r][n]
      BY <1>4, BrokerEffect
    <2>2. /\ pc'[r] # "unused" => arch'[r] = arch[r]
          /\ pc'[r] = "update" => rowArch'[at'[r]] = arch'[r]
          /\ \A n \in Names : rowArch[n] # NoArch => rowArch'[n] = rowArch[n]
          /\ \A n \in Names : row'[n] # row[n] => rowArch'[n] = arch[r]
      BY <1>4, BrokerArch
    <2>3. \A q \in Requests : pc'[q] = "update" => rowArch'[at'[q]] = arch'[q]
      <3> SUFFICES ASSUME NEW q \in Requests \ {r}, pc[q] = "update"
                   PROVE rowArch'[at[q]] = arch[q]
        BY <2>1, <2>2
      <3>1. at[q] \in Names
        BY DEF TypeOK, Held
      <3> QED
        BY <2>2, <3>1 DEF ItemsAreOfOneArch
    <2>4. \A n \in Names : rest'[r][n] \subseteq CallsAt(n, arch'[r])
      <3>1. CASE pc'[r] # "unused"
        BY <2>1, <2>2, <3>1 DEF ItemsAreOfOneArch
      <3>2. CASE pc'[r] = "unused"
        <4>1. TypeOK'
          BY <1>4, BrokerTypes
        <4> QED
          BY <3>2, <4>1 DEF TypeOK, Held
      <3> QED
        BY <3>1, <3>2
    <2>5. ItemsAreOfOneArch'
      BY <2>1, <2>2, <2>3, <2>4 DEF ItemsAreOfOneArch, CallsAt
    <2>6. ASSUME NEW n \in Names PROVE row'[n] \subseteq CallsAt(n, rowArch'[n])
      <3>1. CASE row'[n] # row[n]
        BY <2>1, <2>2, <3>1 DEF ItemsAreOfOneArch
      <3>2. CASE row'[n] = row[n] /\ rowArch[n] # NoArch
        BY <2>2, <3>2 DEF RowIsOfOneArch, CallsAt
      <3>3. CASE row'[n] = row[n] /\ rowArch[n] = NoArch
        <4>1. {d \in Controllers : ArchOf[d] = NoArch} = {}
          BY NodesAssumption
        <4>2. row[n] = {}
          BY <3>3, <4>1 DEF RowIsOfOneArch
        <4> QED
          BY <3>3, <4>2
      <3> QED
        BY <3>1, <3>2, <3>3
    <2> QED
      BY <2>5, <2>6 DEF RowIsOfOneArch, CallsAt
  <1>5. ASSUME NEW c \in Controllers,
               \E n \in Names : (\E s \in Syscalls : Note(c, n, s)) \/ EvictCalls(c, n) \/ EvictSent(c, n)
        PROVE UNCHANGED <<requestVars, tableVars>>
    BY <1>5 DEF Note, EvictCalls, EvictSent
  <1>6. CASE UNCHANGED vars
    BY <1>1, <1>6 DEF vars
  <1> QED
    BY <1>1, <1>2, <1>3, <1>4, <1>5, <1>6 DEF Next, Sends
(* A row that another controller's awaited request writes is not that of a *)
(* name whose pods are on one node alone.                                  *)
LEMMA AloneAwaits ==
  ASSUME TypeOK, AwaitedIsSent, NEW c \in Controllers, NEW n \in Names, Alone(c, n),
         sent[c][n] # {}, SeenIsMade,
         NEW r \in Requests, Attended(r), n \in Held(rest[r])
  PROVE  waiting[c] = r /\ sent[c][n] = rest[r][n]
  <1>1. PICK d \in Controllers : waiting[d] = r
    BY DEF Attended
  <1>2. Makes[d][n] # {}
    BY <1>1, ValuesAssumption DEF AwaitedIsSent
  <1>3. d = c
    BY <1>2 DEF Alone
  <1> QED
    BY <1>1, <1>3, ValuesAssumption DEF AwaitedIsSent

LEMMA RecordedStep ==
  ASSUME TypeOK, SeenIsMade, AwaitedIsSent, StrayIsLate, SentIsRecorded, [Next]_vars
  PROVE  SentIsRecorded'
  <1> DEFINE Settled(c, n) == n \in Held(sent[c]) \ (UnderWay(c) \cup missed[c] \cup late) /\ Alone(c, n)
  <1> SUFFICES ASSUME NEW c \in Controllers, NEW n \in Names, Settled(c, n)'
               PROVE row'[n] = sent'[c][n]
    BY DEF SentIsRecorded, Alone, Held
  <1>1. Settled(c, n) => row[n] = sent[c][n]
    BY DEF SentIsRecorded
  <1>2. CASE UNCHANGED <<sent, waiting, rest, missed, late, row>>
    BY <1>1, <1>2 DEF UnderWay, Held, Alone
  <1>3. ASSUME NEW d \in Controllers, NEW m \in Names, EvictSent(d, m)
        PROVE row'[n] = sent'[c][n]
    <2>1. sent' = [sent EXCEPT ![d] = [@ EXCEPT ![m] = {}]] /\ UNCHANGED <<waiting, rest, missed, late, row>>
      BY <1>3 DEF EvictSent, requestVars, tableVars
    <2>2. sent'[c][n] # {} => sent'[c][n] = sent[c][n]
      BY <2>1 DEF TypeOK, CallsOf
    <2> QED
      BY <1>1, <2>1, <2>2 DEF UnderWay, Held, Alone
  <1>4. ASSUME NEW d \in Controllers, NEW r \in Requests, SendBatch(d, r)
        PROVE row'[n] = sent'[c][n]
    <2>1. /\ waiting' = [waiting EXCEPT ![d] = r] /\ waiting[d] = NoRequest
          /\ rest' = [rest EXCEPT ![r] = Items(d)] /\ UNCHANGED <<late, row>>
          /\ missed' = [missed EXCEPT ![d] = @ \ Changed(d)]
          /\ pc[r] = "unused"
      BY <1>4 DEF SendBatch, tableVars
    <2>2. sent' = [sent EXCEPT ![d] = [m \in Names |-> IF m \in Changed(d) THEN cache[d][m] ELSE @[m]]]
      BY <1>4 DEF SendBatch
    <2>3. CASE c = d
      <3>1. UnderWay(c)' = Held(Items(c))
        BY <2>1, <2>3, ValuesAssumption DEF UnderWay, TypeOK, Held
      <3>2. n \notin Changed(c)
        BY <3>1 DEF Items, Held, Changed
      <3>3. sent'[c][n] = sent[c][n] /\ n \notin missed[c] /\ UnderWay(c) = {}
        BY <2>1, <2>2, <2>3, <3>2 DEF TypeOK, UnderWay
      <3> QED
        BY <1>1, <2>1, <3>3 DEF Held, Alone
    <2>4. CASE c # d
      <3>1. waiting[c] # r
        BY <2>1, ValuesAssumption DEF TypeOK
      <3>2. UnderWay(c)' = UnderWay(c) /\ sent'[c] = sent[c] /\ missed'[c] = missed[c]
        BY <2>1, <2>2, <2>4, <3>1 DEF UnderWay, TypeOK, Held
      <3> QED
        BY <1>1, <2>1, <3>2 DEF Held, Alone
    <2> QED
      BY <2>3, <2>4
  <1>5. ASSUME NEW d \in Controllers, Reply(d) \/ ConnectionBreaks(d) \/ ControllerRestarts(d)
        PROVE row'[n] = sent'[c][n]
    <2>1. /\ waiting' = [waiting EXCEPT ![d] = NoRequest] /\ UNCHANGED row
          /\ \A q \in Requests \ {waiting[d]} : rest'[q] = rest[q]
          /\ late \subseteq late' /\ missed[c] \subseteq missed'[c]
      BY <1>5 DEF Reply, ConnectionBreaks, ControllerRestarts, Frees, requestVars, tableVars, TypeOK
    <2>2. CASE c = d
      <3>1. CASE ControllerRestarts(d)
        BY <2>2, <3>1 DEF ControllerRestarts, NoCalls, Held, TypeOK
      <3>2. CASE Reply(d) \/ ConnectionBreaks(d)
        <4>1. UNCHANGED sent /\ waiting[c] \in Requests
          BY <2>2, <3>2 DEF Reply, ConnectionBreaks, TypeOK
        <4>2. UnderWay(c) \subseteq missed'[c] \cup late'
          BY <2>2, <3>2 DEF Reply, ConnectionBreaks, UnderWay, TypeOK
        <4> QED
          BY <1>1, <2>1, <4>1, <4>2 DEF Held, Alone
      <3> QED
        BY <1>5, <3>1, <3>2
    <2>3. CASE c # d
      <3>1. sent'[c] = sent[c]
        BY <1>5, <2>3 DEF Reply, ConnectionBreaks, ControllerRestarts, TypeOK
      <3>2. waiting'[c] = waiting[c]
        BY <2>1, <2>3 DEF TypeOK
      <3>3. waiting[c] # NoRequest => waiting[c] \in Requests \ {waiting[d]}
        BY <2>3 DEF TypeOK
      <3>4. waiting[c] # NoRequest => rest'[waiting[c]] = rest[waiting[c]]
        BY <2>1, <3>3
      <3>5. UnderWay(c)' = UnderWay(c)
        BY <3>2, <3>4 DEF UnderWay, Held
      <3> QED
        BY <1>1, <2>1, <3>1, <3>5 DEF Held, Alone
    <2> QED
      BY <2>2, <2>3
  <1>6. ASSUME NEW r \in Requests, RequestStep(r) \/ StatementFails(r)
        PROVE row'[n] = sent'[c][n]
    <2>1. /\ UNCHANGED <<sent, waiting, missed, late>>
          /\ pc[r] # "unused"
          /\ \A q \in Requests \ {r} : rest'[q] = rest[q]
          /\ rest'[r][n] \in {rest[r][n], {}}
          /\ row'[n] # row[n] => n \in Held(rest[r]) /\ row'[n] = rest[r][n]
          /\ rest'[r][n] # rest[r][n] => ~Attended(r) \/ row'[n] = rest[r][n]
      BY <1>6, BrokerEffect DEF controllerVars
    <2>2. sent[c][n] # {} /\ n \notin missed[c] /\ n \notin late /\ Alone(c, n) /\ n \notin UnderWay(c)'
      BY <2>1 DEF Held, Alone
    <2>3. CASE row'[n] # row[n] \/ rest'[r][n] # rest[r][n]
      <3>1. n \in Held(rest[r])
        BY <2>1, <2>3 DEF Held
      <3>2. Attended(r)
        BY <2>1, <2>2, <3>1 DEF StrayIsLate
      <3>3. row'[n] = rest[r][n]
        BY <2>1, <2>3, <3>2
      <3> QED
        BY <2>1, <2>2, <3>1, <3>2, <3>3, AloneAwaits
    <2>4. CASE row'[n] = row[n] /\ rest'[r][n] = rest[r][n]
      <3>1. n \notin UnderWay(c)
        BY <2>1, <2>2, <2>4 DEF UnderWay, Held, TypeOK
      <3> QED
        BY <1>1, <2>1, <2>2, <2>4, <3>1 DEF Held
    <2> QED
      BY <2>3, <2>4
  <1>7. ASSUME NEW d \in Controllers, NEW m \in Names,
               (\E s \in Syscalls : Note(d, m, s)) \/ EvictCalls(d, m)
        PROVE UNCHANGED <<sent, waiting, rest, missed, late, row>>
    BY <1>7 DEF Note, EvictCalls, requestVars, tableVars
  <1>8. CASE UNCHANGED vars
    BY <1>2, <1>8 DEF vars, controllerVars, requestVars, tableVars
  <1> QED
    BY <1>2, <1>3, <1>4, <1>5, <1>6, <1>7, <1>8 DEF Next, Sends

-------------------------------------------------------------------------------
IInv ==
    /\ TypeOK
    /\ SeenIsMade
    /\ AwaitedIsSent
    /\ StrayIsLate
    /\ ItemsAreOfOneArch
    /\ RowIsOfOneArch
    /\ SentIsRecorded

LEMMA InitInv == Init => IInv
  <1> SUFFICES ASSUME Init PROVE IInv
    OBVIOUS
  <1>1. Held(NoCalls) = {}
    BY DEF NoCalls, Held
  <1>2. SeenIsMade /\ AwaitedIsSent /\ StrayIsLate
    BY DEF Init, SeenIsMade, AwaitedIsSent, StrayIsLate, NoCalls
  <1>3. ItemsAreOfOneArch /\ RowIsOfOneArch
    BY DEF Init, ItemsAreOfOneArch, RowIsOfOneArch, NoCalls
  <1>4. SentIsRecorded
    BY <1>1 DEF Init, SentIsRecorded
  <1> QED
    BY <1>2, <1>3, <1>4, InitTypes DEF IInv

LEMMA StepInv == IInv /\ [Next]_vars => IInv'
  BY StepTypes, SeenStep, AwaitedStep, StrayStep, ArchStep, RecordedStep DEF IInv

(* pod_syscalls never mixes architectures: get_row filters by it and the   *)
(* insertion of a name that has a row fails (add.rs).                      *)
THEOREM RowIsOfOneArchCorrect == Spec => []RowIsOfOneArch
  <1>1. IInv => RowIsOfOneArch
    BY DEF IInv
  <1> QED
    BY <1>1, InitInv, StepInv, PTL DEF Spec

(* LAST_SENT_CACHE is what the row holds, but for what failed or was late: *)
(* it is set before the POST and nothing puts it back (syscall.rs).        *)
THEOREM SentIsRecordedCorrect == Spec => []SentIsRecorded
  <1>1. IInv => SentIsRecorded
    BY DEF IInv
  <1> QED
    BY <1>1, InitInv, StepInv, PTL DEF Spec

(* The row is replaced by the whole set (add.rs), which is no smaller than *)
(* what the controller takes for sent.                                     *)
THEOREM LossNeedsCauseCorrect == Spec => LossNeedsCause
  <1> DEFINE Step == \A r \in Requests : \A c \in Controllers : \A n \in Names :
                       waiting[c] = r /\ n = at[r] /\ pc'[r] # pc[r]
                           => row[n] \ row'[n] \subseteq Syscalls \ sent[c][n]
  <1>1. IInv /\ [Next]_vars => [Step]_vars
    <2> SUFFICES ASSUME IInv, Next,
                        NEW r \in Requests, NEW c \in Controllers, NEW n \in Names,
                        waiting[c] = r, n = at[r], pc'[r] # pc[r], row'[n] # row[n]
                 PROVE row[n] \ row'[n] \subseteq Syscalls \ sent[c][n]
      BY DEF vars, requestVars, tableVars
    <2>1. ASSUME NEW d \in Controllers,
                 \/ \E m \in Names : (\E s \in Syscalls : Note(d, m, s)) \/ EvictCalls(d, m) \/ EvictSent(d, m)
                 \/ Sends(d) \/ Reply(d) \/ ConnectionBreaks(d) \/ ControllerRestarts(d)
          PROVE row' = row
      BY <2>1 DEF Note, EvictCalls, EvictSent, Sends, SendBatch, Reply, ConnectionBreaks,
                  ControllerRestarts, tableVars
    <2>2. PICK q \in Requests : RequestStep(q) \/ StatementFails(q)
      BY <2>1 DEF Next
    <2>3. q = r /\ n \in Held(rest[r]) /\ row'[n] = rest[r][n]
      <3>1. q = r
        BY <2>2, BrokerEffect DEF IInv
      <3> QED
        BY <2>2, <3>1, BrokerEffect DEF IInv, Held
    <2>4. sent[c][n] \in {rest[r][n], {}}
      BY <2>3, ValuesAssumption DEF IInv, AwaitedIsSent
    <2>5. row[n] \subseteq Syscalls
      BY DEF IInv, TypeOK, CallsOf, Held
    <2> QED
      BY <2>3, <2>4, <2>5
  <1> QED
    BY <1>1, InitInv, StepInv, PTL DEF Spec, LossNeedsCause
-------------------------------------------------------------------------------
(* Rows, as long as nothing fails.                                         *)

(* No set shrinks: a row is behind what its controller takes for sent,     *)
(* and that behind what the controller has seen.                           *)
NothingShrinks ==
    faults = 0 =>
        /\ late = {}
        /\ \A c \in Controllers : \A n \in Names :
              /\ sent[c][n] \subseteq cache[c][n]
              /\ n \in UnderWay(c) => sent[c][n] # {}
              /\ Alone(c, n) => row[n] \subseteq sent[c][n]

(* A step that is not a fault writes to a row only the set that its        *)
(* controller takes for sent.                                              *)
LEMMA WritesAreSent ==
  ASSUME IInv, NothingShrinks, faults = 0, NEW r \in Requests, RequestStep(r),
         NEW c \in Controllers, NEW n \in Names, Alone(c, n), row'[n] # row[n]
  PROVE  row'[n] = sent[c][n]
  <1>1. n \in Held(rest[r]) /\ row'[n] = rest[r][n] /\ pc[r] # "unused"
    BY BrokerEffect DEF IInv
  <1>2. Attended(r)
    BY <1>1 DEF IInv, StrayIsLate, NothingShrinks
  <1>3. PICK d \in Controllers : waiting[d] = r
    BY <1>2 DEF Attended
  <1>4. d = c
    BY <1>1, <1>3, ValuesAssumption DEF IInv, AwaitedIsSent, Alone
  <1>5. sent[c][n] # {}
    BY <1>1, <1>3, <1>4, ValuesAssumption DEF NothingShrinks, UnderWay
  <1> QED
    BY <1>1, <1>2, <1>5, AloneAwaits DEF IInv

(* It is inductive, next to IInv.                                          *)
LEMMA NothingShrinksStep ==
  ASSUME IInv, NothingShrinks, [Next]_vars
  PROVE  NothingShrinks'
  <1> USE DEF IInv
  <1> SUFFICES ASSUME faults' = 0 PROVE NothingShrinks'
    BY DEF NothingShrinks
  <1>0. ~Fault
    BY DEF Fault, TypeOK
  <1>1. CASE UNCHANGED <<cache, sent, waiting, rest, row, faults, late>>
    BY <1>1 DEF NothingShrinks, UnderWay, Held, Alone
  <1>2. ASSUME NEW c \in Controllers, NEW n \in Names, NEW s \in Syscalls, Note(c, n, s)
        PROVE  NothingShrinks'
    <2>1. UNCHANGED <<sent, waiting, rest, row, faults, late>>
      BY <1>2 DEF Note, requestVars, tableVars
    <2>2. \A d \in Controllers : \A m \in Names : cache[d][m] \subseteq cache'[d][m]
      BY <1>2 DEF Note, TypeOK, CallsOf
    <2> QED
      BY <2>1, <2>2 DEF NothingShrinks, UnderWay, Held, Alone
  <1>3. ASSUME NEW c \in Controllers, NEW r \in Requests, SendBatch(c, r)
        PROVE  NothingShrinks'
    <2>1. /\ UNCHANGED <<cache, row, faults, late>>
          /\ waiting' = [waiting EXCEPT ![c] = r] /\ rest' = [rest EXCEPT ![r] = Items(c)]
          /\ sent' = [sent EXCEPT ![c] =
                        [n \in Names |-> IF n \in Changed(c) THEN cache[c][n] ELSE @[n]]]
      BY <1>3 DEF SendBatch, tableVars
    <2>2. \A d \in Controllers : waiting[d] # r
      BY <1>3, ValuesAssumption DEF SendBatch, TypeOK
    <2>3. \A d \in Controllers : \A n \in Names :
             sent'[d][n] = IF d = c /\ n \in Changed(c) THEN cache[c][n] ELSE sent[d][n]
      BY <2>1 DEF TypeOK
    <2>4. \A d \in Controllers : \A n \in Names :
             sent'[d][n] \subseteq cache[d][n] /\ sent[d][n] \subseteq sent'[d][n]
      BY <2>1, <2>3 DEF NothingShrinks
    <2>5. UnderWay(c)' \subseteq Changed(c)
      BY <2>1, ValuesAssumption DEF UnderWay, Items, Held, TypeOK
    <2>6. \A d \in Controllers : d # c => UnderWay(d)' = UnderWay(d)
      BY <2>1, <2>2 DEF UnderWay, Held, TypeOK
    <2>7. \A d \in Controllers : \A n \in Names : n \in UnderWay(d)' => sent'[d][n] # {}
      BY <2>1, <2>3, <2>5, <2>6 DEF NothingShrinks, Changed, Held
    <2> QED
      BY <2>1, <2>4, <2>7 DEF NothingShrinks, Alone
  <1>4. ASSUME NEW c \in Controllers, Reply(c)
        PROVE  NothingShrinks'
    <2>1. /\ UNCHANGED <<cache, sent, row, faults, late>> /\ waiting[c] \in Requests
          /\ waiting' = [waiting EXCEPT ![c] = NoRequest]
          /\ rest' = [rest EXCEPT ![waiting[c]] = NoCalls]
      BY <1>4 DEF Reply, Frees, tableVars, TypeOK
    <2>2. \A d \in Controllers : UnderWay(d)' \subseteq UnderWay(d)
      BY <2>1 DEF UnderWay, Held, TypeOK
    <2> QED
      BY <2>1, <2>2 DEF NothingShrinks, Alone
  <1>5. ASSUME NEW r \in Requests, RequestStep(r)
        PROVE  NothingShrinks'
    <2>1. UNCHANGED <<cache, sent, waiting, late>>
      BY <1>5, BrokerEffect DEF controllerVars
    <2>2. \A q \in Requests : \A n \in Names : rest'[q][n] \in {rest[q][n], {}}
      BY <1>5, BrokerEffect
    <2>3. \A c \in Controllers : UnderWay(c)' \subseteq UnderWay(c)
      BY <2>1, <2>2 DEF UnderWay, Held, TypeOK
    <2>4. faults = 0
      BY <1>5 DEF RequestStep, Lookup, Update, Insert, InsertPanics, Unheard
    <2>5. \A c \in Controllers : \A n \in Names : Alone(c, n) => row'[n] \subseteq sent[c][n]
      BY <1>5, <2>4, WritesAreSent DEF NothingShrinks
    <2> QED
      BY <2>1, <2>3, <2>4, <2>5 DEF NothingShrinks, Alone
  <1>6. ASSUME NEW c \in Controllers, NEW n \in Names
        PROVE  ~EvictCalls(c, n) /\ ~EvictSent(c, n) /\ ~ConnectionBreaks(c) /\ ~ControllerRestarts(c)
    BY <1>0 DEF EvictCalls, EvictSent, ConnectionBreaks, ControllerRestarts
  <1>7. ASSUME NEW c \in Controllers, ConnectionBreaks(c) \/ ControllerRestarts(c)
        PROVE  FALSE
    BY <1>0, <1>7 DEF ConnectionBreaks, ControllerRestarts
  <1>8. ASSUME NEW r \in Requests, StatementFails(r)
        PROVE  FALSE
    BY <1>0, <1>8 DEF StatementFails
  <1>9. CASE UNCHANGED vars
    BY <1>1, <1>9 DEF vars, controllerVars, requestVars, tableVars
  <1> QED
    BY <1>2, <1>3, <1>4, <1>5, <1>6, <1>7, <1>8, <1>9 DEF Next, Sends

(* As long as nothing fails, the row of a name that pods of one node have  *)
(* loses no call, and a profile made of it later allows what one made of   *)
(* it earlier did: although the row is replaced whole (add.rs), from a     *)
(* cache that is not the table (syscall.rs).                               *)
RowsGrowUntilFault ==
    [][\A c \in Controllers : \A n \in Names :
         faults' = 0 /\ Alone(c, n) => row[n] \subseteq row'[n]]_vars

THEOREM RowsGrowUntilFaultCorrect == Spec => RowsGrowUntilFault
  <1> DEFINE Step == \A c \in Controllers : \A n \in Names :
                        faults' = 0 /\ Alone(c, n) => row[n] \subseteq row'[n]
  <1>1. Init => NothingShrinks
    BY DEF Init, NothingShrinks, NoCalls, UnderWay
  <1>2. IInv /\ NothingShrinks /\ [Next]_vars => NothingShrinks'
    BY NothingShrinksStep
  <1>3. IInv /\ NothingShrinks /\ [Next]_vars => [Step]_vars
    <2> SUFFICES ASSUME IInv, NothingShrinks, Next,
                        NEW c \in Controllers, NEW n \in Names,
                        faults' = 0, Alone(c, n), row'[n] # row[n]
                 PROVE  row[n] \subseteq row'[n]
      OBVIOUS
    <2>1. ~Fault
      BY DEF Fault, IInv, TypeOK
    <2>2. PICK r \in Requests : RequestStep(r)
      BY <2>1 DEF Next, Note, EvictCalls, EvictSent, Sends, SendBatch, Reply, ConnectionBreaks,
         ControllerRestarts, StatementFails, tableVars
    <2>3. faults = 0
      BY <2>2 DEF RequestStep, Lookup, Update, Insert, InsertPanics, Unheard
    <2> QED
      BY <2>2, <2>3, WritesAreSent DEF NothingShrinks
  <1> QED
    BY <1>1, <1>2, <1>3, InitInv, StepInv, PTL DEF Spec, RowsGrowUntilFault
================================================================================

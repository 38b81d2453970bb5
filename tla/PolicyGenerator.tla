---------------------------- MODULE PolicyGenerator ----------------------------
(***************************************************************************)
(* The advisor makes network policies of recorded traffic, for one pod     *)
(* after the other: BatchGenerateAndHandlePolicies and GeneratePolicy      *)
(* (advisor/pkg/network/generator.go) with the generators of standard and  *)
(* Cilium policies, which group traffic in the same way                    *)
(* (standard_policy.go, cilium_policy.go).                                 *)
(*                                                                         *)
(* The broker gives the traffic recorded under the pod's name, in the form *)
(* in which controllers write it, and the pod it knows by the address of   *)
(* the first record. Rules are built record by record. The traffic, the    *)
(* pod and the file may fail, and the batch goes on with the next pod. The *)
(* selector of a peer is left out: every peer gets one, its address if     *)
(* nothing else is found. So are what the generators do with records that  *)
(* no controller writes: an unknown protocol becomes TCP (protocolPtr),    *)
(* and where the first has no address of the pod, GeneratePolicy asks by   *)
(* the peer's.                                                             *)
(***************************************************************************)
EXTENDS Naturals, Sequences

CONSTANTS
    Names,
    Batch,       \* the names of the pods, in the order they are taken
    NoName,
    Flows,       \* what controllers see pods do, see FlowsAssumption
    MaxRecords   \* bound: records of one pod

Directions == {"INGRESS", "EGRESS"}
FlowFields == {"ip", "type", "peer", "port", "proto"}
IsPort(n) == n \in Nat \ {0} /\ n <= 65535

ASSUME BatchAssumption == Batch \in Seq(Names) /\ NoName \notin Names
\* The controller leaves out a pod's traffic with itself.
ASSUME FlowsAssumption ==
    \A f \in Flows : /\ DOMAIN f = FlowFields
                     /\ f.type \in Directions /\ IsPort(f.port) /\ f.peer # f.ip
ASSUME BoundAssumption == MaxRecords \in Nat \ {0}

VARIABLES
    pc,          \* where the generator is
    cur,         \* the pod of the batch it is at, or has last been at
    records,     \* that pod's traffic
    found,       \* the pod that the broker knows by the first record's address
    at,          \* the record whose turn it is
    rules,       \* the rules made so far in each direction
    files,       \* the policy saved for each pod
    firstError,  \* the pod the error that the batch returns is of, 0 if none
    outcome      \* history: how each pod of the batch came out

podVars == <<records, found, at, rules>>
vars == <<pc, cur, podVars, files, firstError, outcome>>

NoRules == [d \in Directions |-> <<>>]
NoFile == [of |-> NoName]
InRange(s) == {s[i] : i \in DOMAIN s}

Init ==
    /\ pc = "next"
    /\ cur = 0
    /\ records = <<>> /\ found = NoName /\ at = 0
    /\ rules = NoRules
    /\ files = [n \in Names |-> NoFile]
    /\ firstError = 0
    /\ outcome = [i \in DOMAIN Batch |-> "none"]

-------------------------------------------------------------------------------
(* Records.                                                                *)

(* process_network_event: the port that is left out is written as 0.       *)
Written(f) ==
    [ip |-> f.ip, type |-> f.type, peer |-> f.peer, proto |-> f.proto,
     podPort |-> IF f.type = "INGRESS" THEN f.port ELSE 0,
     peerPort |-> IF f.type = "EGRESS" THEN f.port ELSE 0]

(* Mutant: the peer's port is read in both directions.                     *)
PeerPort(t) == t.peerPort

PortOf(t) == IF t.type = "INGRESS" THEN t.podPort ELSE t.peerPort

(* The pod's address is the one it was found by, and so that of the first  *)
(* record. parsePort refuses a port out of range.                          *)
Usable(t) == t.peer # records[1].ip /\ IsPort(PortOf(t))

(* Mutant: a port is added without a look at those the peer's rule has.    *)
AppendPort(rs, peer, port) ==
    IF \E i \in DOMAIN rs : rs[i].peer = peer
    THEN LET i == CHOOSE j \in DOMAIN rs : rs[j].peer = peer
         IN  [rs EXCEPT ![i] = [peer |-> peer, ports |-> Append(@.ports, port)]]
    ELSE Append(rs, [peer |-> peer, ports |-> <<port>>])

(* addOrUpdateRule, of both generators. *)
AddOrUpdate(rs, peer, port) ==
    IF \E i \in DOMAIN rs : rs[i].peer = peer
    THEN LET i == CHOOSE j \in DOMAIN rs : /\ rs[j].peer = peer
                                           /\ \A k \in 1 .. (j - 1) : rs[k].peer # peer
         IN  IF port \in InRange(rs[i].ports) THEN rs
             ELSE [rs EXCEPT ![i] = [peer |-> peer, ports |-> Append(@.ports, port)]]
    ELSE Append(rs, [peer |-> peer, ports |-> <<port>>])

-------------------------------------------------------------------------------
(* The batch.                                                              *)

Begin ==
    /\ pc = "next" /\ cur < Len(Batch)
    /\ pc' = "traffic"
    /\ cur' = cur + 1
    /\ UNCHANGED <<podVars, files, firstError, outcome>>

Forgets ==
    /\ records' = <<>> /\ found' = NoName /\ at' = 0
    /\ rules' = NoRules

(* Mutant: the batch returns its last error.                               *)
FailsLast ==
    /\ pc \in {"traffic", "spec", "save"}
    /\ pc' = "next"
    /\ firstError' = cur
    /\ outcome' = [outcome EXCEPT ![cur] = "failed"]
    /\ Forgets
    /\ UNCHANGED <<cur, files>>

(* The traffic or the pod is not found or not answered, or the file cannot *)
(* be written. *)
Fails ==
    /\ pc \in {"traffic", "spec", "save"}
    /\ pc' = "next"
    /\ firstError' = IF firstError = 0 THEN cur ELSE firstError
    /\ outcome' = [outcome EXCEPT ![cur] = "failed"]
    /\ Forgets
    /\ UNCHANGED <<cur, files>>

GetTraffic(s) ==
    /\ pc = "traffic"
    /\ s # <<>>
    /\ records' = [i \in DOMAIN s |-> Written(s[i])]
    /\ pc' = "spec"
    /\ UNCHANGED <<cur, found, at, rules, files, firstError, outcome>>

GetSpec(n) ==
    /\ pc = "spec"
    /\ found' = n
    /\ at' = 1
    /\ pc' = "records"
    /\ UNCHANGED <<cur, records, rules, files, firstError, outcome>>

(* The body of the loop of processTrafficRules. *)
Grouped(t) ==
    IF Usable(t)
    THEN [rules EXCEPT ![t.type] = AddOrUpdate(@, t.peer, <<PortOf(t), t.proto>>)]
    ELSE rules

(* Mutant: the loop does not stop at the last record.                      *)
ProcessOn ==
    /\ pc = "records"
    /\ rules' = Grouped(records[at])
    /\ at' = at + 1
    /\ UNCHANGED <<pc, cur, records, found, files, firstError, outcome>>

Process ==
    /\ pc = "records"
    /\ rules' = Grouped(records[at])
    /\ IF at < Len(records)
       THEN at' = at + 1 /\ UNCHANGED pc
       ELSE pc' = "save" /\ UNCHANGED at
    /\ UNCHANGED <<cur, records, found, files, firstError, outcome>>

(* The rules as the policy has them: the ports of each peer together. *)
Transformed(rs) ==
    {[peer |-> p, ports |-> UNION {InRange(rs[i].ports) : i \in {j \in DOMAIN rs : rs[j].peer = p}}] :
        p \in {rs[i].peer : i \in DOMAIN rs}}

(* The directions that the policy restricts: all, for want of rules. *)
Restricted ==
    IF rules = NoRules THEN Directions ELSE {d \in Directions : rules[d] # <<>>}

(* HandlePolicyOutput: the file has the name of the pod that was found.    *)
Save ==
    /\ pc = "save"
    /\ files' = [files EXCEPT ![found] =
           [of |-> Batch[cur], records |-> records, types |-> Restricted,
            allows |-> [d \in Directions |-> Transformed(rules[d])]]]
    /\ outcome' = [outcome EXCEPT ![cur] = "saved"]
    /\ pc' = "next"
    /\ Forgets
    /\ UNCHANGED <<cur, firstError>>

Snapshots == UNION {[1 .. k -> Flows] : k \in 1 .. MaxRecords}

Next ==
    \/ Begin \/ Fails
    \/ \E s \in Snapshots : GetTraffic(s)
    \/ \E n \in Names : GetSpec(n)
    \/ Process
    \/ Save

Spec == Init /\ [][Next]_vars

-------------------------------------------------------------------------------
(* Properties.                                                             *)

Stages == {"next", "traffic", "spec", "records", "save"}

RecordOf == {Written(f) : f \in Flows}

\* What a peer may do: a port with its protocol.
Access == {<<f.port, f.proto>> : f \in Flows}
Peers == {f.peer : f \in Flows}

Rule == [peer : Peers, ports : Seq(Access)]

File ==
    [of : Names, records : Seq(RecordOf), types : SUBSET Directions,
     allows : [Directions -> SUBSET [peer : Peers, ports : SUBSET Access]]]

TypeOK ==
    /\ pc \in Stages
    /\ cur \in 0 .. Len(Batch) /\ (cur = 0 => pc = "next")
    /\ records \in Seq(RecordOf) /\ Len(records) <= MaxRecords
    /\ pc \in {"spec", "records", "save"} <=> records # <<>>
    /\ found \in Names \cup {NoName}
    /\ pc \in {"records", "save"} <=> found # NoName
    /\ at \in 0 .. Len(records) /\ (at = 0 <=> found = NoName)
    /\ rules \in [Directions -> Seq(Rule)]
    /\ files \in [Names -> {NoFile} \cup File]
    /\ firstError \in 0 .. cur
    /\ outcome \in [DOMAIN Batch -> {"none", "saved", "failed"}]

Merged(rs) ==
    /\ \A i, j \in DOMAIN rs : rs[i].peer = rs[j].peer => i = j
    /\ \A i \in DOMAIN rs : \A k, m \in DOMAIN rs[i].ports :
           rs[i].ports[k] = rs[i].ports[m] => k = m

(* There is one rule for each peer, with each of its ports once: Cilium's  *)
(* ports are put in the policy as they are.                                *)
RulesAreMerged == \A d \in Directions : Merged(rules[d])

Needed(recs, d) ==
    {<<f.peer, <<f.port, f.proto>>>> :
        f \in {g \in Flows : g.type = d /\ g.peer # recs[1].ip /\ Written(g) \in InRange(recs)}}

Allowed(file, d) == UNION {{<<r.peer, a>> : a \in r.ports} : r \in file.allows[d]}

(* A policy allows what its pod was seen to do, in either direction, and   *)
(* nothing else: whatever the order of the records and whichever port the  *)
(* controller left out. It restricts the directions in which it allows     *)
(* something, or both if it allows nothing.                                *)
PolicyIsOfTraffic ==
    \A n \in Names :
        LET file == files[n]
            needs == {d \in Directions : Needed(file.records, d) # {}}
        IN  file # NoFile =>
                /\ \A d \in Directions : Allowed(file, d) = Needed(file.records, d)
                /\ file.types = IF needs = {} THEN Directions ELSE needs

(* Every pod of the batch that has been passed came out one way or the     *)
(* other, and the error that the batch returns is that of the first pod    *)
(* that failed: there is none only if no pod failed.                       *)
FirstErrorIsKept ==
    /\ \A i \in DOMAIN Batch :
           outcome[i] = "none" <=> i > cur \/ (i = cur /\ pc # "next")
    /\ IF firstError = 0
       THEN \A i \in DOMAIN Batch : outcome[i] # "failed"
       ELSE /\ outcome[firstError] = "failed"
            /\ \A i \in 1 .. (firstError - 1) : outcome[i] = "saved"
================================================================================

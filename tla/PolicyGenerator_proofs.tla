------------------------ MODULE PolicyGenerator_proofs ------------------------
(***************************************************************************)
(* Proofs about PolicyGenerator, for any flows, names and batch: policies  *)
(* allow exactly what was recorded.                                        *)
(***************************************************************************)
EXTENDS PolicyGenerator, TLAPS


-------------------------------------------------------------------------------
(* Rules.                                                                  *)

(* What the rules of a direction say of a peer and an access.              *)
Lets(rs, peer, a) == \E i \in DOMAIN rs : rs[i].peer = peer /\ a \in InRange(rs[i].ports)

LEMMA AppendedPort ==
  ASSUME NEW S, NEW s \in Seq(S), NEW a \in S
  PROVE  /\ Append(s, a) \in Seq(S)
         /\ InRange(Append(s, a)) = InRange(s) \cup {a}
         /\ DOMAIN Append(s, a) = 1 .. (Len(s) + 1)
         /\ \A i \in 1 .. Len(s) : Append(s, a)[i] = s[i]
         /\ Append(s, a)[Len(s) + 1] = a
  BY DEF InRange

(* addOrUpdateRule keeps one rule for each peer and each port once, and    *)
(* lets the peer do what it did and what is added.                         *)
LEMMA AddOrUpdateMerges ==
  ASSUME NEW rs \in Seq(Rule), Merged(rs), NEW peer \in Peers, NEW port \in Access
  PROVE  /\ AddOrUpdate(rs, peer, port) \in Seq(Rule)
         /\ Merged(AddOrUpdate(rs, peer, port))
         /\ AddOrUpdate(rs, peer, port) # <<>>
         /\ \A p, a : Lets(AddOrUpdate(rs, peer, port), p, a)
                        <=> Lets(rs, p, a) \/ (p = peer /\ a = port)
  <1> DEFINE new == AddOrUpdate(rs, peer, port)
  <1>1. CASE \E i \in DOMAIN rs : rs[i].peer = peer
    <2> DEFINE i == CHOOSE j \in DOMAIN rs : /\ rs[j].peer = peer
                                             /\ \A k \in 1 .. (j - 1) : rs[k].peer # peer
    <2>1. i \in DOMAIN rs /\ rs[i].peer = peer
      <3>1. PICK j \in DOMAIN rs : rs[j].peer = peer
        BY <1>1
      <3>2. \A k \in 1 .. (j - 1) : rs[k].peer # peer
        BY <3>1 DEF Merged
      <3> QED
        BY <3>1, <3>2
    <2>2. new = IF port \in InRange(rs[i].ports) THEN rs
              ELSE [rs EXCEPT ![i] = [peer |-> peer, ports |-> Append(@.ports, port)]]
      BY <1>1 DEF AddOrUpdate
    <2> HIDE DEF i, new
    <2>3. CASE port \in InRange(rs[i].ports)
      <3>1. new = rs /\ rs # <<>>
        BY <2>1, <2>2, <2>3
      <3>2. \A p, a : p = peer /\ a = port => Lets(rs, p, a)
        BY <2>1, <2>3 DEF Lets
      <3> QED
        BY <3>1, <3>2 DEF new
    <2>4. CASE port \notin InRange(rs[i].ports)
      <3> DEFINE r == [peer |-> peer, ports |-> Append(rs[i].ports, port)]
      <3>1. rs[i] \in Rule /\ rs[i].ports \in Seq(Access)
        <4>1. rs[i] \in Rule
          BY <2>1
        <4> QED
          BY <4>1 DEF Rule
      <3>2. r \in Rule /\ r.peer = peer
        BY <3>1, AppendedPort DEF Rule
      <3>3. new = [rs EXCEPT ![i] = r]
        BY <2>2, <2>4
      <3>4. /\ InRange(r.ports) = InRange(rs[i].ports) \cup {port}
            /\ DOMAIN r.ports = 1 .. (Len(rs[i].ports) + 1)
            /\ \A k \in 1 .. Len(rs[i].ports) : r.ports[k] = rs[i].ports[k]
            /\ r.ports[Len(rs[i].ports) + 1] = port
        BY <3>1, AppendedPort
      <3> HIDE DEF r
      <3>5. /\ new \in Seq(Rule) /\ DOMAIN new = DOMAIN rs /\ new[i] = r
            /\ \A j \in DOMAIN rs : j # i => new[j] = rs[j]
            /\ \A j \in DOMAIN rs : new[j].peer = rs[j].peer
        BY <2>1, <3>2, <3>3
      <3>6. \A k, m \in DOMAIN r.ports : r.ports[k] = r.ports[m] => k = m
        <4>1. \A k \in 1 .. Len(rs[i].ports) : rs[i].ports[k] # port
          BY <2>4, <3>1 DEF InRange
        <4>2. \A k, m \in 1 .. Len(rs[i].ports) : rs[i].ports[k] = rs[i].ports[m] => k = m
          BY <2>1, <3>1 DEF Merged
        <4>3. Len(rs[i].ports) \in Nat
          BY <3>1
        <4>4. \A k \in DOMAIN r.ports : k \in 1 .. Len(rs[i].ports) \/ k = Len(rs[i].ports) + 1
          BY <3>4, <4>3
        <4>5. \A k \in 1 .. Len(rs[i].ports) : r.ports[k] # port
          BY <3>4, <4>1
        <4> SUFFICES ASSUME NEW k \in DOMAIN r.ports, NEW m \in DOMAIN r.ports, r.ports[k] = r.ports[m]
                     PROVE k = m
          OBVIOUS
        <4>6. CASE k \in 1 .. Len(rs[i].ports) /\ m \in 1 .. Len(rs[i].ports)
          BY <3>4, <4>2, <4>6
        <4> QED
          BY <3>4, <4>4, <4>5, <4>6
      <3>7. Merged(new)
        BY <3>5, <3>6 DEF Merged
      <3>8. \A p, a : Lets(new, p, a) <=> Lets(rs, p, a) \/ (p = peer /\ a = port)
        <4> TAKE p, a
        <4>1. \A j \in DOMAIN rs : j # i => InRange(new[j].ports) = InRange(rs[j].ports)
          BY <3>5
        <4>2. InRange(new[i].ports) = InRange(rs[i].ports) \cup {port}
          BY <3>4, <3>5
        <4> QED
          BY <2>1, <3>5, <4>1, <4>2 DEF Lets
      <3> QED
        BY <2>1, <3>5, <3>7, <3>8 DEF new
    <2> QED
      BY <2>3, <2>4
  <1>2. CASE ~ \E i \in DOMAIN rs : rs[i].peer = peer
    <2> DEFINE r == [peer |-> peer, ports |-> <<port>>]
    <2>1. new = Append(rs, r)
      BY <1>2 DEF AddOrUpdate
    <2>2. r \in Rule /\ r.peer = peer /\ r.ports = <<port>>
      BY DEF Rule
    <2> HIDE DEF r, new
    <2>3. /\ new \in Seq(Rule) /\ DOMAIN new = 1 .. (Len(rs) + 1)
          /\ \A i \in 1 .. Len(rs) : new[i] = rs[i]
          /\ new[Len(rs) + 1] = r
      BY <2>1, <2>2, AppendedPort
    <2>4. DOMAIN rs = 1 .. Len(rs)
      OBVIOUS
    <2>5. Merged(new)
      BY <1>2, <2>2, <2>3, <2>4 DEF Merged
    <2>6. InRange(r.ports) = {port}
      BY <2>2 DEF InRange
    <2>7. \A p, a : Lets(new, p, a) <=> Lets(rs, p, a) \/ (p = peer /\ a = port)
      BY <2>2, <2>3, <2>4, <2>6 DEF Lets
    <2> QED
      BY <2>3, <2>5, <2>7 DEF new
  <1> QED
    BY <1>1, <1>2

(* A record says of its flow what the generators read, whichever port the  *)
(* controller left out.                                                    *)
LEMMA WrittenTells ==
  ASSUME NEW f \in Flows
  PROVE  /\ Written(f) \in RecordOf
         /\ Written(f).ip = f.ip /\ Written(f).type = f.type /\ f.type \in Directions
         /\ Written(f).peer = f.peer /\ Written(f).proto = f.proto
         /\ PortOf(Written(f)) = f.port /\ IsPort(f.port)
         /\ f.peer \in Peers /\ <<f.port, f.proto>> \in Access
  BY FlowsAssumption DEF Written, PortOf, RecordOf, Peers, Access, Directions

LEMMA RecordTells ==
  ASSUME NEW t \in RecordOf
  PROVE  /\ t.type \in Directions /\ t.peer \in Peers
         /\ <<PortOf(t), t.proto>> \in Access /\ IsPort(PortOf(t))
  BY WrittenTells DEF RecordOf

(* What the policy has is what the rules say.                              *)
LEMMA TransformedLets ==
  ASSUME NEW rs \in Seq(Rule)
  PROVE  /\ Transformed(rs) \subseteq [peer : Peers, ports : SUBSET Access]
         /\ \A p, a : (\E r \in Transformed(rs) : r.peer = p /\ a \in r.ports) <=> Lets(rs, p, a)
  <1> DEFINE ports(p) == UNION {InRange(rs[i].ports) : i \in {j \in DOMAIN rs : rs[j].peer = p}}
             peers == {rs[i].peer : i \in DOMAIN rs}
  <1>0. \A i \in DOMAIN rs : rs[i] \in Rule
    OBVIOUS
  <1>1. \A i \in DOMAIN rs : rs[i].peer \in Peers /\ rs[i].ports \in Seq(Access)
    BY <1>0 DEF Rule
  <1>2. \A i \in DOMAIN rs : InRange(rs[i].ports) \subseteq Access
    BY <1>1 DEF InRange
  <1>3. \A p : ports(p) \in SUBSET Access
    BY <1>2
  <1>4. \A p, a : a \in ports(p) <=> Lets(rs, p, a)
    BY DEF Lets
  <1>5. Transformed(rs) = {[peer |-> p, ports |-> ports(p)] : p \in peers}
    BY DEF Transformed
  <1>6. peers \subseteq Peers
    BY <1>1
  <1>7. \A p, a : Lets(rs, p, a) => p \in peers
    BY DEF Lets
  <1> HIDE DEF ports, peers
  <1>8. Transformed(rs) \subseteq [peer : Peers, ports : SUBSET Access]
    BY <1>3, <1>5, <1>6
  <1>9. \A p, a : (\E r \in Transformed(rs) : r.peer = p /\ a \in r.ports) <=> p \in peers /\ a \in ports(p)
    <2> TAKE p, a
    <2>1. ASSUME NEW r \in Transformed(rs), r.peer = p, a \in r.ports
          PROVE p \in peers /\ a \in ports(p)
      <3>1. PICK q \in peers : r = [peer |-> q, ports |-> ports(q)]
        BY <1>5
      <3>2. r.peer = q /\ r.ports = ports(q)
        BY <3>1
      <3> QED
        BY <2>1, <3>2
    <2>2. ASSUME p \in peers, a \in ports(p)
          PROVE \E r \in Transformed(rs) : r.peer = p /\ a \in r.ports
      <3> DEFINE r == [peer |-> p, ports |-> ports(p)]
      <3>1. r \in Transformed(rs) /\ r.peer = p /\ r.ports = ports(p)
        BY <1>5, <2>2
      <3> QED
        BY <2>2, <3>1
    <2> QED
      BY <2>1, <2>2
  <1> QED
    BY <1>4, <1>7, <1>8, <1>9

-------------------------------------------------------------------------------
(* Types.                                                                  *)

LEMMA InitTypes == Init => TypeOK
  <1> SUFFICES ASSUME Init PROVE TypeOK
    OBVIOUS
  <1>1. Len(Batch) \in Nat /\ NoName \notin Names
    BY BatchAssumption
  <1>2. records \in Seq(RecordOf) /\ Len(records) = 0 /\ 0 <= MaxRecords
    BY BoundAssumption DEF Init
  <1>3. rules \in [Directions -> Seq(Rule)]
    BY DEF Init, NoRules
  <1>4. files \in [Names -> {NoFile} \cup File]
    BY DEF Init
  <1>5. outcome \in [DOMAIN Batch -> {"none", "saved", "failed"}]
    BY DEF Init
  <1> QED
    BY <1>1, <1>2, <1>3, <1>4, <1>5 DEF Init, TypeOK, Stages

LEMMA GroupedTypes ==
  ASSUME TypeOK, RulesAreMerged, pc = "records"
  PROVE  /\ records[at] \in RecordOf /\ at \in DOMAIN records /\ Len(records) \in Nat
         /\ Grouped(records[at]) \in [Directions -> Seq(Rule)]
         /\ \A d \in Directions : Merged(Grouped(records[at])[d])
  <1>1. at \in DOMAIN records /\ records[at] \in RecordOf /\ Len(records) \in Nat
    BY DEF TypeOK
  <1> DEFINE t == records[at]
  <1>2. /\ t.type \in Directions /\ t.peer \in Peers /\ <<PortOf(t), t.proto>> \in Access
    BY <1>1, RecordTells
  <1>3. rules[t.type] \in Seq(Rule) /\ Merged(rules[t.type])
    BY <1>2 DEF TypeOK, RulesAreMerged
  <1> DEFINE new == AddOrUpdate(rules[t.type], t.peer, <<PortOf(t), t.proto>>)
  <1>4. new \in Seq(Rule) /\ Merged(new)
    BY <1>2, <1>3, AddOrUpdateMerges
  <1>5. Grouped(t) = rules \/ Grouped(t) = [rules EXCEPT ![t.type] = new]
    BY DEF Grouped
  <1> HIDE DEF new, t
  <1>6. /\ Grouped(t) \in [Directions -> Seq(Rule)]
        /\ \A d \in Directions : Merged(Grouped(t)[d])
    BY <1>2, <1>4, <1>5 DEF TypeOK, RulesAreMerged
  <1> QED
    BY <1>1, <1>6 DEF t

LEMMA ForgetsTypes ==
  ASSUME Forgets
  PROVE  /\ records' \in Seq(RecordOf) /\ records' = <<>> /\ Len(records') = 0
         /\ found' = NoName /\ at' = 0 /\ at' \in 0 .. Len(records')
         /\ rules' = NoRules /\ NoRules \in [Directions -> Seq(Rule)]
         /\ \A d \in Directions : Merged(NoRules[d])
  BY DEF Forgets, NoRules, Merged

(* Steps keep the types and merge rules. *)
LEMMA TypeStep ==
  ASSUME TypeOK, RulesAreMerged, [Next]_vars
  PROVE  TypeOK' /\ RulesAreMerged'
  <1> USE BatchAssumption, BoundAssumption
  <1>1. CASE Begin
    BY <1>1 DEF Begin, podVars, TypeOK, RulesAreMerged, Stages
  <1>2. CASE Fails
    <2>0. pc # "next" /\ Len(Batch) \in Nat /\ DOMAIN Batch = 1 .. Len(Batch)
      BY <1>2 DEF Fails
    <2>1. cur \in 1 .. Len(Batch) /\ Len(Batch) \in Nat /\ DOMAIN Batch = 1 .. Len(Batch)
      BY <2>0 DEF TypeOK
    <2>2. /\ pc' = "next" /\ cur' = cur /\ files' = files /\ firstError' \in 0 .. cur
          /\ outcome' \in [DOMAIN Batch -> {"none", "saved", "failed"}]
      BY <1>2, <2>1 DEF Fails, TypeOK
    <2>3. Forgets
      BY <1>2 DEF Fails
    <2> QED
      BY <2>1, <2>2, <2>3, ForgetsTypes DEF TypeOK, RulesAreMerged, Stages
  <1>3. ASSUME NEW s \in Snapshots, GetTraffic(s) PROVE TypeOK' /\ RulesAreMerged'
    <2>1. PICK k \in 1 .. MaxRecords : s \in [1 .. k -> Flows]
      BY DEF Snapshots
    <2>2. /\ records' \in Seq(RecordOf) /\ Len(records') = k /\ records' # <<>>
      <3>1. records' = [i \in 1 .. k |-> Written(s[i])] /\ k \in Nat \ {0}
        BY <1>3, <2>1 DEF GetTraffic
      <3>2. \A i \in 1 .. k : Written(s[i]) \in RecordOf
        BY <2>1 DEF RecordOf
      <3> HIDE DEF GetTraffic
      <3> QED
        BY <3>1, <3>2
    <2>3. found = NoName /\ at = 0
      BY <1>3 DEF GetTraffic, TypeOK
    <2> QED
      BY <1>3, <2>1, <2>2, <2>3 DEF GetTraffic, TypeOK, RulesAreMerged, Stages
  <1>4. ASSUME NEW n \in Names, GetSpec(n) PROVE TypeOK' /\ RulesAreMerged'
    BY <1>4 DEF GetSpec, TypeOK, RulesAreMerged, Stages
  <1>5. CASE Process
    <2>1. /\ at \in DOMAIN records /\ Len(records) \in Nat
          /\ rules' \in [Directions -> Seq(Rule)]
          /\ \A d \in Directions : Merged(rules'[d])
      BY <1>5, GroupedTypes DEF Process
    <2> QED
      BY <1>5, <2>1 DEF Process, TypeOK, RulesAreMerged, Stages
  <1>6. CASE Save
    <2>0. pc # "next" /\ Len(Batch) \in Nat /\ DOMAIN Batch = 1 .. Len(Batch)
      BY <1>6 DEF Save
    <2>1. cur \in 1 .. Len(Batch) /\ Len(Batch) \in Nat /\ DOMAIN Batch = 1 .. Len(Batch)
      BY <2>0 DEF TypeOK
    <2> DEFINE file == [of |-> Batch[cur], records |-> records, types |-> Restricted,
                        allows |-> [d \in Directions |-> Transformed(rules[d])]]
    <2>2. Restricted \in SUBSET Directions
      BY DEF Restricted
    <2>3. \A d \in Directions : Transformed(rules[d]) \in SUBSET [peer : Peers, ports : SUBSET Access]
      BY TransformedLets DEF TypeOK
    <2>4. Batch[cur] \in Names /\ records \in Seq(RecordOf)
      BY <2>1 DEF TypeOK
    <2>5. file \in File
      BY <2>2, <2>3, <2>4 DEF File
    <2>6. files' = [files EXCEPT ![found] = file]
      BY <1>6 DEF Save
    <2> HIDE DEF file
    <2>7. files' \in [Names -> {NoFile} \cup File]
      BY <2>5, <2>6 DEF TypeOK
    <2>8. /\ pc' = "next" /\ cur' = cur /\ firstError' = firstError /\ Forgets
          /\ outcome' \in [DOMAIN Batch -> {"none", "saved", "failed"}]
      BY <1>6, <2>1 DEF Save, TypeOK
    <2> QED
      BY <2>1, <2>7, <2>8, ForgetsTypes DEF TypeOK, RulesAreMerged, Stages
  <1>7. CASE UNCHANGED vars
    BY <1>7 DEF vars, podVars, TypeOK, RulesAreMerged
  <1> QED
    BY <1>1, <1>2, <1>3, <1>4, <1>5, <1>6, <1>7 DEF Next

LEMMA InitMerged == Init => RulesAreMerged
  BY DEF Init, RulesAreMerged, NoRules, Merged

(* Every variable keeps its type: where the generator is tells what it has *)
(* read, and the rules and files are made of recorded peers and ports.     *)
THEOREM TypeCorrect == Spec => []TypeOK
  <1>1. Init => TypeOK /\ RulesAreMerged
    BY InitTypes, InitMerged
  <1>2. TypeOK /\ RulesAreMerged /\ [Next]_vars => (TypeOK /\ RulesAreMerged)'
    BY TypeStep
  <1> QED
    BY <1>1, <1>2, PTL DEF Spec

(* addOrUpdateRule never makes a second rule for a peer, nor gives a rule  *)
(* one port twice, for any traffic.                                        *)
THEOREM RulesAreMergedCorrect == Spec => []RulesAreMerged
  <1>1. Init => TypeOK /\ RulesAreMerged
    BY InitTypes, InitMerged
  <1>2. TypeOK /\ RulesAreMerged /\ [Next]_vars => (TypeOK /\ RulesAreMerged)'
    BY TypeStep
  <1> QED
    BY <1>1, <1>2, PTL DEF Spec

-------------------------------------------------------------------------------
(* Policies.                                                               *)

Counted == {i \in DOMAIN records : pc = "save" \/ i < at}

Gives(t, d, p, a) ==
    t.type = d /\ Usable(t) /\ p = t.peer /\ a = <<PortOf(t), t.proto>>

(* The rules say what the records that have had their turn say. *)
RulesSoFar ==
    /\ pc \notin {"records", "save"} => rules = NoRules
    /\ pc \in {"records", "save"} =>
           \A d \in Directions :
               /\ \A p, a : Lets(rules[d], p, a) <=> \E i \in Counted : Gives(records[i], d, p, a)
               /\ rules[d] # <<>> => \E p, a : Lets(rules[d], p, a)

LEMMA EmptyLets == \A p, a : ~Lets(<<>>, p, a)
  BY DEF Lets

(* What a record adds to the rules. *)
LEMMA GroupedLets ==
  ASSUME TypeOK, RulesAreMerged, pc = "records", NEW d \in Directions
  PROVE  LET t == records[at]
             new == Grouped(t)[d]
         IN  /\ \A p, a : Lets(new, p, a) <=> Lets(rules[d], p, a) \/ Gives(t, d, p, a)
             /\ new # <<>> => rules[d] # <<>> \/ \E p, a : Lets(new, p, a)
  <1> DEFINE t == records[at]
             made == AddOrUpdate(rules[t.type], t.peer, <<PortOf(t), t.proto>>)
  <1>1. t \in RecordOf
    BY GroupedTypes
  <1>2. /\ t.type \in Directions /\ t.peer \in Peers /\ <<PortOf(t), t.proto>> \in Access
    BY <1>1, RecordTells
  <1>3. rules[t.type] \in Seq(Rule) /\ Merged(rules[t.type])
    BY <1>2 DEF TypeOK, RulesAreMerged
  <1>4. \A p, a : Lets(made, p, a) <=> Lets(rules[t.type], p, a) \/ (p = t.peer /\ a = <<PortOf(t), t.proto>>)
    BY <1>2, <1>3, AddOrUpdateMerges
  <1>5. CASE ~Usable(t)
    BY <1>5 DEF Grouped, Gives
  <1>6. CASE Usable(t)
    <2>1. Grouped(t) = [rules EXCEPT ![t.type] = made]
      BY <1>6 DEF Grouped
    <2> HIDE DEF made, t
    <2>2. CASE d = t.type
      <3>1. Grouped(t)[d] = made
        BY <2>1, <2>2 DEF TypeOK
      <3>2. \A p, a : Gives(t, d, p, a) <=> p = t.peer /\ a = <<PortOf(t), t.proto>>
        BY <1>6, <2>2 DEF Gives
      <3> QED
        BY <1>4, <2>2, <3>1, <3>2 DEF t
    <2>3. CASE d # t.type
      <3>1. Grouped(t)[d] = rules[d]
        BY <2>1, <2>3 DEF TypeOK
      <3>2. \A p, a : ~Gives(t, d, p, a)
        BY <2>3 DEF Gives
      <3> QED
        BY <3>1, <3>2 DEF t
    <2> QED
      BY <2>2, <2>3
  <1> QED
    BY <1>5, <1>6

LEMMA RulesStep ==
  ASSUME TypeOK, RulesAreMerged, RulesSoFar, [Next]_vars
  PROVE  RulesSoFar'
  <1>1. CASE Begin \/ \E s \in Snapshots : GetTraffic(s)
    BY <1>1 DEF Begin, GetTraffic, podVars, RulesSoFar
  <1>2. CASE Fails \/ Save
    BY <1>2 DEF Fails, Save, Forgets, RulesSoFar, NoRules
  <1>3. ASSUME NEW n \in Names, GetSpec(n) PROVE RulesSoFar'
    <2>1. /\ rules' = NoRules /\ pc' = "records" /\ at' = 1 /\ records' = records
      BY <1>3 DEF GetSpec, RulesSoFar
    <2>2. Counted' = {}
      BY <2>1 DEF Counted, TypeOK
    <2>3. \A d \in Directions : rules'[d] = <<>>
      BY <2>1 DEF NoRules
    <2> QED
      BY <2>1, <2>2, <2>3, EmptyLets DEF RulesSoFar
  <1>4. CASE Process
    <2>1. /\ pc = "records" /\ pc' \in {"records", "save"} /\ records' = records
          /\ rules' = Grouped(records[at])
          /\ at \in DOMAIN records
      BY <1>4, GroupedTypes DEF Process
    <2>2. Counted' = Counted \cup {at}
      <3>1. DOMAIN records = 1 .. Len(records) /\ Len(records) \in Nat
        BY DEF TypeOK
      <3>2. CASE at < Len(records)
        <4>1. at' = at + 1 /\ pc' = "records"
          BY <1>4, <2>1, <3>2 DEF Process
        <4> QED
          BY <2>1, <3>1, <4>1 DEF Counted
      <3>3. CASE ~(at < Len(records))
        <4>1. pc' = "save" /\ at = Len(records)
          BY <1>4, <2>1, <3>1, <3>3 DEF Process
        <4> QED
          BY <2>1, <3>1, <4>1 DEF Counted
      <3> QED
        BY <3>2, <3>3
    <2> SUFFICES ASSUME NEW d \in Directions
                 PROVE /\ \A p, a : Lets(rules'[d], p, a) <=> \E i \in Counted' : Gives(records[i], d, p, a)'
                       /\ rules'[d] # <<>> => \E p, a : Lets(rules'[d], p, a)
      BY <2>1 DEF RulesSoFar, Lets, InRange
    <2>4. /\ \A p, a : Lets(rules'[d], p, a) <=> Lets(rules[d], p, a) \/ Gives(records[at], d, p, a)
          /\ rules'[d] # <<>> => rules[d] # <<>> \/ \E p, a : Lets(rules'[d], p, a)
      BY <2>1, GroupedLets
    <2>5. \A p, a : Lets(rules[d], p, a) <=> \E i \in Counted : Gives(records[i], d, p, a)
      BY <2>1 DEF RulesSoFar
    <2>6. rules[d] # <<>> => \E p, a : Lets(rules[d], p, a)
      BY <2>1 DEF RulesSoFar
    <2>7. \A p, a : Lets(rules'[d], p, a) <=> \E i \in Counted' : Gives(records[i], d, p, a)'
      <3> TAKE p, a
      <3>1. \A i : Gives(records[i], d, p, a)' <=> Gives(records[i], d, p, a)
        BY <2>1 DEF Gives, Usable, PortOf
      <3>2. (\E i \in Counted' : Gives(records[i], d, p, a))
                <=> (\E i \in Counted : Gives(records[i], d, p, a)) \/ Gives(records[at], d, p, a)
        BY <2>2
      <3> QED
        BY <2>4, <2>5, <3>1, <3>2
    <2> QED
      BY <2>4, <2>6, <2>7
  <1>5. CASE UNCHANGED vars
    BY <1>5 DEF vars, podVars, RulesSoFar, Counted, Gives, Usable, Lets, InRange
  <1> QED
    BY <1>1, <1>2, <1>3, <1>4, <1>5 DEF Next

(* What the records of a pod give is what is needed of its flows. *)
LEMMA NeededGives ==
  ASSUME TypeOK, NEW d \in Directions
  PROVE  \A p, a : <<p, a>> \in Needed(records, d) <=> \E i \in DOMAIN records : Gives(records[i], d, p, a)
  <1> TAKE p, a
  <1>1. ASSUME <<p, a>> \in Needed(records, d)
        PROVE \E i \in DOMAIN records : Gives(records[i], d, p, a)
    <2>1. PICK f \in Flows : /\ p = f.peer /\ a = <<f.port, f.proto>> /\ f.type = d
                             /\ f.peer # records[1].ip /\ Written(f) \in InRange(records)
      BY <1>1 DEF Needed
    <2>2. PICK i \in DOMAIN records : records[i] = Written(f)
      BY <2>1 DEF InRange
    <2> QED
      BY <2>1, <2>2, WrittenTells DEF Gives, Usable
  <1>2. ASSUME NEW i \in DOMAIN records, Gives(records[i], d, p, a)
        PROVE <<p, a>> \in Needed(records, d)
    <2>1. PICK f \in Flows : records[i] = Written(f)
      BY DEF TypeOK, RecordOf
    <2>2. /\ f.type = d /\ f.peer = p /\ a = <<f.port, f.proto>> /\ f.peer # records[1].ip
      BY <1>2, <2>1, WrittenTells DEF Gives, Usable
    <2>3. Written(f) \in InRange(records)
      BY <2>1 DEF InRange
    <2> QED
      BY <2>2, <2>3 DEF Needed
  <1> QED
    BY <1>1, <1>2

PolicyFits(file) ==
    LET needs == {d \in Directions : Needed(file.records, d) # {}}
    IN  /\ \A d \in Directions : Allowed(file, d) = Needed(file.records, d)
        /\ file.types = IF needs = {} THEN Directions ELSE needs

LEMMA SavedFits ==
  ASSUME TypeOK, RulesSoFar, pc = "save"
  PROVE  PolicyFits([of |-> Batch[cur], records |-> records, types |-> Restricted,
                     allows |-> [d \in Directions |-> Transformed(rules[d])]])
  <1> DEFINE file == [of |-> Batch[cur], records |-> records, types |-> Restricted,
                      allows |-> [d \in Directions |-> Transformed(rules[d])]]
  <1>1. Counted = DOMAIN records
    BY DEF Counted
  <1>2. ASSUME NEW d \in Directions
        PROVE \A p, a : Lets(rules[d], p, a) <=> <<p, a>> \in Needed(records, d)
    BY <1>1, NeededGives DEF RulesSoFar
  <1>3. ASSUME NEW d \in Directions
        PROVE Allowed(file, d) = Needed(records, d)
    <2>1. rules[d] \in Seq(Rule)
      BY DEF TypeOK
    <2>2. \A x : x \in Allowed(file, d) <=> \E r \in Transformed(rules[d]) : \E a \in r.ports : x = <<r.peer, a>>
      BY DEF Allowed
    <2>3. \A x \in Needed(records, d) : \E p, a : x = <<p, a>>
      BY DEF Needed
    <2>4. \A p, a : (\E r \in Transformed(rules[d]) : r.peer = p /\ a \in r.ports) <=> Lets(rules[d], p, a)
      BY <2>1, TransformedLets
    <2>5. Allowed(file, d) \subseteq Needed(records, d)
      BY <1>2, <2>2, <2>4
    <2>6. ASSUME NEW x \in Needed(records, d) PROVE x \in Allowed(file, d)
      <3>1. PICK p, a : x = <<p, a>>
        BY <2>3
      <3>2. PICK r \in Transformed(rules[d]) : r.peer = p /\ a \in r.ports
        BY <1>2, <2>4, <3>1
      <3> QED
        BY <2>2, <3>1, <3>2
    <2> QED
      BY <2>5, <2>6
  <1>4. ASSUME NEW d \in Directions
        PROVE rules[d] # <<>> <=> Needed(records, d) # {}
    <2>1. rules[d] # <<>> => \E p, a : Lets(rules[d], p, a)
      BY DEF RulesSoFar
    <2>2. \A x \in Needed(records, d) : \E p, a : x = <<p, a>>
      BY DEF Needed
    <2> QED
      <3>1. ASSUME rules[d] # <<>> PROVE Needed(records, d) # {}
        BY <1>2, <2>1, <3>1
      <3>2. ASSUME NEW x \in Needed(records, d) PROVE rules[d] # <<>>
        <4>1. PICK p, a : x = <<p, a>>
          BY <2>2
        <4>2. Lets(rules[d], p, a)
          BY <1>2, <4>1
        <4> QED
          BY <4>2 DEF Lets
      <3> QED
        BY <3>1, <3>2
  <1>5. rules = NoRules <=> \A d \in Directions : rules[d] = <<>>
    BY DEF TypeOK, NoRules
  <1>6. Restricted = LET needs == {d \in Directions : Needed(records, d) # {}}
                     IN  IF needs = {} THEN Directions ELSE needs
    BY <1>4, <1>5 DEF Restricted
  <1>7. file.records = records /\ file.types = Restricted
    OBVIOUS
  <1> HIDE DEF file
  <1>8. PolicyFits(file)
    BY <1>3, <1>6, <1>7 DEF PolicyFits
  <1> QED
    BY <1>8 DEF file

LEMMA FitsIsOfTraffic == PolicyIsOfTraffic <=> \A n \in Names : files[n] # NoFile => PolicyFits(files[n])
  BY DEF PolicyIsOfTraffic, PolicyFits

LEMMA PolicyStep ==
  ASSUME TypeOK, RulesSoFar, PolicyIsOfTraffic, [Next]_vars
  PROVE  PolicyIsOfTraffic'
  <1>1. CASE UNCHANGED files
    BY <1>1 DEF PolicyIsOfTraffic
  <1>2. CASE Save
    <2> DEFINE file == [of |-> Batch[cur], records |-> records, types |-> Restricted,
                        allows |-> [d \in Directions |-> Transformed(rules[d])]]
    <2>1. PolicyFits(file)
      BY <1>2, SavedFits DEF Save
    <2>2. files' = [files EXCEPT ![found] = file]
      BY <1>2 DEF Save
    <2> HIDE DEF file
    <2>3. \A n \in Names : files'[n] = files[n] \/ files'[n] = file
      BY <2>2 DEF TypeOK
    <2>4. \A n \in Names : files'[n] # NoFile => PolicyFits(files'[n])
      BY <2>1, <2>3, FitsIsOfTraffic
    <2> QED
      BY <2>4 DEF PolicyIsOfTraffic, PolicyFits
  <1> QED
    BY <1>1, <1>2 DEF Next, Begin, Fails, GetTraffic, GetSpec, Process, vars

(* Every policy that is saved allows exactly what was recorded of the pod, *)
(* for any flows and any order of the records.                             *)
THEOREM PolicyIsOfTrafficCorrect == Spec => []PolicyIsOfTraffic
  <1>1. Init => TypeOK /\ RulesAreMerged /\ RulesSoFar /\ PolicyIsOfTraffic
    <2>1. Init => RulesSoFar /\ PolicyIsOfTraffic
      BY DEF Init, RulesSoFar, PolicyIsOfTraffic
    <2> QED
      BY <2>1, InitTypes, InitMerged
  <1>2. TypeOK /\ RulesAreMerged /\ RulesSoFar /\ PolicyIsOfTraffic /\ [Next]_vars
            => (TypeOK /\ RulesAreMerged /\ RulesSoFar /\ PolicyIsOfTraffic)'
    BY TypeStep, RulesStep, PolicyStep
  <1> QED
    BY <1>1, <1>2, PTL DEF Spec

-------------------------------------------------------------------------------
(* The batch.                                                              *)

LEMMA ErrorStep ==
  ASSUME TypeOK, FirstErrorIsKept, [Next]_vars
  PROVE  FirstErrorIsKept'
  <1>0. Len(Batch) \in Nat /\ DOMAIN Batch = 1 .. Len(Batch)
    BY BatchAssumption
  <1>1. CASE Begin
    BY <1>0, <1>1 DEF Begin, FirstErrorIsKept, TypeOK
  <1>2. CASE Fails
    <2>1. /\ pc # "next" /\ pc' = "next" /\ cur' = cur /\ cur \in 1 .. Len(Batch)
          /\ outcome' = [outcome EXCEPT ![cur] = "failed"]
          /\ firstError' = IF firstError = 0 THEN cur ELSE firstError
      BY <1>0, <1>2 DEF Fails, TypeOK
    <2>2. outcome'[cur] = "failed" /\ \A i \in DOMAIN Batch : i # cur => outcome'[i] = outcome[i]
      BY <1>0, <2>1 DEF TypeOK
    <2>3. \A i \in DOMAIN Batch : outcome[i] \in {"none", "saved", "failed"}
      BY DEF TypeOK
    <2>4. \A i \in DOMAIN Batch : outcome'[i] = "none" <=> i > cur'
      BY <1>0, <2>1, <2>2 DEF FirstErrorIsKept
    <2>5. CASE firstError = 0
      <3>1. \A i \in 1 .. (cur - 1) : outcome'[i] = "saved"
        BY <1>0, <2>1, <2>2, <2>3, <2>5 DEF FirstErrorIsKept
      <3>2. firstError' = cur /\ cur # 0
        BY <2>1, <2>5
      <3> QED
        BY <2>1, <2>2, <2>4, <3>1, <3>2 DEF FirstErrorIsKept
    <2>6. CASE firstError # 0
      <3>1. firstError' = firstError /\ firstError \in 1 .. cur
        BY <2>1, <2>6 DEF TypeOK
      <3>2. outcome'[firstError] = "failed"
        BY <1>0, <2>1, <2>2, <2>6, <3>1 DEF FirstErrorIsKept
      <3>3. \A i \in 1 .. (firstError - 1) : outcome'[i] = "saved"
        BY <1>0, <2>1, <2>2, <2>6, <3>1 DEF FirstErrorIsKept
      <3> QED
        BY <2>1, <2>4, <2>6, <3>1, <3>2, <3>3 DEF FirstErrorIsKept
    <2> QED
      BY <2>5, <2>6
  <1>3. CASE Save
    <2>1. /\ pc # "next" /\ pc' = "next" /\ cur' = cur /\ cur \in 1 .. Len(Batch)
          /\ outcome' = [outcome EXCEPT ![cur] = "saved"] /\ firstError' = firstError
      BY <1>0, <1>3 DEF Save, TypeOK
    <2>2. outcome'[cur] = "saved" /\ \A i \in DOMAIN Batch : i # cur => outcome'[i] = outcome[i]
      BY <1>0, <2>1 DEF TypeOK
    <2>4. \A i \in DOMAIN Batch : outcome'[i] = "none" <=> i > cur'
      BY <1>0, <2>1, <2>2 DEF FirstErrorIsKept
    <2>5. firstError = 0 => \A i \in DOMAIN Batch : outcome'[i] # "failed"
      BY <2>1, <2>2 DEF FirstErrorIsKept
    <2>6. firstError # 0 => firstError < cur
      <3>1. outcome[cur] = "none"
        BY <1>0, <2>1 DEF FirstErrorIsKept
      <3> QED
        BY <2>1, <3>1 DEF FirstErrorIsKept, TypeOK
    <2>7. firstError # 0 => /\ outcome'[firstError] = "failed"
                            /\ \A i \in 1 .. (firstError - 1) : outcome'[i] = "saved"
      BY <1>0, <2>1, <2>2, <2>6 DEF FirstErrorIsKept, TypeOK
    <2> QED
      BY <1>0, <2>1, <2>4, <2>5, <2>7 DEF FirstErrorIsKept
  <1>4. CASE (\E s \in Snapshots : GetTraffic(s)) \/ (\E n \in Names : GetSpec(n)) \/ Process
    <2>1. UNCHANGED <<cur, outcome, firstError>> /\ pc # "next" /\ pc' # "next"
      BY <1>4 DEF GetTraffic, GetSpec, Process
    <2> QED
      BY <2>1 DEF FirstErrorIsKept
  <1>5. CASE UNCHANGED vars
    BY <1>5 DEF vars, FirstErrorIsKept
  <1> QED
    BY <1>1, <1>2, <1>3, <1>4, <1>5 DEF Next

(* A batch of any length keeps the error of the first pod that failed, and *)
(* passes no pod over.                                                     *)
THEOREM FirstErrorIsKeptCorrect == Spec => []FirstErrorIsKept
  <1>1. Init => TypeOK /\ RulesAreMerged /\ FirstErrorIsKept
    <2>1. Init => FirstErrorIsKept
      BY BatchAssumption DEF Init, FirstErrorIsKept
    <2> QED
      BY <2>1, InitTypes, InitMerged
  <1>2. TypeOK /\ RulesAreMerged /\ FirstErrorIsKept /\ [Next]_vars
            => (TypeOK /\ RulesAreMerged /\ FirstErrorIsKept)'
    BY TypeStep, ErrorStep
  <1> QED
    BY <1>1, <1>2, PTL DEF Spec
================================================================================

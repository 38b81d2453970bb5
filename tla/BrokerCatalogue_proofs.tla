------------------------ MODULE BrokerCatalogue_proofs ------------------------
(***************************************************************************)
(* Proofs about BrokerCatalogue, for all controllers, pods, services,      *)
(* keys and faults: types, and that what has settled is on record as it    *)
(* is.                                                                     *)
(***************************************************************************)
EXTENDS BrokerCatalogue, FiniteSetTheorems, TLAPS

(* A request that runs on spoils its key. *)
StrayIsSpoilt == \A e \in stray : KeyOf[e.obj] \in spoilt

(* A key that is not spoilt is that of one object at a time. *)
OneIsLive ==
    \A o, p \in Objects :
        now[o] # NoValue /\ now[p] # NoValue /\ KeyOf[o] = KeyOf[p] /\ KeyOf[o] \notin spoilt
            => o = p

(* The last event of the key that a watch has to post is e. *)
EndsWith(q, posted, k, e) ==
    /\ \A i \in DOMAIN q :
           IsOf(q[i], k) /\ (\A j \in DOMAIN q : j > i => ~IsOf(q[j], k)) => q[i] = e
    /\ IsOf(posted, k) /\ (\A i \in DOMAIN q : ~IsOf(q[i], k)) => posted = e

(* Who has something to post of a key that is not spoilt is told of the    *)
(* object that has it, and comes to post it as it is.                      *)
LastIsCurrent ==
    \A o \in Objects : now[o] # NoValue /\ KeyOf[o] \notin spoilt =>
        \A w \in Busy(KeyOf[o]) :
            w \in seers[o] /\ EndsWith(queue[w], posting[w], KeyOf[o], Event(o))

IInv == TypeOK /\ StrayIsSpoilt /\ OneIsLive /\ LastIsCurrent /\ SettledIsCurrent

-------------------------------------------------------------------------------
(* Events, watches and lists.                                              *)

LEMMA EventTypes ==
  /\ \A e \in Events : e # NoEvent /\ e.obj \in Objects /\ KeyOf[e.obj] \in Keys
  /\ \A o \in Objects : KeyOf[o] \in Keys
  /\ \A o \in Objects : \A v \in Values : [obj |-> o, val |-> v] \in Events
  BY ValuesAssumption DEF Events, Keys

LEMMA WatchTypes ==
  /\ \A c \in Controllers :
       /\ <<c, "pods">> \in Watches /\ <<c, "services">> \in Watches
       /\ \A w \in Watches : w[1] = c <=> w \in WatchesOf(c)
       /\ WatchesOf(c) \subseteq Watches
       /\ <<c, "pods">>[1] = c /\ <<c, "services">>[1] = c
  /\ \A w \in Watches : w[1] \in Controllers
  /\ Controllers \X {"services"} \subseteq Watches
  BY DEF Watches, WatchesOf

(* A list holds the objects that are there, all of them and nothing else. *)
LEMMA ListTypes ==
  ASSUME TypeOK, NEW w \in Watches, NEW s \in Lists(w)
  PROVE  /\ s \in Seq(Events)
         /\ \A i \in DOMAIN s : s[i] \in Listed(w)
         /\ \A e \in Listed(w) : \E i \in DOMAIN s : s[i] = e
  <1> DEFINE There == {p \in Objects : now[p] # NoValue /\ w \in seers[p]}
             f == [o \in There |-> Event(o)]
  <1>1. IsFiniteSet(There)
    BY ObjectsAssumption, FS_Subset
  <1>2. f \in Surjection(There, Listed(w))
    BY DEF Surjection, Listed
  <1>3. IsFiniteSet(Listed(w))
    BY <1>1, <1>2, FS_Surjection
  <1>4. Cardinality(Listed(w)) \in Nat
    BY <1>3, FS_CardinalityType
  <1>5. Listed(w) \subseteq Events
    BY EventTypes DEF Listed, Event, TypeOK, Events
  <1>6. s \in [1 .. Cardinality(Listed(w)) -> Listed(w)] /\ \A e \in Listed(w) : e \in InRange(s)
    BY DEF Lists
  <1>7. s \in Seq(Listed(w))
    <2> DEFINE n == Cardinality(Listed(w))
    <2>1. n \in Nat /\ s \in [1 .. n -> Listed(w)]
      BY <1>4, <1>6
    <2> HIDE DEF n
    <2> QED
      BY <2>1
  <1>8. s \in Seq(Events)
    <2>1. s \in [1 .. Cardinality(Listed(w)) -> Events]
      BY <1>5, <1>6
    <2> DEFINE n == Cardinality(Listed(w))
    <2>2. n \in Nat /\ s \in [1 .. n -> Events]
      BY <1>4, <2>1
    <2> HIDE DEF n
    <2> QED
      BY <2>2
  <1> QED
    BY <1>6, <1>8 DEF InRange

-------------------------------------------------------------------------------
(* Types.                                                                  *)

LEMMA UpsertTypes ==
  ASSUME TypeOK, NEW e \in Events, Upsert(e)
  PROVE  /\ row' \in [Keys -> Events \cup {NoEvent}]
         /\ \A k \in Keys : row'[k] # NoEvent => IsOf(row'[k], k)
  BY DEF Upsert, TypeOK

LEMMA ChangeTypes ==
  ASSUME TypeOK, NEW o \in Objects, NEW v \in Values, NEW W \in SUBSET Watches, Change(o, v, W)
  PROVE  TypeOK'
  <1>1. now' \in [Objects -> Values \cup {NoValue}] /\ seers' \in [Objects -> SUBSET Watches]
    BY DEF Change, TypeOK
  <1>2. queue' \in [Watches -> Seq(Events)]
    BY EventTypes DEF Change, TypeOK
  <1>3. \A w \in Watches : w[1] \in silent => queue'[w] = queue[w]
    BY DEF Change
  <1>4. spoilt' \subseteq Keys
    BY EventTypes DEF Change, TypeOK
  <1>5. changes' \in 0 .. MaxChanges
    BY BoundsAssumption DEF Change, TypeOK
  <1> QED
    BY <1>1, <1>2, <1>3, <1>4, <1>5 DEF Change, TypeOK, IsOf

LEMMA FaultTypes ==
  ASSUME TypeOK, Fault
  PROVE  faults' \in 0 .. MaxFaults
  BY BoundsAssumption DEF TypeOK, Fault

LEMMA LeavesTypes ==
  ASSUME TypeOK, NEW c \in Controllers, NEW undone \in SUBSET Keys, Leaves(c, undone)
  PROVE  /\ posting' \in [Watches -> Events \cup {NoEvent}]
         /\ stray' \subseteq Events /\ spoilt' \subseteq Keys
         /\ spoilt \subseteq spoilt' /\ undone \subseteq spoilt'
         /\ \A e \in stray' \ stray : KeyOf[e.obj] \in spoilt'
         /\ \A w \in Watches : posting'[w] = IF w[1] = c THEN NoEvent ELSE posting[w]
  <1> DEFINE left == {posting[w] : w \in WatchesOf(c)} \ {NoEvent}
  <1>1. left \subseteq Events
    <2>1. \A w \in WatchesOf(c) : posting[w] \in Events \cup {NoEvent}
      BY WatchTypes DEF TypeOK
    <2> QED
      BY <2>1
  <1>2. PICK run \in SUBSET left : /\ stray' = stray \cup run
                                   /\ spoilt' = spoilt \cup {KeyOf[e.obj] : e \in run} \cup undone
    BY DEF Leaves
  <1>3. {KeyOf[e.obj] : e \in run} \subseteq Keys
    BY <1>1, EventTypes
  <1>4. posting' = [w \in Watches |-> IF w[1] = c THEN NoEvent ELSE posting[w]]
    BY DEF Leaves
  <1>5. posting' \in [Watches -> Events \cup {NoEvent}]
    BY <1>4 DEF TypeOK
  <1>6. stray' \subseteq Events /\ spoilt' \subseteq Keys
    BY <1>1, <1>2, <1>3 DEF TypeOK
  <1> QED
    BY <1>2, <1>4, <1>5, <1>6

LEMMA TypeInductive ==
  ASSUME TypeOK, [Next]_vars
  PROVE  TypeOK'
  <1>1. CASE \E p \in Pods, v \in Values, c \in Controllers : PodStarts(p, v, c)
    <2>1. PICK p \in Pods, v \in Values, c \in Controllers : PodStarts(p, v, c)
      BY <1>1
    <2>2. p \in Objects
      BY DEF Objects
    <2>3. <<c, "pods">> \in Watches
      BY WatchTypes
    <2> QED
      <3>1. {<<c, "pods">>} \in SUBSET Watches
        BY <2>3
      <3> QED
        BY <2>1, <2>2, <3>1, ChangeTypes DEF PodStarts
  <1>2. CASE \E s \in Services, v \in Values : ServiceChanges(s, v)
    <2>1. PICK s \in Services, v \in Values : ServiceChanges(s, v)
      BY <1>2
    <2>2. Controllers \X {"services"} \in SUBSET Watches /\ s \in Objects
      BY WatchTypes DEF Objects
    <2> QED
      BY <2>1, <2>2, ChangeTypes DEF ServiceChanges
  <1>3. CASE \E o \in Objects : Removed(o)
    BY <1>3 DEF Removed, TypeOK, IsOf
  <1>4. ASSUME NEW w \in Watches, Post(w)
        PROVE  TypeOK'
    <2>1. queue[w] \in Seq(Events) /\ queue[w] # <<>>
      BY <1>4 DEF Post, TypeOK
    <2>2. Head(queue[w]) \in Events /\ Tail(queue[w]) \in Seq(Events)
      BY <2>1
    <2>3. queue' \in [Watches -> Seq(Events)] /\ posting' \in [Watches -> Events \cup {NoEvent}]
      BY <1>4, <2>2 DEF Post, TypeOK
    <2>4. \A u \in Watches : u[1] \in silent => queue'[u] = <<>> /\ posting'[u] = NoEvent
      BY <1>4, <2>1 DEF Post, TypeOK
    <2> QED
      BY <1>4, <2>3, <2>4 DEF Post, TypeOK, clusterVars, IsOf
  <1>5. ASSUME NEW w \in Watches, Store(w)
        PROVE  TypeOK'
    <2>1. posting[w] \in Events
      BY <1>5 DEF Store, Ends, TypeOK
    <2>2. posting' \in [Watches -> Events \cup {NoEvent}]
          /\ \A u \in Watches : u[1] \in silent => posting'[u] = NoEvent
      BY <1>5 DEF Store, Ends, TypeOK
    <2>3. Upsert(posting[w])
      BY <1>5 DEF Store
    <2> QED
      BY <1>5, <2>1, <2>2, <2>3, UpsertTypes DEF Store, TypeOK, clusterVars, IsOf
  <1>6. ASSUME NEW w \in Watches, Refused(w) \/ ConnectionBreaks(w)
        PROVE  TypeOK'
    <2>1. posting[w] \in Events
      BY <1>6 DEF Refused, ConnectionBreaks, Ends, TypeOK
    <2>2. posting' \in [Watches -> Events \cup {NoEvent}]
          /\ \A u \in Watches : u[1] \in silent => posting'[u] = NoEvent
      BY <1>6 DEF Refused, ConnectionBreaks, Ends, TypeOK
    <2>3. spoilt' \subseteq Keys /\ stray' \subseteq Events
      BY <1>6, <2>1, EventTypes DEF Refused, ConnectionBreaks, Spoils, TypeOK
    <2>4. faults' \in 0 .. MaxFaults
      BY <1>6, FaultTypes DEF Refused, ConnectionBreaks
    <2> QED
      BY <1>6, <2>2, <2>3, <2>4 DEF Refused, ConnectionBreaks, TypeOK, clusterVars, IsOf
  <1>7. CASE \E e \in stray : Lands(e)
    <2>1. PICK e \in stray : Lands(e)
      BY <1>7
    <2>2. e \in Events /\ Upsert(e)
      BY <2>1 DEF TypeOK, Lands
    <2> QED
      BY <2>1, <2>2, UpsertTypes DEF Lands, TypeOK, clusterVars, IsOf
  <1>8. ASSUME NEW c \in Controllers, TaskFails(c)
        PROVE  TypeOK'
    <2> DEFINE undone == {k \in Keys : Busy(k) \cap WatchesOf(c) # {}}
    <2>1. undone \in SUBSET Keys /\ Leaves(c, undone)
      BY <1>8 DEF TaskFails
    <2> HIDE DEF undone
    <2>2. queue' \in [Watches -> Seq(Events)]
      BY <1>8 DEF TaskFails, TypeOK
    <2>3. silent' \subseteq Controllers
          /\ \A u \in Watches : u[1] \in silent' => queue'[u] = <<>> /\ posting'[u] = NoEvent
      BY <1>8, <2>1, LeavesTypes DEF TaskFails, TypeOK
    <2>4. faults' \in 0 .. MaxFaults
      BY <1>8, FaultTypes DEF TaskFails
    <2> QED
      BY <1>8, <2>1, <2>2, <2>3, <2>4, LeavesTypes DEF TaskFails, TypeOK, clusterVars, IsOf
  <1>9. ASSUME NEW c \in Controllers, ControllerRestarts(c)
        PROVE  TypeOK'
    <2>1. {} \in SUBSET Keys /\ Leaves(c, {})
      BY <1>9 DEF ControllerRestarts
    <2>2. PICK s \in Lists(<<c, "pods">>), t \in Lists(<<c, "services">>) :
              queue' = [queue EXCEPT ![<<c, "pods">>] = s, ![<<c, "services">>] = t]
      BY <1>9 DEF ControllerRestarts
    <2>3. s \in Seq(Events) /\ t \in Seq(Events)
      BY ListTypes, WatchTypes
    <2>4. queue' \in [Watches -> Seq(Events)]
      BY <2>2, <2>3 DEF TypeOK
    <2>5. \A u \in Watches : u[1] # c => queue'[u] = queue[u]
      BY <2>2, WatchTypes DEF TypeOK
    <2>6. silent' \subseteq Controllers
          /\ \A u \in Watches : u[1] \in silent' => queue'[u] = <<>> /\ posting'[u] = NoEvent
      BY <1>9, <2>1, <2>5, LeavesTypes DEF ControllerRestarts, TypeOK
    <2>7. faults' \in 0 .. MaxFaults
      BY <1>9, FaultTypes DEF ControllerRestarts
    <2> QED
      BY <1>9, <2>1, <2>4, <2>6, <2>7, LeavesTypes DEF ControllerRestarts, TypeOK, clusterVars, IsOf
  <1>10. CASE UNCHANGED vars
    BY <1>10 DEF vars, clusterVars, TypeOK, IsOf
  <1> QED
    BY <1>1, <1>2, <1>3, <1>4, <1>5, <1>6, <1>7, <1>8, <1>9, <1>10 DEF Next

-------------------------------------------------------------------------------
(* What a watch has to post of a key.                                      *)

Pending(q, posted, k) == IsOf(posted, k) \/ \E i \in DOMAIN q : IsOf(q[i], k)

LEMMA BusyIsPending ==
  ASSUME NEW k
  PROVE  /\ Busy(k) = {w \in Watches : Pending(queue[w], posting[w], k)}
         /\ Busy(k)' = {w \in Watches : Pending(queue'[w], posting'[w], k)}
  BY DEF Busy, Pending, InRange

(* A watch that is told of the key comes to post what it is told last. *)
LEMMA ToldLast ==
  ASSUME NEW q \in Seq(Events), NEW posted, NEW k, NEW e \in Events, IsOf(e, k)
  PROVE  /\ Pending(Append(q, e), posted, k)
         /\ EndsWith(Append(q, e), posted, k, e)
  <1>1. DOMAIN Append(q, e) = 1 .. Len(q) + 1 /\ Len(q) \in Nat /\ Append(q, e)[Len(q) + 1] = e
    OBVIOUS
  <1>2. Len(q) + 1 \in DOMAIN Append(q, e)
    BY <1>1
  <1> QED
    BY <1>1, <1>2 DEF Pending, EndsWith

(* What it is told of another key changes nothing. *)
LEMMA ToldOther ==
  ASSUME NEW q \in Seq(Events), NEW posted, NEW k, NEW e \in Events, ~IsOf(e, k), NEW x
  PROVE  /\ Pending(Append(q, e), posted, k) <=> Pending(q, posted, k)
         /\ EndsWith(q, posted, k, x) => EndsWith(Append(q, e), posted, k, x)
  <1>1. /\ DOMAIN Append(q, e) = 1 .. Len(q) + 1 /\ DOMAIN q = 1 .. Len(q) /\ Len(q) \in Nat
        /\ Append(q, e)[Len(q) + 1] = e /\ \A i \in 1 .. Len(q) : Append(q, e)[i] = q[i]
    OBVIOUS
  <1> QED
    BY <1>1 DEF Pending, EndsWith

(* Taking the first event to post it changes nothing. *)
LEMMA TakenFirst ==
  ASSUME NEW q \in Seq(Events), q # <<>>, NEW k, NEW x
  PROVE  /\ Pending(Tail(q), Head(q), k) <=> Pending(q, NoEvent, k)
         /\ EndsWith(q, NoEvent, k, x) => EndsWith(Tail(q), Head(q), k, x)
  <1>1. /\ DOMAIN q = 1 .. Len(q) /\ Len(q) \in Nat \ {0} /\ Head(q) = q[1]
        /\ DOMAIN Tail(q) = 1 .. Len(q) - 1
        /\ \A i \in 1 .. Len(q) - 1 : Tail(q)[i] = q[i + 1]
    OBVIOUS
  <1>2. ~IsOf(NoEvent, k)
    BY DEF IsOf
  <1>3. \A i \in DOMAIN q : i = 1 \/ \E j \in DOMAIN Tail(q) : j + 1 = i /\ Tail(q)[j] = q[i]
    <2>1. ASSUME NEW i \in DOMAIN q, i # 1
          PROVE  i - 1 \in DOMAIN Tail(q) /\ (i - 1) + 1 = i /\ Tail(q)[i - 1] = q[i]
      BY <1>1, <2>1
    <2> QED
      BY <2>1
  <1>6. /\ \A i \in DOMAIN Tail(q) : i \in Nat /\ i + 1 \in DOMAIN q /\ q[i + 1] = Tail(q)[i]
        /\ 1 \in DOMAIN q
    BY <1>1
  <1>4. Pending(Tail(q), Head(q), k) <=> Pending(q, NoEvent, k)
    BY <1>1, <1>2, <1>3, <1>6 DEF Pending
  <1>5. ASSUME EndsWith(q, NoEvent, k, x)
        PROVE  EndsWith(Tail(q), Head(q), k, x)
    <2>1. ASSUME NEW i \in DOMAIN Tail(q), IsOf(Tail(q)[i], k),
                 \A j \in DOMAIN Tail(q) : j > i => ~IsOf(Tail(q)[j], k)
          PROVE  Tail(q)[i] = x
      <3>1. i + 1 \in DOMAIN q /\ q[i + 1] = Tail(q)[i]
        BY <1>6
      <3>2. ASSUME NEW j \in DOMAIN q, j > i + 1
            PROVE  ~IsOf(q[j], k)
        <4>1. i \in Nat /\ j # 1
          BY <1>1, <1>6, <3>2
        <4>2. PICK m \in DOMAIN Tail(q) : m + 1 = j /\ Tail(q)[m] = q[j]
          BY <1>3, <4>1
        <4>3. m > i
          BY <1>6, <3>2, <4>1, <4>2
        <4> QED
          BY <2>1, <4>2, <4>3
      <3> QED
        BY <1>5, <2>1, <3>1, <3>2 DEF EndsWith
    <2>2. ASSUME IsOf(Head(q), k), \A i \in DOMAIN Tail(q) : ~IsOf(Tail(q)[i], k)
          PROVE  Head(q) = x
      <3>1. 1 \in DOMAIN q /\ \A j \in DOMAIN q : j > 1 => ~IsOf(q[j], k)
        BY <1>3, <1>6, <2>2
      <3> QED
        BY <1>1, <1>5, <2>2, <3>1 DEF EndsWith
    <2> QED
      BY <2>1, <2>2 DEF EndsWith
  <1> QED
    BY <1>4, <1>5

(* The end of a request leaves the queue; the last one was for the event   *)
(* the watch ended with.                                                   *)
LEMMA PostEnds ==
  ASSUME NEW q, NEW posted, NEW k, NEW x
  PROVE  /\ Pending(q, NoEvent, k) => Pending(q, posted, k)
         /\ EndsWith(q, posted, k, x) => EndsWith(q, NoEvent, k, x)
         /\ ~IsOf(posted, k) => (Pending(q, NoEvent, k) <=> Pending(q, posted, k))
         /\ EndsWith(q, posted, k, x) /\ IsOf(posted, k) /\ ~Pending(q, NoEvent, k) => posted = x
  <1>1. ~IsOf(NoEvent, k)
    BY DEF IsOf
  <1> QED
    BY <1>1 DEF Pending, EndsWith

-------------------------------------------------------------------------------
(* The invariant, one step of the system after the other.                  *)

Inv == StrayIsSpoilt /\ OneIsLive /\ LastIsCurrent /\ SettledIsCurrent

(* What holds of one object. *)
Current(o) ==
    now[o] # NoValue /\ KeyOf[o] \notin spoilt =>
        /\ \A w \in Busy(KeyOf[o]) :
               w \in seers[o] /\ EndsWith(queue[w], posting[w], KeyOf[o], Event(o))
        /\ Reported(o) /\ Busy(KeyOf[o]) = {} => row[KeyOf[o]] = Event(o)

LEMMA AllCurrent ==
  /\ LastIsCurrent /\ SettledIsCurrent <=> \A o \in Objects : Current(o)
  /\ (\A o \in Objects : Current(o)') => LastIsCurrent' /\ SettledIsCurrent'
  BY DEF LastIsCurrent, SettledIsCurrent, Settled, Current

(* Steps of the controllers and the broker leave the cluster alone. *)
LEMMA ClusterAlone ==
  ASSUME IInv, UNCHANGED clusterVars, spoilt \subseteq spoilt',
         \A e \in stray' : e \in stray \/ KeyOf[e.obj] \in spoilt'
  PROVE  /\ StrayIsSpoilt' /\ OneIsLive'
         /\ \A o \in Objects : now'[o] = now[o] /\ seers'[o] = seers[o] /\ Event(o)' = Event(o)
  BY DEF IInv, StrayIsSpoilt, OneIsLive, clusterVars, Event

LEMMA PostKeeps ==
  ASSUME IInv, NEW w \in Watches, Post(w)
  PROVE  Inv'
  <1>1. /\ StrayIsSpoilt' /\ OneIsLive'
        /\ \A o \in Objects : now'[o] = now[o] /\ seers'[o] = seers[o] /\ Event(o)' = Event(o)
    BY ClusterAlone DEF Post
  <1>2. queue[w] \in Seq(Events) /\ queue[w] # <<>> /\ posting[w] = NoEvent
    BY DEF Post, IInv, TypeOK
  <1>3. \A u \in Watches : queue'[u] = (IF u = w THEN Tail(queue[w]) ELSE queue[u])
                          /\ posting'[u] = (IF u = w THEN Head(queue[w]) ELSE posting[u])
    BY DEF Post, IInv, TypeOK
  <1>4. row' = row /\ silent' = silent /\ spoilt' = spoilt
    BY DEF Post
  <1>5. ASSUME NEW o \in Objects
        PROVE  Current(o)'
    <2> DEFINE k == KeyOf[o]
    <2>1. Current(o)
      BY AllCurrent DEF IInv
    <2>2. \A u \in Watches : Pending(queue'[u], posting'[u], k) <=> Pending(queue[u], posting[u], k)
      BY <1>2, <1>3, TakenFirst
    <2>3. Busy(k)' = Busy(k)
      BY <2>2, BusyIsPending
    <2>4. \A u \in Watches : EndsWith(queue[u], posting[u], k, Event(o))
                              => EndsWith(queue'[u], posting'[u], k, Event(o))
      BY <1>2, <1>3, TakenFirst
    <2>5. Busy(k) \subseteq Watches
      BY BusyIsPending
    <2>6. Reported(o)' = Reported(o)
      BY <1>1, <1>4 DEF Reported
    <2> QED
      BY <1>1, <1>4, <2>1, <2>3, <2>4, <2>5, <2>6 DEF Current
  <1> QED
    BY <1>1, <1>5, AllCurrent DEF Inv

(* A request of w ends: its event is stored, or its key is spoilt. *)
LEMMA EndKeeps ==
  ASSUME IInv, NEW w \in Watches, Ends(w), UNCHANGED <<clusterVars, queue, silent>>,
         \/ Upsert(posting[w]) /\ UNCHANGED <<stray, spoilt>>
         \/ Spoils(w) /\ stray' \subseteq stray \cup {posting[w]} /\ UNCHANGED row
  PROVE  Inv'
  <1>1. posting[w] \in Events /\ posting[w] # NoEvent
    BY DEF Ends, IInv, TypeOK
  <1>2. spoilt \subseteq spoilt' /\ \A e \in stray' : e \in stray \/ KeyOf[e.obj] \in spoilt'
    BY DEF Spoils
  <1>3. /\ StrayIsSpoilt' /\ OneIsLive'
        /\ \A o \in Objects : now'[o] = now[o] /\ seers'[o] = seers[o] /\ Event(o)' = Event(o)
    BY <1>2, ClusterAlone
  <1>4. \A u \in Watches : queue'[u] = queue[u]
                          /\ posting'[u] = (IF u = w THEN NoEvent ELSE posting[u])
    BY DEF Ends, IInv, TypeOK
  <1>5. ASSUME NEW o \in Objects, now'[o] # NoValue, KeyOf[o] \notin spoilt'
        PROVE  Current(o)'
    <2> DEFINE k == KeyOf[o]
    <2>1. /\ \A u \in Busy(k) : u \in seers[o] /\ EndsWith(queue[u], posting[u], k, Event(o))
          /\ Reported(o) /\ Busy(k) = {} => row[k] = Event(o)
      BY <1>2, <1>3, <1>5, AllCurrent DEF IInv, Current
    <2>2. Busy(k)' \subseteq Busy(k)
      BY <1>4, PostEnds, BusyIsPending
    <2>3. \A u \in Busy(k)' : EndsWith(queue'[u], posting'[u], k, Event(o))
      BY <1>4, <2>1, <2>2, PostEnds, BusyIsPending
    <2>4. Reported(o)' = Reported(o)
      BY <1>3 DEF Reported
    <2>5. ASSUME Reported(o), Busy(k)' = {}
          PROVE  row'[k] = Event(o)
      <3>1. CASE IsOf(posting[w], k)
        <4>1. Upsert(posting[w])
          BY <1>5, <3>1 DEF Spoils, IsOf
        <4>2. w \in Busy(k) /\ ~Pending(queue[w], NoEvent, k)
          BY <1>4, <2>5, <3>1, BusyIsPending DEF Pending
        <4>3. posting[w] = Event(o)
          BY <2>1, <3>1, <4>2, PostEnds
        <4>4. k \in Keys
          BY EventTypes
        <4> QED
          BY <3>1, <4>1, <4>3, <4>4 DEF Upsert
      <3>2. CASE ~IsOf(posting[w], k)
        <4>1. Busy(k) = {}
          BY <1>4, <2>5, <3>2, PostEnds, BusyIsPending
        <4>2. k \in Keys
          BY EventTypes
        <4>3. row'[k] = row[k]
          BY <3>2, <4>2 DEF Upsert
        <4> QED
          BY <2>1, <2>5, <4>1, <4>3
      <3> QED
        BY <3>1, <3>2
    <2> QED
      BY <1>3, <2>1, <2>2, <2>3, <2>4, <2>5 DEF Current
  <1>6. \A o \in Objects : Current(o)'
    BY <1>5 DEF Current
  <1> QED
    BY <1>3, <1>6, AllCurrent DEF Inv

LEMMA LandsKeeps ==
  ASSUME IInv, NEW e \in stray, Lands(e)
  PROVE  Inv'
  <1>1. /\ StrayIsSpoilt' /\ OneIsLive'
        /\ \A o \in Objects : now'[o] = now[o] /\ seers'[o] = seers[o] /\ Event(o)' = Event(o)
    BY ClusterAlone DEF Lands
  <1>2. KeyOf[e.obj] \in spoilt /\ e \in Events
    BY DEF IInv, TypeOK, StrayIsSpoilt
  <1>3. ASSUME NEW o \in Objects
        PROVE  Current(o)'
    <2> DEFINE k == KeyOf[o]
    <2>1. k \notin spoilt => row'[k] = row[k]
      BY <1>2, EventTypes DEF Lands, Upsert, IsOf, IInv, TypeOK
    <2>2. Current(o)
      BY AllCurrent DEF IInv
    <2>3. Busy(k)' = Busy(k)
      BY DEF Busy, Lands
    <2>4. Reported(o)' = Reported(o)
      BY <1>1 DEF Reported, Lands
    <2> QED
      BY <1>1, <2>1, <2>2, <2>3, <2>4 DEF Current, Lands
  <1> QED
    BY <1>1, <1>3, AllCurrent DEF Inv

LEMMA RemovedKeeps ==
  ASSUME IInv, NEW o \in Objects, Removed(o)
  PROVE  Inv'
  <1>1. \A p \in Objects : now'[p] = IF p = o THEN NoValue ELSE now[p]
    BY DEF Removed, IInv, TypeOK
  <1>2. StrayIsSpoilt' /\ OneIsLive'
    BY <1>1 DEF Removed, IInv, StrayIsSpoilt, OneIsLive
  <1>3. ASSUME NEW p \in Objects
        PROVE  Current(p)'
    <2>1. Current(p)
      BY AllCurrent DEF IInv
    <2>2. Busy(KeyOf[p])' = Busy(KeyOf[p]) /\ Reported(p)' = Reported(p)
      BY DEF Busy, Reported, Removed
    <2>3. p # o => Event(p)' = Event(p)
      BY <1>1 DEF Event
    <2> QED
      BY <1>1, <2>1, <2>2, <2>3 DEF Current, Removed
  <1> QED
    BY <1>2, <1>3, AllCurrent DEF Inv

(* What a silent controller had to post is spoilt; the others go on. *)
LEMMA TaskFailsKeeps ==
  ASSUME IInv, NEW c \in Controllers, TaskFails(c)
  PROVE  Inv'
  <1> DEFINE undone == {k \in Keys : Busy(k) \cap WatchesOf(c) # {}}
  <1>1. undone \in SUBSET Keys /\ Leaves(c, undone)
    BY DEF TaskFails
  <1> HIDE DEF undone
  <1>2. /\ spoilt \subseteq spoilt' /\ undone \subseteq spoilt'
        /\ \A e \in stray' : e \in stray \/ KeyOf[e.obj] \in spoilt'
        /\ \A u \in Watches : posting'[u] = IF u[1] = c THEN NoEvent ELSE posting[u]
    BY <1>1, LeavesTypes DEF IInv
  <1>3. /\ StrayIsSpoilt' /\ OneIsLive'
        /\ \A o \in Objects : now'[o] = now[o] /\ seers'[o] = seers[o] /\ Event(o)' = Event(o)
    BY <1>2, ClusterAlone DEF TaskFails
  <1>4. /\ \A u \in Watches : queue'[u] = IF u[1] = c THEN <<>> ELSE queue[u]
        /\ row' = row /\ silent \subseteq silent'
    BY DEF TaskFails, IInv, TypeOK
  <1>5. ASSUME NEW o \in Objects, now'[o] # NoValue, KeyOf[o] \notin spoilt'
        PROVE  Current(o)'
    <2> DEFINE k == KeyOf[o]
    <2>1. /\ \A u \in Busy(k) : u \in seers[o] /\ EndsWith(queue[u], posting[u], k, Event(o))
          /\ Reported(o) /\ Busy(k) = {} => row[k] = Event(o)
      BY <1>2, <1>3, <1>5, AllCurrent DEF IInv, Current
    <2>2. \A u \in Busy(k) : u[1] # c
      <3>1. Busy(k) \cap WatchesOf(c) = {}
        BY <1>2, <1>5, EventTypes DEF undone
      <3>2. Busy(k) \subseteq Watches
        BY BusyIsPending
      <3>3. \A u \in Watches : u[1] = c => u \in WatchesOf(c)
        BY WatchTypes
      <3> QED
        BY <3>1, <3>2, <3>3
    <2>3. \A u \in Watches : u[1] = c => ~Pending(queue'[u], posting'[u], k)
      BY <1>2, <1>4 DEF Pending, IsOf
    <2>4. Busy(k)' = Busy(k)
      BY <1>2, <1>4, <2>2, <2>3, BusyIsPending
    <2>5. \A u \in Busy(k) : queue'[u] = queue[u] /\ posting'[u] = posting[u]
      BY <1>2, <1>4, <2>2, BusyIsPending
    <2>6. Reported(o)' => Reported(o)
      BY <1>3, <1>4 DEF Reported
    <2> QED
      BY <1>3, <1>4, <2>1, <2>4, <2>5, <2>6 DEF Current
  <1>6. \A o \in Objects : Current(o)'
    BY <1>5 DEF Current
  <1> QED
    BY <1>3, <1>6, AllCurrent DEF Inv

(* A controller that starts again lists what is there as it is. *)
LEMMA RestartKeeps ==
  ASSUME IInv, NEW c \in Controllers, ControllerRestarts(c)
  PROVE  Inv'
  <1>1. TypeOK /\ {} \in SUBSET Keys /\ Leaves(c, {})
    BY DEF ControllerRestarts, IInv
  <1>2. /\ spoilt \subseteq spoilt'
        /\ \A e \in stray' : e \in stray \/ KeyOf[e.obj] \in spoilt'
        /\ \A u \in Watches : posting'[u] = IF u[1] = c THEN NoEvent ELSE posting[u]
    BY <1>1, LeavesTypes
  <1>3. /\ StrayIsSpoilt' /\ OneIsLive'
        /\ \A o \in Objects : now'[o] = now[o] /\ seers'[o] = seers[o] /\ Event(o)' = Event(o)
    BY <1>2, ClusterAlone DEF ControllerRestarts
  <1>4. /\ \A u \in Watches : u[1] # c => queue'[u] = queue[u]
        /\ \A u \in Watches : u[1] = c => queue'[u] \in Lists(u)
    <2>1. PICK s \in Lists(<<c, "pods">>), t \in Lists(<<c, "services">>) :
              queue' = [queue EXCEPT ![<<c, "pods">>] = s, ![<<c, "services">>] = t]
      BY DEF ControllerRestarts
    <2>2. \A u \in Watches : u[1] = c => u = <<c, "pods">> \/ u = <<c, "services">>
      BY WatchTypes DEF WatchesOf
    <2>3. queue \in [Watches -> Seq(Events)]
      BY <1>1 DEF TypeOK
    <2>4. queue'[<<c, "pods">>] = s /\ queue'[<<c, "services">>] = t
      BY <2>1, <2>3, WatchTypes
    <2>5. \A u \in Watches : u[1] # c => queue'[u] = queue[u]
      BY <2>1, <2>3, WatchTypes
    <2> QED
      BY <2>2, <2>4, <2>5
  <1>5. row' = row /\ silent' = silent \ {c}
    BY DEF ControllerRestarts
  <1>6. ASSUME NEW o \in Objects, now'[o] # NoValue, KeyOf[o] \notin spoilt'
        PROVE  Current(o)'
    <2> DEFINE k == KeyOf[o]
    <2>1. /\ \A u \in Busy(k) : u \in seers[o] /\ EndsWith(queue[u], posting[u], k, Event(o))
          /\ Reported(o) /\ Busy(k) = {} => row[k] = Event(o)
      BY <1>2, <1>3, <1>6, AllCurrent DEF IInv, Current
    <2>2. \A u \in Watches : \A e \in Listed(u) : IsOf(e, k) => e = Event(o) /\ u \in seers[o]
      <3>1. TAKE u \in Watches
      <3>2. TAKE e \in Listed(u)
      <3>3. HAVE IsOf(e, k)
      <3>4. PICK p \in Objects : now[p] # NoValue /\ u \in seers[p] /\ e = Event(p)
        BY DEF Listed
      <3>5. KeyOf[p] = k
        BY <3>3, <3>4 DEF IsOf, Event
      <3>6. p = o
        BY <1>2, <1>3, <1>6, <3>4, <3>5 DEF IInv, OneIsLive
      <3> QED
        BY <3>4, <3>6
    <2>3. ASSUME NEW u \in Watches, u[1] = c, Pending(queue'[u], posting'[u], k)
          PROVE  u \in seers[o] /\ EndsWith(queue'[u], posting'[u], k, Event(o))
      <3>1. posting'[u] = NoEvent /\ ~IsOf(NoEvent, k)
        BY <1>2, <2>3 DEF IsOf
      <3>2. \A i \in DOMAIN queue'[u] : queue'[u][i] \in Listed(u)
        BY <1>1, <1>4, <2>3, ListTypes
      <3> QED
        BY <2>2, <2>3, <3>1, <3>2 DEF Pending, EndsWith
    <2>4. ASSUME NEW u \in Watches, u[1] = c, u \in seers[o]
          PROVE  u \in Busy(k)'
      <3>1. Event(o) \in Listed(u)
        BY <1>3, <1>6, <2>4 DEF Listed
      <3>2. PICK i \in DOMAIN queue'[u] : queue'[u][i] = Event(o)
        BY <1>1, <1>4, <2>4, <3>1, ListTypes
      <3>3. IsOf(Event(o), k)
        <4>1. now[o] \in Values
          BY <1>1, <1>3, <1>6 DEF TypeOK
        <4> QED
          BY <4>1, ValuesAssumption DEF IsOf, Event
      <3> QED
        BY <3>2, <3>3, BusyIsPending DEF Pending
    <2>5. ASSUME NEW u \in Busy(k)'
          PROVE  u \in seers[o] /\ EndsWith(queue'[u], posting'[u], k, Event(o))
      <3>1. u \in Watches /\ Pending(queue'[u], posting'[u], k)
        BY BusyIsPending
      <3>2. CASE u[1] # c
        <4>1. queue'[u] = queue[u] /\ posting'[u] = posting[u]
          BY <1>2, <1>4, <3>1, <3>2
        <4>2. u \in Busy(k)
          BY <3>1, <4>1, BusyIsPending
        <4> QED
          BY <2>1, <4>1, <4>2
      <3> QED
        BY <2>3, <3>1, <3>2
    <2>6. ASSUME Reported(o)', Busy(k)' = {}
          PROVE  row'[k] = Event(o)
      <3>1. PICK u \in seers[o] : u[1] \notin silent'
        BY <1>3, <2>6 DEF Reported
      <3>2. u \in Watches
        BY <1>1 DEF TypeOK
      <3>3. u[1] # c
        BY <2>4, <2>6, <3>2
      <3>4. Reported(o)
        BY <1>5, <3>1, <3>3 DEF Reported
      <3>5. Busy(k) = {}
        <4>1. SUFFICES ASSUME NEW w \in Busy(k)
                       PROVE  FALSE
          OBVIOUS
        <4>2. w \in Watches /\ w \in seers[o] /\ Pending(queue[w], posting[w], k)
          BY <2>1, <4>1, BusyIsPending
        <4>3. w[1] # c
          BY <2>4, <2>6, <4>2
        <4>4. queue'[w] = queue[w] /\ posting'[w] = posting[w]
          BY <1>2, <1>4, <4>2, <4>3
        <4>5. w \in Busy(k)'
          BY <4>2, <4>4, BusyIsPending
        <4> QED
          BY <2>6, <4>5
      <3> QED
        BY <1>5, <2>1, <3>4, <3>5
    <2> QED
      BY <1>3, <2>5, <2>6 DEF Current
  <1>7. \A o \in Objects : Current(o)'
    BY <1>6 DEF Current
  <1> QED
    BY <1>3, <1>7, AllCurrent DEF Inv

(* A change is the last that every watch told of it has to post; a key of  *)
(* which that cannot be said is spoilt.                                    *)
LEMMA ChangeKeeps ==
  ASSUME IInv, NEW o \in Objects, NEW v \in Values, NEW W \in SUBSET Watches, Change(o, v, W)
  PROVE  Inv'
  <1> DEFINE k == KeyOf[o]
             e == [obj |-> o, val |-> v]
  <1>1. TypeOK /\ k \in Keys /\ e \in Events /\ IsOf(e, k)
    BY EventTypes DEF IInv, IsOf
  <1>2. /\ \A p \in Objects : /\ now'[p] = IF p = o THEN v ELSE now[p]
                              /\ seers'[p] = IF p = o THEN W ELSE seers[p]
        /\ row' = row /\ silent' = silent /\ stray' = stray /\ posting' = posting
    BY <1>1 DEF Change, TypeOK
  <1>3. \A u \in Watches :
          queue'[u] = IF u \in W /\ u[1] \notin silent THEN Append(queue[u], e) ELSE queue[u]
    BY DEF Change
  <1>4. \A j : j # k => (j \in spoilt' <=> j \in spoilt)
    BY DEF Change
  <1>5. k \notin spoilt' => /\ Live(k) \ {o} = {} /\ Busy(k) \subseteq W
                            /\ \A x \in stray : KeyOf[x.obj] # k
    <2>1. k \notin spoilt => \A x \in stray : KeyOf[x.obj] # k
      BY DEF IInv, StrayIsSpoilt
    <2>2. \A x \in stray : x # NoEvent
      BY <1>1, EventTypes DEF TypeOK
    <2>3. (~\E x \in stray : IsOf(x, k)) => \A x \in stray : KeyOf[x.obj] # k
      BY <2>2 DEF IsOf
    <2> QED
      BY <2>1, <2>3 DEF Change
  <1>6. StrayIsSpoilt'
    BY <1>2, <1>4, <1>5 DEF IInv, StrayIsSpoilt
  <1>7. \A p \in Objects : now[p] # NoValue /\ KeyOf[p] = k /\ p # o => k \in spoilt'
    BY <1>5 DEF Live
  <1>8. OneIsLive'
    <2>1. SUFFICES ASSUME NEW p \in Objects, NEW r \in Objects, now'[p] # NoValue,
                          now'[r] # NoValue, KeyOf[p] = KeyOf[r], KeyOf[p] \notin spoilt'
                   PROVE  p = r
      BY DEF OneIsLive
    <2>2. CASE KeyOf[p] = k
      BY <1>2, <1>7, <2>1, <2>2
    <2>3. CASE KeyOf[p] # k
      BY <1>2, <1>4, <2>1, <2>3 DEF IInv, OneIsLive
    <2> QED
      BY <2>2, <2>3
  <1>9. ASSUME NEW p \in Objects, KeyOf[p] # k
        PROVE  Current(p)'
    <2>1. Current(p)
      BY AllCurrent DEF IInv
    <2>2. ~IsOf(e, KeyOf[p])
      BY <1>9 DEF IsOf
    <2>3. \A u \in Watches : queue[u] \in Seq(Events)
      BY <1>1 DEF TypeOK
    <2>4. ASSUME NEW u \in Watches
          PROVE
            /\ Pending(queue'[u], posting'[u], KeyOf[p]) <=> Pending(queue[u], posting[u], KeyOf[p])
            /\ EndsWith(queue[u], posting[u], KeyOf[p], Event(p))
                 => EndsWith(queue'[u], posting'[u], KeyOf[p], Event(p))
      <3>1. queue[u] \in Seq(Events) /\ posting'[u] = posting[u]
        BY <1>2, <2>3
      <3>2. CASE u \in W /\ u[1] \notin silent
        <4>1. queue'[u] = Append(queue[u], e)
          BY <1>3, <3>2
        <4> HIDE DEF e
        <4> QED
          BY <1>1, <2>2, <3>1, <4>1, ToldOther
      <3>3. CASE ~(u \in W /\ u[1] \notin silent)
        <4>1. queue'[u] = queue[u]
          BY <1>3, <3>3
        <4> QED
          BY <3>1, <4>1
      <3> QED
        BY <3>2, <3>3
    <2>5. Busy(KeyOf[p])' = Busy(KeyOf[p]) /\ Busy(KeyOf[p]) \subseteq Watches
      BY <2>4, BusyIsPending
    <2>6. now'[p] = now[p] /\ seers'[p] = seers[p] /\ Event(p)' = Event(p)
      BY <1>2, <1>9 DEF Event
    <2>7. Reported(p)' = Reported(p)
      BY <1>2, <2>6 DEF Reported
    <2> QED
      BY <1>2, <1>4, <1>9, <2>1, <2>4, <2>5, <2>6, <2>7 DEF Current
  <1>10. ASSUME NEW p \in Objects, KeyOf[p] = k, p # o
         PROVE  Current(p)'
    BY <1>2, <1>7, <1>10 DEF Current
  <1>11. ASSUME k \notin spoilt'
         PROVE  Current(o)'
    <2>1. Event(o)' = e /\ seers'[o] = W
      BY <1>2 DEF Event
    <2>2. ASSUME NEW u \in Watches, u \in W, u[1] \notin silent
          PROVE  /\ Pending(queue'[u], posting'[u], k)
                 /\ EndsWith(queue'[u], posting'[u], k, e)
      <3>1. queue[u] \in Seq(Events) /\ queue'[u] = Append(queue[u], e)
        BY <1>1, <1>3, <2>2 DEF TypeOK
      <3> QED
        BY <1>1, <3>1, ToldLast
    <2>3. ASSUME NEW u \in Watches, ~(u \in W /\ u[1] \notin silent)
          PROVE  ~Pending(queue'[u], posting'[u], k)
      <3>1. queue'[u] = queue[u] /\ posting'[u] = posting[u]
        BY <1>2, <1>3, <2>3
      <3>2. CASE u[1] \in silent
        <4>1. queue[u] = <<>> /\ posting[u] = NoEvent
          BY <1>1, <3>2 DEF TypeOK
        <4> QED
          BY <3>1, <4>1 DEF Pending, IsOf
      <3>3. CASE u \notin W
        BY <1>5, <1>11, <3>1, <3>3, BusyIsPending
      <3> QED
        BY <2>3, <3>2, <3>3
    <2>4. \A u \in Busy(k)' : u \in W /\ EndsWith(queue'[u], posting'[u], k, e)
      BY <2>2, <2>3, BusyIsPending
    <2>5. Reported(o)' => Busy(k)' # {}
      <3>1. SUFFICES ASSUME Reported(o)'
                     PROVE  Busy(k)' # {}
        OBVIOUS
      <3>2. PICK u \in W : u[1] \notin silent
        BY <1>2, <2>1, <3>1 DEF Reported
      <3>3. u \in Busy(k)'
        BY <2>2, <3>2, BusyIsPending
      <3> QED
        BY <3>3
    <2> QED
      BY <2>1, <2>4, <2>5 DEF Current
  <1>12. Current(o)'
    BY <1>11 DEF Current
  <1> QED
    BY <1>6, <1>8, <1>9, <1>10, <1>12, AllCurrent DEF Inv

LEMMA InvInductive ==
  ASSUME IInv, [Next]_vars
  PROVE  IInv'
  <1>0. TypeOK'
    BY TypeInductive DEF IInv
  <1>1. CASE \E p \in Pods, v \in Values, c \in Controllers : PodStarts(p, v, c)
    <2>1. PICK p \in Pods, v \in Values, c \in Controllers : PodStarts(p, v, c)
      BY <1>1
    <2>2. p \in Objects
      BY DEF Objects
    <2>3. <<c, "pods">> \in Watches
      BY WatchTypes
    <2>4. {<<c, "pods">>} \in SUBSET Watches
      BY <2>3
    <2> QED
      BY <1>0, <2>1, <2>2, <2>4, ChangeKeeps DEF PodStarts, Inv, IInv
  <1>2. CASE \E s \in Services, v \in Values : ServiceChanges(s, v)
    <2>1. PICK s \in Services, v \in Values : ServiceChanges(s, v)
      BY <1>2
    <2>2. Controllers \X {"services"} \in SUBSET Watches /\ s \in Objects
      BY WatchTypes DEF Objects
    <2> QED
      BY <1>0, <2>1, <2>2, ChangeKeeps DEF ServiceChanges, Inv, IInv
  <1>3. CASE \E o \in Objects : Removed(o)
    BY <1>0, <1>3, RemovedKeeps DEF Inv, IInv
  <1>4. ASSUME NEW w \in Watches, Post(w) \/ Store(w) \/ Refused(w) \/ ConnectionBreaks(w)
        PROVE  IInv'
    <2>1. CASE Post(w)
      BY <1>0, <2>1, PostKeeps DEF Inv, IInv
    <2>2. CASE Store(w)
      <3>1. Inv'
        BY <2>2, EndKeeps DEF Store
      <3> QED
        BY <1>0, <3>1 DEF Inv, IInv
    <2>3. CASE Refused(w)
      <3>1. Ends(w) /\ Spoils(w) /\ stray' \subseteq stray \cup {posting[w]}
            /\ UNCHANGED <<clusterVars, queue, silent>> /\ UNCHANGED row
        BY <2>3 DEF Refused
      <3>2. Inv'
        BY <3>1, EndKeeps
      <3> QED
        BY <1>0, <3>2 DEF Inv, IInv
    <2>4. CASE ConnectionBreaks(w)
      <3>1. Ends(w) /\ Spoils(w) /\ stray' \subseteq stray \cup {posting[w]}
            /\ UNCHANGED <<clusterVars, queue, silent>> /\ UNCHANGED row
        BY <2>4 DEF ConnectionBreaks
      <3>2. Inv'
        BY <3>1, EndKeeps
      <3> QED
        BY <1>0, <3>2 DEF Inv, IInv
    <2> QED
      BY <1>4, <2>1, <2>2, <2>3, <2>4
  <1>5. CASE \E e \in stray : Lands(e)
    BY <1>0, <1>5, LandsKeeps DEF Inv, IInv
  <1>6. CASE \E c \in Controllers : TaskFails(c) \/ ControllerRestarts(c)
    BY <1>0, <1>6, TaskFailsKeeps, RestartKeeps DEF Inv, IInv
  <1>7. CASE UNCHANGED vars
    BY <1>0, <1>7 DEF IInv, vars, clusterVars, StrayIsSpoilt, OneIsLive, LastIsCurrent,
                      SettledIsCurrent, Settled, Reported, Busy, Event
  <1> QED
    BY <1>1, <1>2, <1>3, <1>4, <1>5, <1>6, <1>7 DEF Next

LEMMA InvInit ==
  ASSUME Init
  PROVE  IInv
  <1>1. TypeOK
    BY BoundsAssumption DEF Init, TypeOK
  <1>2. \A o \in Objects : now[o] = NoValue
    BY DEF Init
  <1> QED
    BY <1>1, <1>2 DEF Init, IInv, StrayIsSpoilt, OneIsLive, LastIsCurrent, SettledIsCurrent, Settled

(* Cluster, watches, requests and rows have their types, and each row is   *)
(* of the object whose key it has (add.rs, upsert_pod_details).            *)
THEOREM TypeCorrect == Spec => []TypeOK
  <1>1. IInv /\ [Next]_vars => IInv'
    BY InvInductive
  <1>2. IInv => TypeOK
    BY DEF IInv
  <1> QED
    BY InvInit, <1>1, <1>2, PTL DEF Spec

(* Several controllers that post the same service in any order, fall       *)
(* silent and begin again leave the broker with what is true, once those   *)
(* that run are through (pod_watcher.rs, service_watcher.rs, add.rs).      *)
THEOREM SettledIsCurrentCorrect == Spec => []SettledIsCurrent
  <1>1. IInv /\ [Next]_vars => IInv'
    BY InvInductive
  <1>2. IInv => SettledIsCurrent
    BY DEF IInv
  <1> QED
    BY InvInit, <1>1, <1>2, PTL DEF Spec
-------------------------------------------------------------------------------
(* Whom a policy is made for.                                              *)

(* What the watches, the requests and the broker know, true or not.        *)
Known(e) ==
    \/ e \in stray \/ \E k \in Keys : e = row[k]
    \/ \E w \in Watches : e = posting[w] \/ e \in InRange(queue[w])

(* What is true of the objects there are.                                  *)
There == {Event(o) : o \in {p \in Objects : now[p] # NoValue}}

(* Nothing comes to be known that was never true.                          *)
LEMMA NewsIsTrue ==
  ASSUME TypeOK, [Next]_vars, NEW e, Known(e)', e # NoEvent
  PROVE  Known(e) \/ e \in There \cup There'
  <1>1. ASSUME NEW f, Known(f), Upsert(f), NEW k \in Keys
        PROVE  Known(row'[k])
    BY <1>1 DEF Known, Upsert
  <1>2. ASSUME NEW o \in Objects, NEW v \in Values, NEW W \in SUBSET Watches, Change(o, v, W)
        PROVE  Known(e) \/ e \in There'
    <2>1. v # NoValue /\ now'[o] = v
      BY <1>2, ValuesAssumption DEF Change, TypeOK
    <2>2. [obj |-> o, val |-> v] \in There'
      BY <2>1 DEF There, Event
    <2>3. ASSUME NEW w \in Watches
          PROVE  InRange(queue'[w]) \subseteq InRange(queue[w]) \cup {[obj |-> o, val |-> v]}
      <3>1. queue[w] \in Seq(Events) /\ queue'[w] \in {queue[w], Append(queue[w], [obj |-> o, val |-> v])}
        BY <1>2 DEF Change, TypeOK
      <3>2. [obj |-> o, val |-> v] \in Events
        BY EventTypes
      <3> QED
        BY <3>1, <3>2 DEF InRange
    <2>4. UNCHANGED <<posting, stray, row>>
      BY <1>2 DEF Change
    <2> QED
      BY <2>2, <2>3, <2>4 DEF Known
  <1>3. CASE \E p \in Pods, v \in Values, c \in Controllers : PodStarts(p, v, c)
    <2>1. PICK p \in Pods, v \in Values, c \in Controllers : Change(p, v, {<<c, "pods">>})
      BY <1>3 DEF PodStarts
    <2>2. <<c, "pods">> \in Watches
      BY WatchTypes
    <2>3. p \in Objects /\ {<<c, "pods">>} \in SUBSET Watches
      BY <2>2 DEF Objects
    <2> QED
      BY <1>2, <2>1, <2>3
  <1>4. CASE \E s \in Services, v \in Values : ServiceChanges(s, v)
    <2>1. PICK s \in Services, v \in Values : Change(s, v, Controllers \X {"services"})
      BY <1>4 DEF ServiceChanges
    <2>2. Controllers \X {"services"} \in SUBSET Watches /\ s \in Objects
      BY WatchTypes DEF Objects
    <2> QED
      BY <1>2, <2>1, <2>2
  <1>5. CASE \/ \E o \in Objects : Removed(o)
             \/ UNCHANGED vars
    BY <1>5 DEF Known, Removed, vars
  <1>6. ASSUME NEW w \in Watches, Post(w)
        PROVE  Known(e)
    <2>1. queue[w] \in Seq(Events) /\ queue[w] # <<>>
      BY <1>6 DEF Post, TypeOK
    <2>2. Head(queue[w]) \in InRange(queue[w]) /\ InRange(Tail(queue[w])) \subseteq InRange(queue[w])
      BY <2>1 DEF InRange
    <2>3. /\ \A u \in Watches : posting'[u] \in {posting[u], Head(queue[w])}
          /\ \A u \in Watches : InRange(queue'[u]) \subseteq InRange(queue[u])
          /\ UNCHANGED <<stray, row>>
      BY <1>6, <2>2 DEF Post, TypeOK
    <2> QED
      BY <2>2, <2>3 DEF Known
  <1>7. ASSUME NEW w \in Watches, Store(w) \/ Refused(w) \/ ConnectionBreaks(w)
        PROVE  Known(e)
    <2>1. Known(posting[w])
      BY DEF Known
    <2>2. /\ \A u \in Watches : posting'[u] \in {posting[u], NoEvent}
          /\ stray' \subseteq stray \cup {posting[w]} /\ queue' = queue
          /\ row' = row \/ Upsert(posting[w])
      BY <1>7 DEF Store, Refused, ConnectionBreaks, Ends, TypeOK
    <2>3. \A k \in Keys : Known(row'[k])
      BY <1>1, <2>1, <2>2 DEF Known
    <2> QED
      BY <2>1, <2>2, <2>3 DEF Known
  <1>8. ASSUME NEW f \in stray, Lands(f)
        PROVE  Known(e)
    <2>1. Known(f)
      BY DEF Known
    <2>2. stray' \subseteq stray /\ Upsert(f) /\ UNCHANGED <<posting, queue>>
      BY <1>8 DEF Lands
    <2>3. \A k \in Keys : Known(row'[k])
      BY <1>1, <2>1, <2>2
    <2> QED
      BY <2>2, <2>3 DEF Known
  <1>9. ASSUME NEW c \in Controllers, NEW undone \in SUBSET Keys, Leaves(c, undone)
        PROVE  /\ \A x \in stray' : Known(x)
               /\ \A w \in Watches : posting'[w] \in {posting[w], NoEvent}
    <2>1. stray' \subseteq stray \cup {posting[w] : w \in WatchesOf(c)}
      BY <1>9 DEF Leaves
    <2>2. WatchesOf(c) \subseteq Watches
      BY WatchTypes
    <2>3. \A w \in Watches : posting'[w] \in {posting[w], NoEvent}
      BY <1>9 DEF Leaves
    <2> QED
      BY <2>1, <2>2, <2>3 DEF Known
  <1>10. ASSUME NEW c \in Controllers, TaskFails(c)
         PROVE  Known(e)
    <2> DEFINE undone == {k \in Keys : Busy(k) \cap WatchesOf(c) # {}}
    <2>1. undone \in SUBSET Keys /\ Leaves(c, undone)
      BY <1>10 DEF TaskFails
    <2> HIDE DEF undone
    <2>2. row' = row /\ \A w \in Watches : InRange(queue'[w]) \subseteq InRange(queue[w])
      BY <1>10 DEF TaskFails, InRange, TypeOK
    <2>3. (\A x \in stray' : Known(x)) /\ \A w \in Watches : posting'[w] \in {posting[w], NoEvent}
      BY <1>9, <2>1
    <2> QED
      BY <2>2, <2>3 DEF Known
  <1>11. ASSUME NEW c \in Controllers, ControllerRestarts(c)
         PROVE  Known(e) \/ e \in There
    <2>1. Leaves(c, {}) /\ row' = row
      BY <1>11 DEF ControllerRestarts
    <2>2. PICK s \in Lists(<<c, "pods">>), t \in Lists(<<c, "services">>) :
              queue' = [queue EXCEPT ![<<c, "pods">>] = s, ![<<c, "services">>] = t]
      BY <1>11 DEF ControllerRestarts
    <2>3. \A w \in Watches : Listed(w) \subseteq There
      BY DEF Listed, There
    <2>4. InRange(s) \subseteq There /\ InRange(t) \subseteq There
      BY <2>3, ListTypes, WatchTypes DEF InRange
    <2>5. \A w \in Watches : queue'[w] \in {queue[w], s, t}
      BY <2>2 DEF TypeOK
    <2>6. (\A x \in stray' : Known(x)) /\ \A w \in Watches : posting'[w] \in {posting[w], NoEvent}
      BY <1>9, <2>1
    <2> QED
      BY <2>1, <2>4, <2>5, <2>6 DEF Known
  <1> QED
    BY <1>3, <1>4, <1>5, <1>6, <1>7, <1>8, <1>10, <1>11 DEF Next

(* An address is not used again by another pod.                            *)
AddressesAreOwn(Owner) == \A p \in Pods : now[p] # NoValue => Owner[now[p]] = p

(* Nor does anybody know of it as another's.                               *)
KnownAreOwn(Owner) == \A e : Known(e) /\ e # NoEvent /\ e.obj \in Pods => Owner[e.val] = e.obj

(* As long as no address is used again, a policy that is asked for a pod   *)
(* is made of no other: that the rows of pods stay for ever does no harm,  *)
(* and what the run catalogue_policy finds needs a second owner (get.rs,   *)
(* generator.go).                                                          *)
THEOREM PolicyIsOfItsPodOfOwnAddress ==
  ASSUME NEW Owner
  PROVE  Spec /\ []AddressesAreOwn(Owner) => []PolicyIsOfItsPod
  <1>1. Init => KnownAreOwn(Owner)
    BY DEF Known, Init, KnownAreOwn, InRange
  <1>2. /\ TypeOK /\ KnownAreOwn(Owner) /\ [Next]_vars
        /\ AddressesAreOwn(Owner) /\ AddressesAreOwn(Owner)'
        => KnownAreOwn(Owner)'
    <2> SUFFICES ASSUME TypeOK, KnownAreOwn(Owner), [Next]_vars,
                        AddressesAreOwn(Owner), AddressesAreOwn(Owner)',
                        NEW e, Known(e)', e # NoEvent, e.obj \in Pods
                 PROVE  Owner[e.val] = e.obj
      BY DEF KnownAreOwn
    <2>1. CASE Known(e)
      BY <2>1 DEF KnownAreOwn
    <2>2. CASE e \in There
      BY <2>2 DEF There, Event, AddressesAreOwn
    <2>3. CASE e \in There'
      BY <2>3 DEF There, Event, AddressesAreOwn
    <2> QED
      BY <2>1, <2>2, <2>3, NewsIsTrue
  <1>3. KnownAreOwn(Owner) /\ AddressesAreOwn(Owner) => PolicyIsOfItsPod
    <2> SUFFICES ASSUME KnownAreOwn(Owner), AddressesAreOwn(Owner),
                        NEW p \in Pods, Settled(p), NEW q \in PolicyIsOf({now[p]})
                 PROVE  q = p
      BY DEF PolicyIsOfItsPod
    <2>1. PICK k \in Keys : row[k] # NoEvent /\ row[k].val = now[p] /\ q = row[k].obj /\ q \in Pods
      BY DEF PolicyIsOf, PodsAt
    <2>2. Owner[now[p]] = q
      BY <2>1 DEF Known, KnownAreOwn
    <2> QED
      BY <2>2 DEF AddressesAreOwn, Settled
  <1> QED
    BY <1>1, <1>2, <1>3, TypeCorrect, PTL DEF Spec

(* A pod that has settled is among those its address stands for: the       *)
(* advisor finds it, or another that had the address before (get.rs).      *)
PolicyFindsItsPod == \A p \in Pods : Settled(p) => p \in PolicyIsOf({now[p]})

THEOREM PolicyFindsItsPodCorrect == Spec => []PolicyFindsItsPod
  <1>1. TypeOK /\ SettledIsCurrent => PolicyFindsItsPod
    <2> SUFFICES ASSUME TypeOK, SettledIsCurrent, NEW p \in Pods, Settled(p)
                 PROVE  p \in PodsAt(now[p])
      BY DEF PolicyFindsItsPod, PolicyIsOf
    <2>1. p \in Objects /\ row[KeyOf[p]] = Event(p) /\ KeyOf[p] \in Keys
      BY EventTypes DEF SettledIsCurrent, Objects
    <2>2. Event(p) # NoEvent /\ Event(p).obj = p /\ Event(p).val = now[p]
      BY <2>1, ValuesAssumption DEF Event, Settled, TypeOK
    <2> QED
      BY <2>1, <2>2 DEF PodsAt
  <1> QED
    BY <1>1, TypeCorrect, SettledIsCurrentCorrect, PTL
================================================================================

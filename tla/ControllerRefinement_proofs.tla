---------------------- MODULE ControllerRefinement_proofs ----------------------
(***************************************************************************)
(* The way of an event from the kernel to its handler, through a perf      *)
(* buffer, a batch and a channel, is the one bounded queue of EventPipe,   *)
(* for all capacities and faults.                                          *)
(***************************************************************************)
EXTENDS ControllerPipeline_proofs, SequenceTheorems

-------------------------------------------------------------------------------
(* Facts about a queue that lies in three places, one behind the other. *)

(* Its elements and its length.                                            *)
LEMMA ThreeParts ==
    ASSUME NEW S, NEW c \in Seq(S), NEW b \in Seq(S), NEW p \in Seq(S)
    PROVE  /\ c \o b \in Seq(S) /\ c \o b \o p \in Seq(S)
           /\ Len(c \o b \o p) = Len(c) + Len(b) + Len(p)
  <1>1. c \o b \in Seq(S) /\ Len(c \o b) = Len(c) + Len(b)
    BY ConcatProperties
  <1> QED BY <1>1, ConcatProperties

(* Taking a sequence apart. *)
LEMMA HeadThenTail ==
    ASSUME NEW S, NEW s \in Seq(S), s # <<>>
    PROVE  /\ Head(s) \in S /\ <<Head(s)>> \in Seq(S) /\ Tail(s) \in Seq(S)
           /\ s = <<Head(s)>> \o Tail(s)
  OBVIOUS

(* What follows the first element is the tail.                             *)
LEMMA TailOfConcat ==
    ASSUME NEW S, NEW e \in S, NEW s \in Seq(S)
    PROVE  /\ <<e>> \o s # <<>>
           /\ Head(<<e>> \o s) = e
           /\ Tail(<<e>> \o s) = s
  OBVIOUS

(* Joining the last part is joining the queue.                             *)
LEMMA PutLast ==
    ASSUME NEW S, NEW c \in Seq(S), NEW b \in Seq(S), NEW p \in Seq(S), NEW e \in S
    PROVE  c \o b \o Append(p, e) = Append(c \o b \o p, e)
  <1>1. c \o b \in Seq(S) /\ c \o b \o p \in Seq(S) /\ <<e>> \in Seq(S)
    BY ThreeParts
  <1>2. Append(p, e) = p \o <<e>> /\ Append(c \o b \o p, e) = (c \o b \o p) \o <<e>>
    BY <1>1, AppendIsConcat
  <1>3. (c \o b) \o (p \o <<e>>) = ((c \o b) \o p) \o <<e>>
    BY <1>1, ConcatAssociative
  <1> QED BY <1>2, <1>3

(* The queue apart from the first element of its first part.               *)
LEMMA FirstApart ==
    ASSUME NEW S, NEW c \in Seq(S), NEW b \in Seq(S), NEW p \in Seq(S), c # <<>>
    PROVE  /\ Head(c) \in S /\ Tail(c) \o b \o p \in Seq(S)
           /\ c \o b \o p = <<Head(c)>> \o (Tail(c) \o b \o p)
  <1> DEFINE h == Head(c)
             t == Tail(c)
  <1>1. h \in S /\ <<h>> \in Seq(S) /\ t \in Seq(S) /\ c = <<h>> \o t
    BY HeadThenTail
  <1>2. t \o b \in Seq(S) /\ t \o b \o p \in Seq(S)
    BY <1>1, ThreeParts
  <1> HIDE DEF h, t
  <1>3. (<<h>> \o t) \o b = <<h>> \o (t \o b)
    BY <1>1, ConcatAssociative
  <1>4. (<<h>> \o (t \o b)) \o p = <<h>> \o ((t \o b) \o p)
    BY <1>1, <1>2, ConcatAssociative
  <1>5. c \o b \o p = <<h>> \o (t \o b \o p)
    BY <1>1, <1>3, <1>4
  <1> QED BY <1>1, <1>2, <1>5 DEF h, t

(* Leaving the first part is leaving the queue.                            *)
LEMMA TakeFirst ==
    ASSUME NEW S, NEW c \in Seq(S), NEW b \in Seq(S), NEW p \in Seq(S), c # <<>>
    PROVE  c \o b \o p # <<>> /\ Head(c \o b \o p) = Head(c)
  <1> DEFINE h == Head(c)
             r == Tail(c) \o b \o p
             w == c \o b \o p
  <1>1. h \in S /\ r \in Seq(S) /\ w = <<h>> \o r
    BY FirstApart
  <1> HIDE DEF h, r, w
  <1>2. w # <<>> /\ Head(w) = h
    BY <1>1, TailOfConcat
  <1> QED BY <1>2 DEF h, w

(* And what is left of it is what is left of the first part, and the rest. *)
LEMMA RestStays ==
    ASSUME NEW S, NEW c \in Seq(S), NEW b \in Seq(S), NEW p \in Seq(S), c # <<>>
    PROVE  Tail(c \o b \o p) = Tail(c) \o b \o p
  <1> DEFINE h == Head(c)
             r == Tail(c) \o b \o p
             w == c \o b \o p
  <1>1. h \in S /\ r \in Seq(S) /\ w = <<h>> \o r
    BY FirstApart
  <1> HIDE DEF h, r, w
  <1>2. Tail(w) = r
    BY <1>1, TailOfConcat
  <1> QED BY <1>2 DEF r, w

(* The head of the second part moves to the end of the first.              *)
LEMMA MoveOn ==
    ASSUME NEW S, NEW c \in Seq(S), NEW b \in Seq(S), NEW p \in Seq(S), b # <<>>
    PROVE  Append(c, Head(b)) \o Tail(b) \o p = c \o b \o p
  <1> DEFINE h == Head(b)
             t == Tail(b)
  <1>1. h \in S /\ <<h>> \in Seq(S) /\ t \in Seq(S) /\ b = <<h>> \o t
    BY HeadThenTail
  <1> HIDE DEF h, t
  <1>2. Append(c, h) = c \o <<h>>
    BY <1>1, AppendIsConcat
  <1>3. (c \o <<h>>) \o t = c \o (<<h>> \o t)
    BY <1>1, ConcatAssociative
  <1>4. Append(c, h) \o t \o p = c \o b \o p
    BY <1>1, <1>2, <1>3
  <1> QED BY <1>4 DEF h, t

(* The last part moves to the second, which is empty.                      *)
LEMMA MoveAll ==
    ASSUME NEW S, NEW c \in Seq(S), NEW p \in Seq(S)
    PROVE  c \o p \o <<>> = c \o <<>> \o p
  <1>1. c \o p \in Seq(S)
    BY ConcatProperties
  <1> QED BY <1>1, ConcatEmptySeq

(* What is left of w when its first elements are dropped.                  *)
RestOf(w, s) == \E n \in 0 .. Len(w) : s = SubSeq(w, n + 1, Len(w))

(* Without the first part, the rest of the queue is left.                  *)
LEMMA DropFirst ==
    ASSUME NEW S, NEW c \in Seq(S), NEW b \in Seq(S), NEW p \in Seq(S)
    PROVE  RestOf(c \o b \o p, <<>> \o b \o p)
  <1> DEFINE r == b \o p
             w == c \o b \o p
             s == SubSeq(w, Len(c) + 1, Len(w))
  <1>1. r \in Seq(S) /\ w = c \o r /\ <<>> \o b \o p = r
    BY ConcatProperties, ConcatAssociative, ConcatEmptySeq
  <1> HIDE DEF r, w
  <1>2. /\ w \in Seq(S) /\ Len(w) = Len(c) + Len(r)
        /\ \A i \in 1 .. Len(c) + Len(r) :
              w[i] = IF i <= Len(c) THEN c[i] ELSE r[i - Len(c)]
    BY <1>1, ConcatProperties
  <1>3. Len(c) \in Nat /\ Len(r) \in Nat
    BY <1>1, LenProperties
  <1>4. \A i \in Len(c) + 1 .. Len(w) : w[i] \in S
    BY <1>2, <1>3, ElementOfSeq
  <1>5. /\ s \in Seq(S) /\ Len(s) = Len(r)
        /\ \A i \in 1 .. Len(r) : s[i] = w[Len(c) + i]
    <2>1. Len(c) + 1 \in Int /\ Len(w) \in Int
      BY <1>2, <1>3
    <2>2. /\ s \in Seq(S)
          /\ Len(s) = IF Len(c) + 1 <= Len(w) THEN Len(w) - (Len(c) + 1) + 1 ELSE 0
          /\ \A i \in 1 .. Len(w) - (Len(c) + 1) + 1 : s[i] = w[Len(c) + 1 + i - 1]
      BY <1>4, <2>1, SubSeqProperties
    <2> QED BY <1>2, <1>3, <2>2
  <1>6. ASSUME NEW i \in 1 .. Len(r) PROVE s[i] = r[i]
    <2>1. /\ Len(c) + i \in 1 .. Len(c) + Len(r) /\ ~(Len(c) + i <= Len(c))
          /\ Len(c) + i - Len(c) = i
      BY <1>3
    <2>2. w[Len(c) + i] = r[Len(c) + i - Len(c)]
      BY <1>2, <2>1
    <2> QED BY <1>5, <2>1, <2>2
  <1>7. s = r
    <2> HIDE DEF s
    <2> QED BY <1>1, <1>5, <1>6, SeqEqual
  <1>8. Len(c) \in 0 .. Len(w)
    BY <1>2, <1>3
  <1>9. <<>> \o b \o p = SubSeq(w, Len(c) + 1, Len(w))
    BY <1>1, <1>7
  <1> QED BY <1>8, <1>9 DEF w, RestOf

-------------------------------------------------------------------------------
(* The invariant. *)

USE DEF Kinds, Items, Event

(* No place holds more than it can, a process that is down monitors        *)
(* nothing, one that lost its tasks has no receivers, and a handler that   *)
(* receives has no event.                                                  *)
WayInv ==
    /\ \A k \in Kinds : Len(event_ch[k]) <= ChanCap /\ Len(perf[k]) <= PerfCap
    /\ Len(batch) <= PerfCap
    /\ proc = "down" => \A k \in Kinds : inode_num[k] = {}
    /\ proc = "zombie" => \A k \in Kinds : event_ch[k] = <<>>
    /\ proc # "up" => \A k \in Kinds : hpc[k] = "recv"
    /\ \A k \in Kinds : hpc[k] = "recv" => hev[k] = NoEvent

(* All places are empty at first.                                          *)
LEMMA InitWayInv == Init => WayInv
  <1>1. Len(<<>>) = 0 /\ 0 <= ChanCap /\ 0 <= PerfCap
    BY BoundsAssumption
  <1> QED BY <1>1 DEF Init, FreshProcess, WayInv

(* Every step keeps it, action by action.                                  *)
LEMMA StepWayInv == TypeOK /\ WayInv /\ [Next]_vars => WayInv'
  <1> SUFFICES ASSUME TypeOK, WayInv, [Next]_vars PROVE WayInv'
    OBVIOUS
  <1> USE DEF watcherVars, sharedVars, chanVars, ebpfVars, kernelVars, handlerVars, recorderVars
  <1>0. /\ Len(<<>>) = 0 /\ ChanCap \in Nat /\ PerfCap \in Nat
        /\ \A k \in Kinds : event_ch[k] \in Seq(Event(k)) /\ perf[k] \in Seq(Event(k))
        /\ DOMAIN event_ch = Kinds /\ DOMAIN perf = Kinds /\ DOMAIN hev = Kinds
        /\ DOMAIN hpc = Kinds /\ DOMAIN inode_num = Kinds
        /\ batch \in Seq(Event(ekind)) /\ ekind \in Kinds
    BY QueuesElement, BoundsAssumption DEF TypeOK, Queues
  <1>1. CASE UNCHANGED <<proc, event_ch, perf, batch, inode_num, hpc, hev>>
    BY <1>1 DEF WayInv
  <1>2. ASSUME NEW k \in Kinds, NEW p \in Pods, NEW x \in Items(k), Emit(k, p, x)
        PROVE  WayInv'
    <2> DEFINE e == [inum |-> netns[p], item |-> x]
    <2>1. /\ e \in Event(k) /\ Len(perf[k]) < PerfCap
          /\ perf' = [perf EXCEPT ![k] = Append(perf[k], e)]
      BY <1>2, InumsAssumption DEF Emit, TypeOK
    <2>2. UNCHANGED <<proc, event_ch, batch, inode_num, hpc, hev>>
      BY <1>2 DEF Emit
    <2> HIDE DEF e
    <2>3. Len(Append(perf[k], e)) = Len(perf[k]) + 1
      BY <1>0, <2>1, AppendProperties
    <2>4. Len(Append(perf[k], e)) <= PerfCap
      BY <1>0, <2>1, <2>3, LenProperties
    <2>5. \A j \in Kinds : Len(perf'[j]) <= PerfCap
      BY <1>0, <2>1, <2>4 DEF WayInv
    <2> QED BY <2>2, <2>5 DEF WayInv
  <1>3. CASE Poll
    <2>1. batch' = perf[ekind] /\ perf' = [perf EXCEPT ![ekind] = <<>>]
      BY <1>3 DEF Poll
    <2>2. UNCHANGED <<proc, event_ch, inode_num, hpc, hev>>
      BY <1>3 DEF Poll
    <2>3. \A j \in Kinds : Len(perf'[j]) <= PerfCap
      BY <1>0, <2>1 DEF WayInv
    <2> QED BY <1>0, <2>1, <2>2, <2>3 DEF WayInv
  <1>4. CASE Deliver
    <2>1. batch' = Tail(batch) /\ batch # <<>> /\ UNCHANGED <<proc, perf, inode_num, hpc, hev>>
      BY <1>4 DEF Deliver, TypeOK
    <2>2. Head(batch) \in Event(ekind) /\ Len(batch') <= PerfCap
      <3>1. Head(batch) \in Event(ekind) /\ Len(Tail(batch)) = Len(batch) - 1
        BY <1>0, <2>1, HeadTailProperties
      <3>2. Len(batch) \in Nat /\ Len(batch) <= PerfCap
        BY <1>0, LenProperties DEF WayInv
      <3> QED BY <1>0, <2>1, <3>1, <3>2
    <2>3. CASE proc = "zombie"
      <3>1. event_ch' = event_ch
        BY <1>4, <2>3 DEF Deliver
      <3> QED BY <2>1, <2>2, <3>1 DEF WayInv
    <2>4. CASE proc # "zombie"
      <3>1. /\ Len(event_ch[ekind]) < ChanCap
            /\ event_ch' = [event_ch EXCEPT ![ekind] = Append(event_ch[ekind], Head(batch))]
        BY <1>4, <2>4 DEF Deliver
      <3>2. Len(Append(event_ch[ekind], Head(batch))) = Len(event_ch[ekind]) + 1
        BY <1>0, <2>2, AppendProperties
      <3>3. Len(Append(event_ch[ekind], Head(batch))) <= ChanCap
        BY <1>0, <3>1, <3>2, LenProperties
      <3>4. \A j \in Kinds : Len(event_ch'[j]) <= ChanCap
        BY <1>0, <3>1, <3>3 DEF WayInv
      <3> QED BY <2>1, <2>2, <2>4, <3>4 DEF WayInv
    <2> QED BY <2>3, <2>4
  <1>5. CASE TryInum \/ MapSys
    <2>1. /\ proc # "down" /\ DOMAIN inode_num' = Kinds
          /\ UNCHANGED <<proc, event_ch, perf, batch, hpc, hev>>
      BY <1>0, <1>5 DEF TryInum, MapSys
    <2> QED BY <2>1 DEF WayInv
  <1>6. ASSUME NEW k \in Kinds, Recv(k) PROVE WayInv'
    <2>1. /\ proc = "up" /\ event_ch[k] # <<>>
          /\ event_ch' = [event_ch EXCEPT ![k] = Tail(event_ch[k])]
          /\ hpc' = [hpc EXCEPT ![k] = "lock"] /\ hev' = [hev EXCEPT ![k] = Head(event_ch[k])]
          /\ UNCHANGED <<proc, perf, batch, inode_num>>
      BY <1>6 DEF Recv
    <2>2. Len(Tail(event_ch[k])) <= ChanCap
      <3>1. Len(Tail(event_ch[k])) = Len(event_ch[k]) - 1
        BY <1>0, <2>1, HeadTailProperties
      <3>2. Len(event_ch[k]) \in Nat /\ Len(event_ch[k]) <= ChanCap
        BY <1>0, LenProperties DEF WayInv
      <3> QED BY <1>0, <3>1, <3>2
    <2>3. \A j \in Kinds : Len(event_ch'[j]) <= ChanCap
      BY <1>0, <2>1, <2>2 DEF WayInv
    <2>4. \A j \in Kinds : hpc'[j] = "recv" => hev'[j] = NoEvent
      BY <1>0, <2>1 DEF WayInv
    <2> QED BY <2>1, <2>3, <2>4 DEF WayInv
  <1>7. CASE BeginPost \/ (FindSet /\ ~Done("sys")) \/ AskSet
    <2>1. /\ proc = "up" /\ \A j \in Kinds : hpc'[j] = "recv" => hpc[j] = "recv"
          /\ UNCHANGED <<proc, event_ch, perf, batch, inode_num, hev>>
      BY <1>0, <1>7 DEF BeginPost, FindSet, AskSet
    <2> QED BY <2>1 DEF WayInv
  <1>8. ASSUME NEW k \in Kinds, Done(k), proc = "up",
               UNCHANGED <<proc, event_ch, perf, batch, inode_num>>
        PROVE  WayInv'
    <2>1. \A j \in Kinds : hpc'[j] = "recv" => hev'[j] = NoEvent
      BY <1>0, <1>8 DEF Done, WayInv
    <2> QED BY <1>8, <2>1 DEF WayInv
  <1>9. CASE Dies
    BY <1>0, <1>9 DEF Dies, WayInv
  <1>10. CASE TaskFails
    BY <1>0, <1>10 DEF TaskFails, WayInv
  <1>11. CASE Restart
    BY <1>11 DEF Restart, WayInv
  <1>12. CASE ClusterStep \/ WatcherStep \/ PodSpecPosted \/ TryIp
    BY <1>12, <1>1 DEF ClusterStep, PodModified, PodStops, PodStarts, WatcherStep, WatchEvent,
        WatchSkips, SendIp, Inspect, GiveUp, Register, SendInum, PodSpecPosted, TryIp
  <1>13. CASE KernelStep \/ EbpfStep
    BY <1>13, <1>2, <1>3, <1>4, <1>5, <1>9, <1>12
    DEF KernelStep, EbpfStep, InumPanics, IpPanics
  <1>14. CASE NetStep \/ SysStep \/ TrafficPosted
    BY <1>14, <1>6, <1>7, <1>8 DEF NetStep, SysStep, SkipPost, RecordSyscall, FindSet,
        TrafficPosted, PostAnswered
  <1>15. CASE Killed
    BY <1>9, <1>15 DEF Killed
  <1>16. CASE UNCHANGED vars
    BY <1>16, <1>1 DEF vars
  <1>17. CASE RecorderTurn \/ RecorderStep
    BY <1>17, <1>1 DEF RecorderTurn, RecorderStep, RecorderLocks, RecorderCompares
  <1> QED BY <1>10, <1>11, <1>12, <1>13, <1>14, <1>15, <1>16, <1>17 DEF Next

-------------------------------------------------------------------------------
(* Steps of the controller are steps of EventPipe. *)

HIDE DEF Kinds, Items, Event

Batch(k) == IF ekind = k THEN batch ELSE <<>>

(* The three places hold events of their kind.                             *)
LEMMA WayTypes ==
    ASSUME TypeOK, NEW k \in Kinds
    PROVE  /\ event_ch[k] \in Seq(Event(k)) /\ Batch(k) \in Seq(Event(k))
           /\ perf[k] \in Seq(Event(k))
           /\ Way(k) = event_ch[k] \o Batch(k) \o perf[k]
           /\ Way(k) \in Seq(Event(k))
  <1>1. /\ event_ch[k] \in Seq(Event(k)) /\ Batch(k) \in Seq(Event(k))
        /\ perf[k] \in Seq(Event(k))
    BY QueuesElement, EmptyElements DEF TypeOK, Batch
  <1>2. Way(k) = event_ch[k] \o Batch(k) \o perf[k]
    BY DEF Way, Batch
  <1> QED BY <1>1, <1>2, ThreeParts

(* The queue of EventPipe has room whenever a perf buffer has.             *)
LEMMA WayHasRoom ==
    ASSUME TypeOK, WayInv, NEW k \in Kinds, Len(perf[k]) < PerfCap
    PROVE  Len(Way(k)) < ChanCap + 2 * PerfCap
  <1>0. /\ event_ch[k] \in Seq(Event(k)) /\ Batch(k) \in Seq(Event(k))
        /\ perf[k] \in Seq(Event(k)) /\ Way(k) = event_ch[k] \o Batch(k) \o perf[k]
    BY WayTypes
  <1>1. Len(Way(k)) = Len(event_ch[k]) + Len(Batch(k)) + Len(perf[k])
    BY <1>0, ThreeParts
  <1>2. /\ Len(event_ch[k]) \in Nat /\ Len(Batch(k)) \in Nat /\ Len(perf[k]) \in Nat
    BY <1>0, LenProperties
  <1>3. Len(event_ch[k]) <= ChanCap /\ Len(Batch(k)) <= PerfCap
    <2>1. Len(<<>>) = 0
      OBVIOUS
    <2> QED BY <2>1, BoundsAssumption DEF WayInv, Batch
  <1>4. \A l, c, b, w, m, n \in Nat :
           l = c + b + w /\ c <= m /\ b <= n /\ w < n => l < m + 2 * n
    OBVIOUS
  <1>5. Way(k) \in Seq(Event(k))
    BY WayTypes
  <1>6. Len(Way(k)) \in Nat /\ ChanCap \in Nat /\ PerfCap \in Nat
    BY <1>5, LenProperties, BoundsAssumption
  <1> QED BY <1>1, <1>2, <1>3, <1>4, <1>6

(* A probe puts an event at the end of the queue.                          *)
LEMMA EmitPuts ==
    ASSUME TypeOK, WayInv, NEW k \in Kinds, NEW p \in Pods, NEW x \in Items(k), Emit(k, p, x)
    PROVE  Pipe!Next
  <1> DEFINE e == [inum |-> netns[p], item |-> x]
  <1>1. /\ e \in Event(k) /\ Len(perf[k]) < PerfCap /\ proc # "down"
        /\ perf' = [perf EXCEPT ![k] = Append(perf[k], e)]
        /\ UNCHANGED <<proc, event_ch, ekind, batch, hev, broker, syscall_cache>>
    BY DEF Emit, TypeOK, WayInv, Event, ebpfVars, chanVars, handlerVars
  <1> HIDE DEF e
  <1>2. Way(k)' = Append(Way(k), e)
    <2>1. perf'[k] = Append(perf[k], e)
      BY <1>1 DEF TypeOK, Queues
    <2>2. Way(k)' = event_ch[k] \o Batch(k) \o Append(perf[k], e)
      BY <1>1, <2>1 DEF Way, Batch
    <2>3. /\ event_ch[k] \in Seq(Event(k)) /\ Batch(k) \in Seq(Event(k))
          /\ perf[k] \in Seq(Event(k)) /\ Way(k) = event_ch[k] \o Batch(k) \o perf[k]
      BY WayTypes
    <2>4. PICK d \in Event(k) : d = e
      BY <1>1
    <2>5. \A c, b, q \in Seq(Event(k)) : c \o b \o Append(q, d) = Append(c \o b \o q, d)
      BY <2>4, PutLast
    <2>6. event_ch[k] \o Batch(k) \o Append(perf[k], d)
             = Append(event_ch[k] \o Batch(k) \o perf[k], d)
      BY <2>3, <2>5, Zenon
    <2> QED BY <2>2, <2>3, <2>4, <2>6, Zenon
  <1>3. \A j \in Kinds : j # k => Way(j)' = Way(j)
    BY <1>1 DEF Way, TypeOK, Queues
  <1>4. [j \in Kinds |-> Way(j)]' = [[j \in Kinds |-> Way(j)] EXCEPT ![k] = Append(Way(k), e)]
    BY <1>2, <1>3
  <1>5. [j \in Kinds |-> Noted(j)]' = [j \in Kinds |-> Noted(j)]
    BY <1>1 DEF Noted
  <1>6. Pipe!Put(k, e)
    BY <1>1, <1>4, <1>5, WayHasRoom DEF Pipe!Put
  <1> QED BY <1>1, <1>6 DEF Pipe!Next

(* A handler takes the oldest event.                                       *)
LEMMA RecvTakes ==
    ASSUME TypeOK, WayInv, NEW k \in Kinds, Recv(k)
    PROVE  Pipe!Next
  <1>1. /\ proc = "up" /\ hpc[k] = "recv" /\ event_ch[k] # <<>>
        /\ hev' = [hev EXCEPT ![k] = Head(event_ch[k])]
        /\ event_ch' = [event_ch EXCEPT ![k] = Tail(event_ch[k])]
        /\ UNCHANGED <<proc, perf, ekind, batch, broker, syscall_cache>>
    BY DEF Recv, ebpfVars, kernelVars
  <1>2. /\ Way(k) # <<>> /\ Head(Way(k)) = Head(event_ch[k])
        /\ Way(k)' = Tail(Way(k))
    <2>1. event_ch'[k] = Tail(event_ch[k])
      BY <1>1 DEF TypeOK, Queues
    <2>2. Way(k)' = Tail(event_ch[k]) \o Batch(k) \o perf[k]
      BY <1>1, <2>1 DEF Way, Batch
    <2>3. /\ event_ch[k] \in Seq(Event(k)) /\ Batch(k) \in Seq(Event(k))
          /\ perf[k] \in Seq(Event(k)) /\ Way(k) = event_ch[k] \o Batch(k) \o perf[k]
      BY WayTypes
    <2>4. PICK c \in Seq(Event(k)), b \in Seq(Event(k)), q \in Seq(Event(k)) :
               c = event_ch[k] /\ b = Batch(k) /\ q = perf[k]
      BY <2>3
    <2>5. c # <<>>
      BY <1>1, <2>4
    <2>6. c \o b \o q # <<>> /\ Head(c \o b \o q) = Head(c)
      BY <2>5, TakeFirst
    <2>7. Tail(c \o b \o q) = Tail(c) \o b \o q
      BY <2>5, RestStays
    <2> QED BY <2>2, <2>3, <2>4, <2>6, <2>7, Zenon
  <1>3. \A j \in Kinds : j # k => Way(j)' = Way(j)
    BY <1>1 DEF Way, TypeOK, Queues
  <1>4. [j \in Kinds |-> Way(j)]' = [[j \in Kinds |-> Way(j)] EXCEPT ![k] = Tail(Way(k))]
    BY <1>2, <1>3
  <1>5. [j \in Kinds |-> Noted(j)]' = [j \in Kinds |-> Noted(j)]
    BY <1>1 DEF Noted
  <1>6. hev[k] = NoEvent /\ hev' = [hev EXCEPT ![k] = Head(Way(k))]
    BY <1>1, <1>2 DEF WayInv
  <1>7. Pipe!Take(k)
    BY <1>1, <1>2, <1>4, <1>5, <1>6 DEF Pipe!Take
  <1> QED BY <1>7 DEF Pipe!Next

(* The queue stays as it is when its three places do.                      *)
LEMMA WayStays ==
    ASSUME UNCHANGED <<event_ch, ekind, batch, perf>>
    PROVE  [j \in Kinds |-> Way(j)]' = [j \in Kinds |-> Way(j)]
  BY DEF Way

(* A handler is through with its event, of which it noted nothing, or that *)
(* the pod its inode number stands for had it.                             *)
LEMMA DoneFinishes ==
    ASSUME TypeOK, WayInv, NEW k \in Kinds, Done(k), proc = "up", hpc[k] # "recv",
           UNCHANGED <<proc, event_ch, ekind, batch, perf>>,
           \A j \in Kinds : j # k => Noted(j)' = Noted(j),
           \/ Noted(k)' = Noted(k)
           \/ \E p \in Pods : Noted(k)' = Noted(k) \cup {<<p, hev[k].item>>}
    PROVE  Pipe!Next
  <1>1. hev[k] # NoEvent /\ hev' = [hev EXCEPT ![k] = NoEvent]
    BY InumsAssumption DEF TypeOK, Done, NoEvent, Event
  <1>2. \/ [j \in Kinds |-> Noted(j)]' = [j \in Kinds |-> Noted(j)]
        \/ \E p \in Pods :
              [j \in Kinds |-> Noted(j)]'
                 = [[j \in Kinds |-> Noted(j)]
                       EXCEPT ![k] = [j \in Kinds |-> Noted(j)][k] \cup {<<p, hev[k].item>>}]
    <2>1. CASE Noted(k)' = Noted(k)
      BY <2>1
    <2>2. ASSUME NEW p \in Pods, Noted(k)' = Noted(k) \cup {<<p, hev[k].item>>}
          PROVE  [j \in Kinds |-> Noted(j)]'
                    = [[j \in Kinds |-> Noted(j)]
                          EXCEPT ![k] = [j \in Kinds |-> Noted(j)][k] \cup {<<p, hev[k].item>>}]
      BY <2>2
    <2> QED BY <2>1, <2>2
  <1>3. Pipe!Finish(k)
    BY <1>1, <1>2, WayStays DEF Pipe!Finish
  <1> QED BY <1>3 DEF Pipe!Next

(* The four ways to be through with an event.                              *)
LEMMA HandlersFinish ==
    ASSUME TypeOK, WayInv, MonitoredIsMapped,
           \/ SkipPost \/ (FindSet /\ Done("sys")) \/ RecordSyscall
           \/ \E outcome \in PostOutcomes : PostAnswered(outcome)
    PROVE  Pipe!Next
  <1> USE DEF chanVars, ebpfVars, kernelVars, Kinds
  <1>1. ASSUME NEW k \in Kinds, proc = "up", hpc[k] # "recv"
        PROVE  PodOf(hev[k]) \in Pods
    BY <1>1 DEF TypeOK, PodOf, Event, MonitoredIsMapped, Mapped
  <1>2. CASE SkipPost
    <2>1. \A j \in Kinds : Noted(j)' = Noted(j)
      BY <1>2 DEF SkipPost, Noted
    <2>2. /\ Done("net") /\ proc = "up" /\ hpc["net"] # "recv"
          /\ UNCHANGED <<proc, event_ch, ekind, batch, perf>>
      BY <1>2 DEF SkipPost
    <2> QED BY <2>1, <2>2, DoneFinishes
  <1>3. CASE RecordSyscall
    <2>1. /\ Done("sys") /\ proc = "up" /\ hpc["sys"] # "recv"
          /\ UNCHANGED <<proc, event_ch, ekind, batch, perf, broker>>
      BY <1>3 DEF RecordSyscall
    <2>2. Noted("net")' = Noted("net")
      BY <2>1 DEF Noted
    <2>3. Noted("sys")' = Noted("sys") \cup {<<PodOf(hev["sys"]), hev["sys"].item>>}
      BY <1>3 DEF RecordSyscall, Noted
    <2>4. PodOf(hev["sys"]) \in Pods
      BY <1>1, <2>1
    <2> QED BY <2>1, <2>2, <2>3, <2>4, DoneFinishes
  <1>4. ASSUME NEW outcome \in PostOutcomes, PostAnswered(outcome) PROVE Pipe!Next
    <2>1. /\ Done("net") /\ proc = "up" /\ hpc["net"] # "recv"
          /\ UNCHANGED <<proc, event_ch, ekind, batch, perf, syscall_cache>>
      BY <1>4 DEF PostAnswered
    <2>2. Noted("sys")' = Noted("sys")
      BY <2>1 DEF Noted
    <2>3. \/ Noted("net")' = Noted("net")
          \/ Noted("net")' = Noted("net") \cup {<<PodOf(hev["net"]), hev["net"].item>>}
      BY <1>4 DEF PostAnswered, Noted
    <2>4. PodOf(hev["net"]) \in Pods
      BY <1>1, <2>1
    <2> QED BY <2>1, <2>2, <2>3, <2>4, DoneFinishes
  <1>5. CASE FindSet /\ Done("sys")
    <2>1. \A j \in Kinds : Noted(j)' = Noted(j)
      BY <1>5 DEF FindSet, Noted
    <2>2. /\ Done("sys") /\ proc = "up" /\ hpc["sys"] # "recv"
          /\ UNCHANGED <<proc, event_ch, ekind, batch, perf>>
      BY <1>5 DEF FindSet
    <2> QED BY <2>1, <2>2, DoneFinishes
  <1> QED BY <1>2, <1>3, <1>4, <1>5

(* An event goes from the batch to its handler's channel, or is lost when  *)
(* the handlers are gone.                                                  *)
LEMMA DeliverMovesOn ==
    ASSUME TypeOK, WayInv, Deliver
    PROVE  [Pipe!Next]_(Pipe!vars)
  <1>0. PICK k \in Kinds : k = ekind
    BY DEF TypeOK
  <1> DEFINE E == Event(k)
  <1>1. /\ k = ekind /\ batch \in Seq(E) /\ batch # <<>> /\ batch' = Tail(batch)
        /\ Tail(batch) = <<>> \/ ekind' = ekind
        /\ UNCHANGED <<proc, perf, hev, broker, syscall_cache>>
    BY <1>0 DEF Deliver, TypeOK, PollEnds, kernelVars, handlerVars
  <1>2. /\ event_ch[k] \in Seq(E) /\ perf[k] \in Seq(E)
        /\ Way(k) = event_ch[k] \o batch \o perf[k]
    BY <1>1, WayTypes DEF Batch
  <1>3. Way(k)' = event_ch'[k] \o Tail(batch) \o perf[k]
    BY <1>1 DEF Way
  <1>4. ASSUME NEW j \in Kinds, j # k, event_ch'[j] = event_ch[j] PROVE Way(j)' = Way(j)
    <2>1. Batch(j) = <<>> /\ Batch(j)' = <<>>
      BY <1>1, <1>4 DEF Batch
    <2>2. /\ Way(j) = event_ch[j] \o Batch(j) \o perf[j]
          /\ Way(j)' = event_ch'[j] \o Batch(j)' \o perf'[j]
      BY DEF Way, Batch
    <2> QED BY <1>1, <1>4, <2>1, <2>2, Zenon
  <1>5. [j \in Kinds |-> Noted(j)]' = [j \in Kinds |-> Noted(j)]
    BY <1>1 DEF Noted
  <1>6. CASE proc = "zombie"
    <2>1. event_ch' = event_ch /\ event_ch[k] = <<>>
      BY <1>1, <1>6 DEF Deliver, WayInv
    <2>2. /\ <<>> \o batch = batch /\ <<>> \o Tail(batch) = Tail(batch)
          /\ Tail(batch) \in Seq(E)
      BY <1>1, HeadTailProperties, ConcatEmptySeq
    <2>3. /\ Way(k) = batch \o perf[k] /\ Way(k)' = Tail(batch) \o perf[k]
      BY <1>2, <1>3, <2>1, <2>2
    <2>4. Way(k) # <<>> /\ Way(k)' = Tail(Way(k))
      <3>1. PICK b \in Seq(E), q \in Seq(E) : b = batch /\ q = perf[k]
        BY <1>1, <1>2
      <3>2. b # <<>> /\ <<>> \in Seq(E)
        BY <1>1, <3>1, EmptyElements
      <3>3. b \o <<>> \o q # <<>> /\ Tail(b \o <<>> \o q) = Tail(b) \o <<>> \o q
        BY <3>2, TakeFirst, RestStays
      <3>4. b \o <<>> = b /\ Tail(b) \o <<>> = Tail(b)
        BY <3>2, HeadTailProperties, ConcatEmptySeq
      <3> QED BY <2>3, <3>1, <3>3, <3>4, Zenon
    <2>5. [j \in Kinds |-> Way(j)]' = [[j \in Kinds |-> Way(j)] EXCEPT ![k] = Tail(Way(k))]
      <3>1. \A j \in Kinds : j # k => Way(j)' = Way(j)
        BY <1>4, <2>1
      <3> QED BY <2>4, <3>1
    <2>6. Pipe!Discard(k)
      BY <1>1, <1>5, <1>6, <2>4, <2>5 DEF Pipe!Discard
    <2> QED BY <1>1, <2>6 DEF Pipe!Next
  <1>7. CASE proc # "zombie"
    <2>1. event_ch' = [event_ch EXCEPT ![k] = Append(event_ch[k], Head(batch))]
      BY <1>1, <1>7 DEF Deliver
    <2>2. event_ch'[k] = Append(event_ch[k], Head(batch))
      BY <1>1, <2>1 DEF TypeOK, Queues
    <2>3. Way(k)' = Way(k)
      <3>1. PICK c \in Seq(E), b \in Seq(E), q \in Seq(E) :
                 c = event_ch[k] /\ b = batch /\ q = perf[k]
        BY <1>1, <1>2
      <3>2. b # <<>>
        BY <1>1, <3>1
      <3>3. Append(c, Head(b)) \o Tail(b) \o q = c \o b \o q
        BY <3>2, MoveOn
      <3> QED BY <1>2, <1>3, <2>2, <3>1, <3>3, Zenon
    <2>4. ASSUME NEW j \in Kinds PROVE Way(j)' = Way(j)
      <3>1. CASE j = k
        BY <2>3, <3>1
      <3>2. CASE j # k
        <4>1. event_ch'[j] = event_ch[j]
          BY <2>1, <3>2 DEF TypeOK, Queues
        <4> QED BY <1>4, <3>2, <4>1
      <3> QED BY <3>1, <3>2
    <2>5. [j \in Kinds |-> Way(j)]' = [j \in Kinds |-> Way(j)]
      BY <2>4
    <2> QED BY <1>1, <1>5, <2>5 DEF Pipe!vars
  <1> QED BY <1>6, <1>7

(* A poll empties a perf buffer into the batch, which was empty.           *)
LEMMA PollMovesOn ==
    ASSUME TypeOK, WayInv, Poll
    PROVE  [Pipe!Next]_(Pipe!vars)
  <1>0. PICK k \in Kinds : k = ekind
    BY DEF TypeOK
  <1> DEFINE E == Event(k)
  <1>1. /\ k = ekind /\ batch = <<>> /\ batch' = perf[k]
        /\ perf' = [perf EXCEPT ![k] = <<>>]
        /\ perf[k] = <<>> \/ ekind' = ekind
        /\ UNCHANGED <<proc, event_ch, hev, broker, syscall_cache>>
    BY <1>0 DEF Poll, TypeOK, PollEnds, chanVars, handlerVars
  <1>2. perf \in Queues /\ perf'[k] = <<>> /\ \A j \in Kinds : j # k => perf'[j] = perf[j]
    BY <1>1 DEF TypeOK, Queues
  <1>3. Way(k)' = Way(k)
    <2>1. Way(k) = event_ch[k] \o <<>> \o perf[k] /\ Way(k)' = event_ch[k] \o perf[k] \o <<>>
      BY <1>1, <1>2 DEF Way
    <2>2. event_ch[k] \in Seq(E) /\ perf[k] \in Seq(E)
      BY <1>1, WayTypes
    <2>3. PICK c \in Seq(E), q \in Seq(E) : c = event_ch[k] /\ q = perf[k]
      BY <2>2
    <2>4. c \o q \o <<>> = c \o <<>> \o q
      BY MoveAll
    <2> QED BY <2>1, <2>3, <2>4, Zenon
  <1>4. ASSUME NEW j \in Kinds, j # k PROVE Way(j)' = Way(j)
    <2>1. Batch(j) = <<>> /\ Batch(j)' = <<>>
      BY <1>1, <1>4 DEF Batch
    <2>2. /\ Way(j) = event_ch[j] \o Batch(j) \o perf[j]
          /\ Way(j)' = event_ch'[j] \o Batch(j)' \o perf'[j]
      BY DEF Way, Batch
    <2> QED BY <1>1, <1>2, <1>4, <2>1, <2>2, Zenon
  <1>5. [j \in Kinds |-> Way(j)]' = [j \in Kinds |-> Way(j)]
    BY <1>3, <1>4
  <1>6. [j \in Kinds |-> Noted(j)]' = [j \in Kinds |-> Noted(j)]
    BY <1>1 DEF Noted
  <1> QED BY <1>1, <1>5, <1>6 DEF Pipe!vars

(* The receivers are dropped with what the channels held.                  *)
LEMMA TaskFailsFails ==
    ASSUME TypeOK, WayInv, TaskFails
    PROVE  Pipe!Next
  <1>1. /\ proc = "up" /\ proc' = "zombie" /\ event_ch' = [k \in Kinds |-> <<>>]
        /\ hev' = [k \in Kinds |-> NoEvent]
        /\ UNCHANGED <<ekind, batch, perf, broker, syscall_cache>>
    BY DEF TaskFails, ebpfVars, kernelVars
  <1>2. ASSUME NEW k \in Kinds
        PROVE  RestOf(Way(k), Way(k)')
    <2>1. /\ event_ch[k] \in Seq(Event(k)) /\ Batch(k) \in Seq(Event(k))
          /\ perf[k] \in Seq(Event(k)) /\ Way(k) = event_ch[k] \o Batch(k) \o perf[k]
      BY WayTypes
    <2>2. Way(k)' = <<>> \o Batch(k) \o perf[k]
      BY <1>1 DEF Way, Batch
    <2>3. PICK c \in Seq(Event(k)), b \in Seq(Event(k)), q \in Seq(Event(k)) :
               c = event_ch[k] /\ b = Batch(k) /\ q = perf[k]
      BY <2>1
    <2>4. RestOf(c \o b \o q, <<>> \o b \o q)
      BY DropFirst
    <2> QED BY <2>1, <2>2, <2>3, <2>4, Zenon
  <1>3. [k \in Kinds |-> Noted(k)]' = [k \in Kinds |-> Noted(k)]
    BY <1>1 DEF Noted
  <1>4. \A k \in Kinds : hev'[k] = NoEvent
    BY <1>1
  <1>5. Pipe!Fail
    BY <1>1, <1>2, <1>3, <1>4 DEF Pipe!Fail, RestOf
  <1> QED BY <1>5 DEF Pipe!Next

(* Nothing but the broker's records outlives the process.                  *)
LEMMA DiesEnds ==
    ASSUME TypeOK, Dies
    PROVE  Pipe!Next
  <1>1. /\ proc' = "down" /\ event_ch' = [k \in Kinds |-> <<>>] /\ batch' = <<>>
        /\ perf' = [k \in Kinds |-> <<>>] /\ hev' = [k \in Kinds |-> NoEvent]
        /\ syscall_cache' = {} /\ broker' = broker
    BY DEF Dies
  <1>2. <<>> \o <<>> \o <<>> = <<>>
    BY ConcatEmptySeq, EmptyElements
  <1>3. \A k \in Kinds : Way(k)' = <<>>
    BY <1>1, <1>2 DEF Way
  <1>4. \A k \in Kinds : Noted(k)' \subseteq Noted(k)
    BY <1>1 DEF Noted
  <1>5. Pipe!End
    BY <1>1, <1>3, <1>4 DEF Pipe!End
  <1> QED BY <1>5 DEF Pipe!Next

(* The other steps leave the queue and the handlers alone.                 *)
LEMMA OthersStay ==
    ASSUME \/ UNCHANGED <<proc, event_ch, ekind, batch, perf, hev, broker, syscall_cache>>
           \/ ClusterStep \/ WatcherStep \/ PodSpecPosted
           \/ TryInum \/ MapSys \/ TryIp \/ BeginPost \/ (FindSet /\ ~Done("sys")) \/ AskSet
           \/ RecorderTurn \/ RecorderStep \/ UNCHANGED vars
    PROVE  UNCHANGED Pipe!vars
  <1>1. UNCHANGED <<proc, event_ch, ekind, batch, perf, hev, broker, syscall_cache>>
    BY DEF ClusterStep, PodModified, PodStops, PodStarts, WatcherStep, WatchEvent, WatchSkips,
       SendIp, Inspect, GiveUp, Register, SendInum, PodSpecPosted, TryInum, MapSys, TryIp,
       BeginPost, FindSet, AskSet, RecorderTurn, RecorderStep, RecorderLocks,
       RecorderCompares, vars, chanVars, ebpfVars, kernelVars, handlerVars
  <1>2. [k \in Kinds |-> Noted(k)]' = [k \in Kinds |-> Noted(k)]
    BY <1>1 DEF Noted
  <1> QED BY <1>1, <1>2, WayStays DEF Pipe!vars

(* Every step is a step of EventPipe or a stutter.                         *)
LEMMA PipeStep ==
    TypeOK /\ WayInv /\ MonitoredIsMapped /\ [Next]_vars => [Pipe!Next]_(Pipe!vars)
  <1> SUFFICES ASSUME TypeOK, WayInv, MonitoredIsMapped, [Next]_vars
               PROVE  [Pipe!Next]_(Pipe!vars)
    OBVIOUS
  <1>1. CASE \/ ClusterStep \/ WatcherStep \/ PodSpecPosted
             \/ RecorderTurn \/ RecorderStep \/ UNCHANGED vars
    BY <1>1, OthersStay
  <1>2. CASE KernelStep
    BY <1>2, EmitPuts DEF KernelStep
  <1>3. CASE EbpfStep
    BY <1>3, PollMovesOn, DeliverMovesOn, OthersStay, DiesEnds
    DEF EbpfStep, InumPanics, IpPanics
  <1>4. CASE NetStep \/ SysStep \/ TrafficPosted
    BY <1>4, RecvTakes, HandlersFinish, OthersStay DEF NetStep, SysStep, TrafficPosted, Kinds
  <1>5. CASE Killed \/ TaskFails
    BY <1>5, DiesEnds, TaskFailsFails DEF Killed
  <1>6. CASE Restart
    <2>1. /\ proc = "down" /\ proc' = "up"
          /\ UNCHANGED <<event_ch, ekind, batch, perf, hev, broker, syscall_cache>>
      BY <1>6 DEF Restart, chanVars, ebpfVars, kernelVars, handlerVars
    <2>2. [k \in Kinds |-> Noted(k)]' = [k \in Kinds |-> Noted(k)]
      BY <2>1 DEF Noted
    <2>3. Pipe!Start
      BY <2>1, <2>2, WayStays DEF Pipe!Start
    <2> QED BY <2>3 DEF Pipe!Next
  <1> QED BY <1>1, <1>2, <1>3, <1>4, <1>5, <1>6 DEF Next

(* The first state is one of EventPipe's.                                  *)
LEMMA PipeInit == Init => Pipe!Init
  <1> SUFFICES ASSUME Init PROVE Pipe!Init
    OBVIOUS
  <1>1. <<>> \o <<>> \o <<>> = <<>>
    BY ConcatEmptySeq, EmptyElements
  <1>2. \A k \in Kinds : Way(k) = <<>> /\ Noted(k) = {}
    BY <1>1 DEF Init, FreshProcess, Way, Noted
  <1> QED BY <1>2 DEF Init, FreshProcess, Pipe!Init

(* From the perf buffers to the handlers no event is lost, doubled or      *)
(* overtaken as long as the process is up, and what is recorded was        *)
(* handled: the controller implements EventPipe.                           *)
THEOREM EventsKeepOrderCorrect == Spec => EventsKeepOrder
  <1>1. Init => WayInv
    BY InitWayInv
  <1>2. Inv /\ WayInv /\ [Next]_vars => WayInv'
    BY StepWayInv DEF Inv
  <1>3. Inv /\ WayInv /\ [Next]_vars => [Pipe!Next]_(Pipe!vars)
    BY PipeStep DEF Inv, MapInv
  <1>4. Spec => []WayInv
    BY <1>1, <1>2, Invariance, PTL DEF Spec
  <1>5. Spec => Pipe!Spec
    BY <1>3, <1>4, Invariance, PipeInit, PTL DEF Spec, Pipe!Spec
  <1> QED BY <1>5 DEF EventsKeepOrder
==============================================================================

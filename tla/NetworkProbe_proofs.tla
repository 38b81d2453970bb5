-------------------------- MODULE NetworkProbe_proofs --------------------------
(***************************************************************************)
(* Proofs about NetworkProbe, for all threads, namespaces and capacities:  *)
(* types, whose entries the maps hold, and what the events say.            *)
(***************************************************************************)
EXTENDS NetworkProbe, TLAPS

(* What is known of a thread's call. *)
Course(t) ==
    call[t] # Idle =>
        /\ call[t].ret = "ok" => call[t].conn \in Socks
        /\ call[t].kind = "connect" => call[t].sk.saddr \in Addrs /\ call[t].sk.daddr \in Addrs
        /\ call[t].ret = "ok" /\ call[t].kind = "connect" => call[t].conn = call[t].sk
        /\ call[t].saved => /\ sockets[call[t].kind][t] = call[t].sk
                            /\ <<call[t].kind, t>> \notin leftover
                            /\ call[t].sk.net \in inode_num

(* An entry is left over or that of the call its thread is in, which knows *)
(* that it was saved.                                                      *)
Owned(c, t) ==
    Saved(c, t) /\ <<c, t>> \notin leftover =>
        call[t] # Idle /\ call[t].kind = c /\ call[t].saved /\ call[t].sk = sockets[c][t]

Courses == \A t \in Threads : Course(t)
EntriesAreOwned == \A c \in Calls, t \in Threads : Owned(c, t)

IInv == TypeOK /\ Courses /\ EntriesAreOwned

-------------------------------------------------------------------------------
(* Sockets, calls and events.                                              *)

LEMMA SockTypes ==
  /\ \A n \in Nets : \A d \in Addrs :
       [net |-> n, daddr |-> d, saddr |-> IF d = Loopback THEN Loopback ELSE AddrOf[n]] \in Socks
  /\ \A n \in Nets : [net |-> n, saddr |-> Zero, daddr |-> Zero] \in Socks
  /\ \A n \in Nets : AddrOf[n] \in Addrs
  /\ Loopback \in Addrs /\ Zero \notin Addrs /\ NoSock \notin Socks
  BY AddrsAssumption, MarksAssumption DEF Socks

LEMMA OutputTypes ==
  ASSUME TypeOK, NEW e \in Events, Output(e)
  PROVE  perf' \in Seq(Events)
  BY DEF Output, TypeOK

LEMMA ReportTypes ==
  ASSUME TypeOK, NEW c \in Calls, NEW sk \in Socks, NEW conn \in Socks, ReportExit(c, sk, conn)
  PROVE  perf' \in Seq(Events)
  <1> DEFINE e == [inum |-> sk.net, kind |-> IF c = "connect" THEN "egress" ELSE "ingress",
                   saddr |-> conn.saddr, daddr |-> conn.daddr]
  <1>1. e \in Events
    BY DEF Events, Socks
  <1>2. CASE Output(e)
    BY <1>1, <1>2, OutputTypes
  <1>3. CASE UNCHANGED perf
    BY <1>3 DEF TypeOK
  <1> QED
    BY <1>2, <1>3 DEF ReportExit

(* A thread's call, and what its record holds. *)
LEMMA CallTypes ==
  ASSUME TypeOK, NEW t \in Threads, call[t] # Idle
  PROVE  /\ call[t] \in CallRecords
         /\ call[t].kind \in Calls /\ call[t].sk \in Socks
         /\ call[t].conn \in Socks \cup {NoSock}
         /\ call[t].ret \in {"running", "ok", "failed"}
         /\ call[t].hooked \in BOOLEAN /\ call[t].saved \in BOOLEAN
  <1>1. call[t] \in CallRecords
    BY DEF TypeOK
  <1> QED
    BY <1>1 DEF CallRecords

-------------------------------------------------------------------------------
(* The steps of a call.                                                    *)

LEMMA EntryKeeps ==
  ASSUME IInv, NEW t \in Threads, NEW c \in Calls, NEW sk \in Socks, Entry(t, c, sk),
         c = "connect" => sk.saddr \in Addrs /\ sk.daddr \in Addrs
  PROVE  IInv' /\ call'[t] # Idle
  <1> DEFINE saved == sk.net \in inode_num /\ Room(c, Tid(t))
             r == [kind |-> c, sk |-> sk, conn |-> NoSock, ret |-> "running",
                   hooked |-> FreeSlot, saved |-> saved]
  <1>1. FreeSlot \in BOOLEAN /\ saved \in BOOLEAN
    BY DEF FreeSlot, Room, Saved
  <1>2. r \in CallRecords
    <2> DEFINE h == FreeSlot
    <2>1. h \in BOOLEAN
      BY <1>1
    <2> HIDE DEF h, saved
    <2> QED
      BY <1>1, <2>1 DEF CallRecords
  <1>3. /\ TypeOK /\ call[t] = Idle /\ call' = [call EXCEPT ![t] = r]
        /\ UNCHANGED <<netOf, inode_num, ignore_ips, perf>>
    BY DEF Entry, IInv
  <1>4. /\ saved => /\ sockets' = [sockets EXCEPT ![c][t] = sk]
                    /\ leftover' = leftover \ {<<c, t>>}
        /\ ~saved => UNCHANGED <<sockets, leftover>>
    BY DEF Entry, Tid
  <1>5. /\ r.kind = c /\ r.sk = sk /\ r.ret = "running" /\ r.saved = saved /\ r # Idle
    BY <1>2, IdleAssumption
  <1> HIDE DEF r, saved
  <1>6. \A u \in Threads : call'[u] = IF u = t THEN r ELSE call[u]
    BY <1>3 DEF TypeOK
  <1>7. sockets' \in [Calls -> [Threads -> Socks \cup {NoSock}]]
    <2>1. CASE saved
      BY <1>3, <1>4, <2>1 DEF TypeOK
    <2> QED
      BY <1>1, <1>3, <1>4, <2>1 DEF TypeOK
  <1>8. \A k \in Calls, u \in Threads :
          sockets'[k][u] = IF saved /\ k = c /\ u = t THEN sk ELSE sockets[k][u]
    <2>1. CASE saved
      BY <1>3, <1>4, <2>1 DEF TypeOK
    <2> QED
      BY <1>1, <1>4, <2>1
  <1>9. \A k \in Calls, u \in Threads :
          <<k, u>> \in leftover' <=> <<k, u>> \in leftover /\ ~(saved /\ k = c /\ u = t)
    BY <1>1, <1>4
  <1>10. TypeOK'
    <2>1. call' \in [Threads -> CallRecords \cup {Idle}]
      BY <1>2, <1>3 DEF TypeOK
    <2>2. leftover' \subseteq Calls \X Threads
      BY <1>1, <1>3, <1>4 DEF TypeOK
    <2> QED
      BY <1>3, <1>7, <2>1, <2>2 DEF TypeOK
  <1>11. ASSUME NEW u \in Threads
         PROVE  Course(u)'
    <2>1. CASE u = t
      <3>1. saved => /\ sockets'[c][t] = sk /\ <<c, t>> \notin leftover'
                     /\ sk.net \in inode_num'
        BY <1>3, <1>8, <1>9 DEF saved
      <3>2. call'[u] = r
        BY <1>6, <2>1
      <3> QED
        BY <1>1, <1>5, <2>1, <3>1, <3>2 DEF Course
    <2>2. CASE u # t
      <3>1. Course(u) /\ (call[u] # Idle => call[u].kind \in Calls)
        BY <1>3, CallTypes DEF IInv, Courses
      <3> QED
        BY <1>3, <1>6, <1>8, <1>9, <2>2, <3>1 DEF Course
    <2> QED
      BY <2>1, <2>2
  <1>12. ASSUME NEW k \in Calls, NEW u \in Threads
         PROVE  Owned(k, u)'
    <2>1. Owned(k, u)
      BY DEF IInv, EntriesAreOwned
    <2>2. CASE u = t
      BY <1>1, <1>3, <1>5, <1>6, <1>8, <1>9, <2>1, <2>2 DEF Owned, Saved
    <2>3. CASE u # t
      BY <1>6, <1>8, <1>9, <2>1, <2>3 DEF Owned, Saved
    <2> QED
      BY <2>2, <2>3
  <1> QED
    BY <1>5, <1>6, <1>10, <1>11, <1>12 DEF IInv, Courses, EntriesAreOwned

LEMMA ConnectKeeps ==
  ASSUME IInv, NEW t \in Threads, NEW d \in Addrs, Connect(t, d)
  PROVE  IInv' /\ call'[t] # Idle
  <1> DEFINE sk == [net |-> netOf[t], daddr |-> d,
                    saddr |-> IF d = Loopback THEN Loopback ELSE AddrOf[netOf[t]]]
  <1>1. netOf[t] \in Nets
    BY DEF IInv, TypeOK
  <1>2. sk \in Socks /\ sk.saddr \in Addrs /\ sk.daddr \in Addrs
    BY <1>1, SockTypes
  <1>3. Entry(t, "connect", sk)
    BY DEF Connect
  <1> HIDE DEF sk
  <1>4. "connect" \in Calls
    BY DEF Calls
  <1> QED
    BY <1>2, <1>3, <1>4, EntryKeeps

LEMMA AcceptKeeps ==
  ASSUME IInv, NEW t \in Threads, Accept(t)
  PROVE  IInv' /\ call'[t] # Idle
  <1> DEFINE sk == [net |-> netOf[t], saddr |-> Zero, daddr |-> Zero]
  <1>1. netOf[t] \in Nets
    BY DEF IInv, TypeOK
  <1>2. sk \in Socks
    BY <1>1, SockTypes
  <1>3. Entry(t, "accept", sk)
    BY DEF Accept
  <1> HIDE DEF sk
  <1>4. "accept" \in Calls /\ "accept" # "connect"
    BY DEF Calls
  <1> QED
    BY <1>2, <1>3, <1>4, EntryKeeps

LEMMA FinishKeeps ==
  ASSUME IInv, NEW t \in Threads, NEW ok \in BOOLEAN, NEW d \in Addrs, Finish(t, ok, d)
  PROVE  IInv' /\ call'[t] # Idle
  <1> DEFINE made == IF ~ok THEN NoSock
                     ELSE IF call[t].kind = "connect" THEN call[t].sk
                     ELSE [net |-> netOf[t], daddr |-> d,
                           saddr |-> IF d = Loopback THEN Loopback ELSE AddrOf[netOf[t]]]
             r == [kind |-> call[t].kind, sk |-> call[t].sk, conn |-> made,
                   ret |-> IF ok THEN "ok" ELSE "failed",
                   hooked |-> call[t].hooked, saved |-> call[t].saved]
  <1>1. /\ TypeOK /\ call[t] # Idle /\ call' = [call EXCEPT ![t] = r]
        /\ UNCHANGED <<netOf, sockets, leftover, inode_num, ignore_ips, perf>>
    BY DEF Finish, IInv
  <1>2. netOf[t] \in Nets
    BY <1>1 DEF TypeOK
  <1>3. /\ made \in Socks \cup {NoSock} /\ (ok => made \in Socks)
        /\ ok /\ call[t].kind = "connect" => made = call[t].sk
    BY <1>1, <1>2, CallTypes, SockTypes
  <1> HIDE DEF made
  <1>4. r \in CallRecords
    BY <1>1, <1>3, CallTypes DEF CallRecords
  <1>5. /\ r.kind = call[t].kind /\ r.sk = call[t].sk /\ r.saved = call[t].saved
        /\ r.conn = made /\ r.ret = (IF ok THEN "ok" ELSE "failed") /\ r # Idle
    BY <1>4, IdleAssumption
  <1> HIDE DEF r
  <1>6. \A u \in Threads : call'[u] = IF u = t THEN r ELSE call[u]
    BY <1>1 DEF TypeOK
  <1>7. TypeOK'
    <2>1. call' \in [Threads -> CallRecords \cup {Idle}]
      BY <1>1, <1>4 DEF TypeOK
    <2> QED
      BY <1>1, <2>1 DEF TypeOK
  <1>8. ASSUME NEW u \in Threads
        PROVE  Course(u)'
    <2>1. Course(u)
      BY DEF IInv, Courses
    <2>2. CASE u = t
      BY <1>1, <1>3, <1>5, <1>6, <2>1, <2>2 DEF Course
    <2>3. CASE u # t
      BY <1>1, <1>6, <2>1, <2>3 DEF Course
    <2> QED
      BY <2>2, <2>3
  <1>9. ASSUME NEW k \in Calls, NEW u \in Threads
        PROVE  Owned(k, u)'
    <2>1. Owned(k, u)
      BY DEF IInv, EntriesAreOwned
    <2> QED
      BY <1>1, <1>5, <1>6, <2>1 DEF Owned, Saved
  <1> QED
    BY <1>5, <1>6, <1>7, <1>8, <1>9 DEF IInv, Courses, EntriesAreOwned

(* The return of a call, reported or not. *)
LEMMA ReturnKeeps ==
  ASSUME IInv, NEW t \in Threads, Exit(t) \/ ExitUnseen(t)
  PROVE  IInv'
  <1> DEFINE c == call[t].kind
  <1>1. TypeOK /\ call[t] # Idle /\ c \in Calls /\ UNCHANGED <<netOf, inode_num, ignore_ips>>
    BY CallTypes DEF IInv, Exit, ExitUnseen
  <1>2. /\ Course(t)
        /\ \A k \in Calls : Owned(k, t)
    BY DEF IInv, Courses, EntriesAreOwned
  <1> HIDE DEF c
  <1>3. call' = [call EXCEPT ![t] = Idle]
    BY DEF Exit, ExitUnseen
  <1>4. \A u \in Threads : call'[u] = IF u = t THEN Idle ELSE call[u]
    BY <1>1, <1>3 DEF TypeOK
  <1>5. CASE Exit(t)
    <2>1. sockets' = [sockets EXCEPT ![c][t] = NoSock] /\ leftover' = leftover \ {<<c, t>>}
      BY <1>5 DEF Exit, Tid, c
    <2>2. \A k \in Calls, u \in Threads :
            sockets'[k][u] = IF k = c /\ u = t THEN NoSock ELSE sockets[k][u]
      BY <1>1, <2>1 DEF TypeOK
    <2>3. \A k \in Calls, u \in Threads :
            <<k, u>> \in leftover' <=> <<k, u>> \in leftover /\ ~(k = c /\ u = t)
      BY <2>1
    <2>4. perf' \in Seq(Events)
      <3>1. CASE Saved(c, Tid(t)) /\ call[t].ret = "ok"
        <4>1. PICK sk \in Contents(c, Tid(t)) :
                ReportExit(c, sk, IF c = "connect" THEN sk ELSE call[t].conn)
          BY <1>5, <3>1 DEF Exit, c
        <4>2. sockets[c][t] \in Socks
          BY <1>1, <3>1 DEF TypeOK, Saved, Tid
        <4>3. sk \in Socks
          BY <4>1, <4>2 DEF Contents, Tid
        <4>4. call[t].conn \in Socks
          BY <1>1, <1>2, <3>1 DEF Course
        <4> QED
          BY <1>1, <4>1, <4>3, <4>4, ReportTypes
      <3>2. CASE ~(Saved(c, Tid(t)) /\ call[t].ret = "ok")
        BY <1>1, <1>5, <3>2 DEF Exit, TypeOK, c
      <3> QED
        BY <3>1, <3>2
    <2>5. TypeOK'
      <3>1. sockets' \in [Calls -> [Threads -> Socks \cup {NoSock}]]
        BY <1>1, <2>1 DEF TypeOK
      <3>2. call' \in [Threads -> CallRecords \cup {Idle}]
        BY <1>1, <1>3 DEF TypeOK
      <3>3. leftover' \subseteq Calls \X Threads
        BY <1>1, <2>1 DEF TypeOK
      <3> QED
        BY <1>1, <2>4, <3>1, <3>2, <3>3 DEF TypeOK
    <2>6. ASSUME NEW u \in Threads
          PROVE  Course(u)'
      <3>1. Course(u) /\ (call[u] # Idle => call[u].kind \in Calls)
        BY <1>1, CallTypes DEF IInv, Courses
      <3> QED
        BY <1>1, <1>4, <2>2, <2>3, <3>1 DEF Course
    <2>7. ASSUME NEW k \in Calls, NEW u \in Threads
          PROVE  Owned(k, u)'
      <3>1. Owned(k, u)
        BY DEF IInv, EntriesAreOwned
      <3> QED
        BY <1>4, <2>2, <2>3, <3>1 DEF Owned, Saved, c
    <2> QED
      BY <2>5, <2>6, <2>7 DEF IInv, Courses, EntriesAreOwned
  <1>6. CASE ExitUnseen(t)
    <2>1. UNCHANGED <<sockets, perf>>
      BY <1>6 DEF ExitUnseen
    <2>2. \A k \in Calls, u \in Threads :
            <<k, u>> \in leftover' <=>
              <<k, u>> \in leftover \/ (call[t].saved /\ k = c /\ u = t)
      BY <1>6 DEF ExitUnseen, Tid, c
    <2>3. TypeOK'
      <3>1. call' \in [Threads -> CallRecords \cup {Idle}]
        BY <1>1, <1>3 DEF TypeOK
      <3>2. leftover' \subseteq Calls \X Threads
        BY <1>1, <1>6 DEF ExitUnseen, Tid, TypeOK, c
      <3> QED
        BY <1>1, <2>1, <3>1, <3>2 DEF TypeOK
    <2>4. ASSUME NEW u \in Threads
          PROVE  Course(u)'
      <3>1. Course(u) /\ (call[u] # Idle => call[u].kind \in Calls)
        BY <1>1, CallTypes DEF IInv, Courses
      <3> QED
        BY <1>1, <1>4, <2>1, <2>2, <3>1 DEF Course
    <2>5. ASSUME NEW k \in Calls, NEW u \in Threads
          PROVE  Owned(k, u)'
      <3>1. Owned(k, u)
        BY DEF IInv, EntriesAreOwned
      <3> QED
        BY <1>4, <2>1, <2>2, <3>1 DEF Owned, Saved, c
    <2> QED
      BY <2>3, <2>4, <2>5 DEF IInv, Courses, EntriesAreOwned
  <1> QED
    BY <1>5, <1>6

(* The steps that leave every call and every entry alone. *)
LEMMA OtherKeeps ==
  ASSUME IInv, UNCHANGED <<call, sockets, leftover>>,
         netOf' \in [Threads -> Nets],
         inode_num \subseteq inode_num', inode_num' \subseteq Nets,
         ignore_ips' \subseteq Addrs, perf' \in Seq(Events)
  PROVE  IInv'
  <1>1. TypeOK'
    BY DEF IInv, TypeOK
  <1>2. ASSUME NEW t \in Threads
        PROVE  Course(t)'
    <2>1. Course(t)
      BY DEF IInv, Courses
    <2> QED
      BY <2>1 DEF Course
  <1>3. EntriesAreOwned'
    BY DEF IInv, EntriesAreOwned, Owned, Saved
  <1> QED
    BY <1>1, <1>2, <1>3 DEF IInv, Courses

-------------------------------------------------------------------------------
(* The inductive invariant.                                                *)

LEMMA InitEstablishes == Init => IInv
  <1> SUFFICES ASSUME Init
               PROVE  IInv
    OBVIOUS
  <1>1. TypeOK
    BY DEF Init, TypeOK
  <1>2. \A t \in Threads : call[t] = Idle
    BY DEF Init
  <1>3. \A c \in Calls, t \in Threads : sockets[c][t] = NoSock
    BY DEF Init
  <1> QED
    BY <1>1, <1>2, <1>3 DEF IInv, Courses, Course, EntriesAreOwned, Owned, Saved

LEMMA StepKeeps == IInv /\ [Next]_vars => IInv'
  <1> SUFFICES ASSUME IInv, [Next]_vars
               PROVE  IInv'
    OBVIOUS
  <1> USE DEF IInv
  <1>1. ASSUME NEW n \in Nets, Register(n)
        PROVE  IInv'
    BY <1>1, OtherKeeps DEF Register, TypeOK
  <1>2. ASSUME NEW a \in DaemonAddrs, Ignore(a)
        PROVE  IInv'
    BY <1>2, OtherKeeps, AddrsAssumption DEF Ignore, TypeOK
  <1>3. CASE Read
    BY <1>3, OtherKeeps DEF Read, TypeOK
  <1>4. ASSUME NEW t \in Threads, NEW n \in Nets, Reuse(t, n)
        PROVE  IInv'
    BY <1>4, OtherKeeps DEF Reuse, TypeOK
  <1>5. ASSUME NEW t \in Threads, NEW d \in Addrs, Connect(t, d)
        PROVE  IInv'
    BY <1>5, ConnectKeeps
  <1>6. ASSUME NEW t \in Threads, Accept(t)
        PROVE  IInv'
    BY <1>6, AcceptKeeps
  <1>7. ASSUME NEW t \in Threads, NEW d \in Addrs, NEW ok \in BOOLEAN, Finish(t, ok, d)
        PROVE  IInv'
    BY <1>7, FinishKeeps
  <1>8. ASSUME NEW t \in Threads, Exit(t) \/ ExitUnseen(t)
        PROVE  IInv'
    BY <1>8, ReturnKeeps
  <1>9. ASSUME NEW t \in Threads, NEW d \in Addrs \cup {Zero}, UdpSend(t, d)
        PROVE  IInv'
    <2> DEFINE e == [inum |-> netOf[t], kind |-> "udp",
                     saddr |-> AddrOf[netOf[t]], daddr |-> d]
    <2>1. netOf[t] \in Nets /\ AddrOf[netOf[t]] \in Addrs
      BY SockTypes DEF TypeOK
    <2>2. e \in Events
      BY <2>1 DEF Events
    <2>3. Output(e)
      BY <1>9 DEF UdpSend
    <2> HIDE DEF e
    <2>4. perf' \in Seq(Events)
      BY <2>2, <2>3, OutputTypes
    <2> QED
      BY <1>9, <2>4, OtherKeeps DEF UdpSend, TypeOK
  <1>10. CASE UNCHANGED vars
    BY <1>10, OtherKeeps DEF vars, TypeOK
  <1> QED
    BY <1>1, <1>2, <1>3, <1>4, <1>5, <1>6, <1>7, <1>8, <1>9, <1>10 DEF Next

LEMMA Invariance == Spec => []IInv
  BY InitEstablishes, StepKeeps, PTL DEF Spec

-------------------------------------------------------------------------------
(* The theorems.                                                           *)

(* Type correctness of the probe's maps, calls and perf buffer.            *)
THEOREM TypeCorrect == Spec => []TypeOK
  <1>1. IInv => TypeOK
    BY DEF IInv
  <1> QED
    BY <1>1, Invariance, PTL

(* The maps hold the socket of a call somebody is in, or one whose return  *)
(* had no kretprobe instance, for any number of threads and any capacity.  *)
THEOREM TablesAreOwnedCorrect == Spec => []TablesAreOwned
  <1>1. IInv => TablesAreOwned
    BY DEF IInv, EntriesAreOwned, Owned, TablesAreOwned
  <1> QED
    BY <1>1, Invariance, PTL

-------------------------------------------------------------------------------
(* The events of a return.                                                 *)

(* An event that finds room is the last of the buffer, and only such an    *)
(* event makes the buffer longer.                                          *)
LEMMA OutputIsLast ==
  ASSUME TypeOK, NEW e \in Events, Output(e)
  PROVE  /\ Len(perf') > Len(perf) => NewEvent = e
         /\ Len(perf) < PerfCap => Len(perf') > Len(perf)
  <1>1. perf \in Seq(Events)
    BY DEF TypeOK
  <1>2. CASE Len(perf) < PerfCap
    BY <1>1, <1>2 DEF Output, NewEvent
  <1>3. CASE ~(Len(perf) < PerfCap)
    BY <1>1, <1>3 DEF Output
  <1> QED
    BY <1>2, <1>3

(* The socket an exit program reads, when its entry is not left over, is   *)
(* that of the call, and the event it makes is the event of the call.      *)
LEMMA EntryIsTheCalls ==
  ASSUME IInv, NEW t \in Threads, call[t] # Idle, call[t].ret = "ok",
         <<call[t].kind, t>> \notin leftover, Saved(call[t].kind, t),
         NEW sk \in Contents(call[t].kind, t)
  PROVE  /\ sk = call[t].sk
         /\ (IF call[t].kind = "connect" THEN sk ELSE call[t].conn) = call[t].conn
  <1>1. call[t].kind \in Calls /\ Course(t)
    BY CallTypes DEF IInv, Courses
  <1>2. Owned(call[t].kind, t)
    BY <1>1 DEF IInv, EntriesAreOwned
  <1>3. sk = sockets[call[t].kind][t]
    BY DEF Contents
  <1>4. sk = call[t].sk
    BY <1>2, <1>3 DEF Owned
  <1> QED
    BY <1>1, <1>4 DEF Course

LEMMA EventTypes ==
  ASSUME TypeOK, NEW c \in Calls, NEW sk \in Socks, NEW conn \in Socks
  PROVE  [inum |-> sk.net, kind |-> IF c = "connect" THEN "egress" ELSE "ingress",
          saddr |-> conn.saddr, daddr |-> conn.daddr] \in Events
  BY DEF Events, Socks

LEMMA ExitEventIsReal ==
  ASSUME IInv, NEW t \in Threads, Exit(t), Len(perf') > Len(perf)
  PROVE  /\ Returns(t) /\ call[t].ret = "ok"
         /\ NewEvent = EventOf(call[t]) \/ <<call[t].kind, t>> \in leftover
  <1>1. call[t] # Idle /\ call[t].kind \in Calls /\ Course(t) /\ TypeOK
    BY CallTypes DEF IInv, Courses, Exit
  <1>2. Returns(t)
    BY <1>1 DEF Exit, Returns, TypeOK
  <1>3. Saved(call[t].kind, t) /\ call[t].ret = "ok"
    BY <1>1 DEF Exit, Tid
  <1>4. ASSUME <<call[t].kind, t>> \notin leftover
        PROVE  NewEvent = EventOf(call[t])
    <2>1. PICK sk \in Contents(call[t].kind, t) :
            ReportExit(call[t].kind, sk,
                       IF call[t].kind = "connect" THEN sk ELSE call[t].conn)
      BY <1>3 DEF Exit, Tid
    <2>2. ReportExit(call[t].kind, call[t].sk, call[t].conn)
      BY <1>1, <1>3, <1>4, <2>1, EntryIsTheCalls
    <2>3. call[t].sk \in Socks /\ call[t].conn \in Socks
      BY <1>1, <1>3, CallTypes DEF Course
    <2>4. EventOf(call[t]) \in Events
      BY <1>1, <2>3, EventTypes DEF EventOf
    <2>5. Output(EventOf(call[t]))
      BY <2>2 DEF ReportExit, EventOf
    <2> QED
      BY <1>1, <2>4, <2>5, OutputIsLast
  <1> QED
    BY <1>2, <1>3, <1>4

LEMMA ExitReports ==
  ASSUME IInv, NEW t \in Threads, Exit(t), call[t].ret = "ok", call[t].saved,
         Reported(call[t].conn.saddr, call[t].conn.daddr), Len(perf) < PerfCap
  PROVE  Len(perf') > Len(perf) /\ NewEvent = EventOf(call[t])
  <1>1. call[t] # Idle /\ call[t].kind \in Calls /\ Course(t) /\ TypeOK
    BY CallTypes DEF IInv, Courses, Exit
  <1>2. /\ call[t].sk \in Socks /\ call[t].conn \in Socks
        /\ sockets[call[t].kind][t] = call[t].sk
        /\ <<call[t].kind, t>> \notin leftover /\ call[t].sk.net \in inode_num
    BY <1>1, CallTypes DEF Course
  <1>3. Saved(call[t].kind, t)
    BY <1>2, SockTypes DEF Saved
  <1>4. PICK sk \in Contents(call[t].kind, t) :
          ReportExit(call[t].kind, sk,
                     IF call[t].kind = "connect" THEN sk ELSE call[t].conn)
    BY <1>3 DEF Exit, Tid
  <1>5. ReportExit(call[t].kind, call[t].sk, call[t].conn)
    BY <1>1, <1>2, <1>3, <1>4, EntryIsTheCalls
  <1>6. call[t].kind = "connect" => Zero \notin {call[t].conn.saddr, call[t].conn.daddr}
    BY <1>1, SockTypes DEF Course
  <1>7. EventOf(call[t]) \in Events
    BY <1>1, <1>2, EventTypes DEF EventOf
  <1>8. Output(EventOf(call[t]))
    BY <1>2, <1>5, <1>6 DEF ReportExit, EventOf
  <1> QED
    BY <1>1, <1>7, <1>8, OutputIsLast

(* Which step makes the buffer longer, and which ends a call.              *)
LEMMA StepCauses ==
  ASSUME IInv, [Next]_vars
  PROVE  /\ Len(perf') > Len(perf) =>
              \/ \E t \in Threads : Exit(t)
              \/ NewEvent.kind = "udp"
         /\ \A t \in Threads : Returns(t) => Exit(t) \/ ExitUnseen(t)
  <1>0. perf \in Seq(Events) /\ Len(perf) \in Nat /\ TypeOK
    BY DEF IInv, TypeOK
  <1>1. ASSUME UNCHANGED call
        PROVE  \A t \in Threads : ~Returns(t)
    BY <1>1 DEF Returns
  <1>2. ASSUME NEW t \in Threads, NEW r, call' = [call EXCEPT ![t] = r], call'[t] # Idle
        PROVE  \A u \in Threads : ~Returns(u)
    BY <1>0, <1>2 DEF Returns, TypeOK
  <1>3. ASSUME NEW n \in Nets, Register(n)
        PROVE  UNCHANGED <<call, perf>>
    BY <1>3 DEF Register
  <1>4. ASSUME NEW a \in DaemonAddrs, Ignore(a)
        PROVE  UNCHANGED <<call, perf>>
    BY <1>4 DEF Ignore
  <1>5. CASE Read
    <2>1. Len(perf') = 0 /\ UNCHANGED call
      BY <1>5 DEF Read
    <2> QED
      BY <1>0, <1>1, <2>1
  <1>6. ASSUME NEW t \in Threads, NEW n \in Nets, Reuse(t, n)
        PROVE  UNCHANGED <<call, perf>>
    BY <1>6 DEF Reuse
  <1>7. ASSUME NEW t \in Threads, NEW d \in Addrs, Connect(t, d)
        PROVE  UNCHANGED perf /\ \A u \in Threads : ~Returns(u)
    <2>1. UNCHANGED perf
      BY <1>7 DEF Connect, Entry
    <2>2. call'[t] # Idle
      BY <1>7, ConnectKeeps
    <2> QED
      BY <1>2, <1>7, <2>1, <2>2 DEF Connect, Entry
  <1>8. ASSUME NEW t \in Threads, Accept(t)
        PROVE  UNCHANGED perf /\ \A u \in Threads : ~Returns(u)
    <2>1. UNCHANGED perf
      BY <1>8 DEF Accept, Entry
    <2>2. call'[t] # Idle
      BY <1>8, AcceptKeeps
    <2> QED
      BY <1>2, <1>8, <2>1, <2>2 DEF Accept, Entry
  <1>9. ASSUME NEW t \in Threads, NEW d \in Addrs, NEW ok \in BOOLEAN, Finish(t, ok, d)
        PROVE  UNCHANGED perf /\ \A u \in Threads : ~Returns(u)
    <2>1. UNCHANGED perf
      BY <1>9 DEF Finish
    <2>2. call'[t] # Idle
      BY <1>9, FinishKeeps
    <2> QED
      BY <1>2, <1>9, <2>1, <2>2 DEF Finish
  <1>10. ASSUME NEW t \in Threads, Exit(t) \/ ExitUnseen(t)
         PROVE  /\ Len(perf') > Len(perf) => Exit(t)
                /\ \A u \in Threads : Returns(u) => u = t
    <2>1. call' = [call EXCEPT ![t] = Idle]
      BY <1>10 DEF Exit, ExitUnseen
    <2>2. \A u \in Threads : Returns(u) => u = t
      BY <1>0, <2>1 DEF Returns, TypeOK
    <2>3. ExitUnseen(t) => UNCHANGED perf
      BY DEF ExitUnseen
    <2> QED
      BY <1>0, <1>10, <2>2, <2>3
  <1>11. ASSUME NEW t \in Threads, NEW d \in Addrs \cup {Zero}, UdpSend(t, d)
         PROVE  UNCHANGED call /\ (Len(perf') > Len(perf) => NewEvent.kind = "udp")
    <2> DEFINE e == [inum |-> netOf[t], kind |-> "udp",
                     saddr |-> AddrOf[netOf[t]], daddr |-> d]
    <2>1. netOf[t] \in Nets /\ AddrOf[netOf[t]] \in Addrs
      BY <1>0, SockTypes DEF TypeOK
    <2>2. e \in Events /\ e.kind = "udp"
      BY <2>1 DEF Events
    <2>3. Output(e) /\ UNCHANGED call
      BY <1>11 DEF UdpSend
    <2> HIDE DEF e
    <2> QED
      BY <1>0, <2>2, <2>3, OutputIsLast
  <1>12. CASE UNCHANGED vars
    BY <1>0, <1>1, <1>12 DEF vars
  <1> QED
    BY <1>0, <1>1, <1>3, <1>4, <1>5, <1>6, <1>7, <1>8, <1>9, <1>10, <1>11, <1>12 DEF Next

(* EventsAreReal for any threads, namespaces and capacities: no event names *)
(* a connection nobody made, nor another pod's namespace, unless a return   *)
(* of an earlier call of that thread id went unseen.                        *)
THEOREM EventsAreRealCorrect == Spec => EventsAreReal
  <1> DEFINE A == Len(perf') > Len(perf) /\ NewEvent.kind # "udp" =>
                    \E t \in Threads :
                      /\ Returns(t) /\ call[t].ret = "ok"
                      /\ NewEvent = EventOf(call[t]) \/ <<call[t].kind, t>> \in leftover
  <1>1. IInv /\ [Next]_vars => A
    BY StepCauses, ExitEventIsReal
  <1> QED
    BY <1>1, Invariance, PTL DEF Spec, EventsAreReal

(* TrackedIsReported for any threads, namespaces and capacities: what was  *)
(* saved at the entry of a call is enough for the event at its return.     *)
THEOREM TrackedIsReportedCorrect == Spec => TrackedIsReported
  <1> DEFINE A == \A t \in Threads :
                    Returns(t) /\ call[t].ret = "ok" /\ call[t].hooked /\ call[t].saved
                    /\ Reported(call[t].conn.saddr, call[t].conn.daddr) /\ Len(perf) < PerfCap
                      => Len(perf') > Len(perf) /\ NewEvent = EventOf(call[t])
  <1>1. IInv /\ [Next]_vars => A
    <2> SUFFICES ASSUME IInv, [Next]_vars, NEW t \in Threads,
                        Returns(t), call[t].ret = "ok", call[t].hooked, call[t].saved,
                        Reported(call[t].conn.saddr, call[t].conn.daddr), Len(perf) < PerfCap
                 PROVE  Len(perf') > Len(perf) /\ NewEvent = EventOf(call[t])
      OBVIOUS
    <2>1. Exit(t)
      BY StepCauses DEF ExitUnseen
    <2> QED
      BY <2>1, ExitReports
  <1> QED
    BY <1>1, Invariance, PTL DEF Spec, TrackedIsReported
===============================================================================

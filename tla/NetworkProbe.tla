----------------------------- MODULE NetworkProbe -----------------------------
(***************************************************************************)
(* The network probe (controller/src/bpf/network_probe.bpf.c), running in  *)
(* the kernel beneath the threads of every pod of the node. A TCP call is  *)
(* seen twice: a kprobe at its entry saves the socket under the thread's   *)
(* id, a kretprobe at its return takes it back and reports the connection. *)
(* Between the two the thread may block, other threads enter and leave,    *)
(* and the controller writes the maps inode_num and ignore_ips.            *)
(*                                                                         *)
(* The kernel has RetSlots kretprobe instances: a call that finds none     *)
(* free at its entry returns unseen. Thread ids are reused.                *)
(***************************************************************************)
EXTENDS Naturals, Sequences, FiniteSets

CONSTANTS
    Threads,     \* thread ids
    Nets,        \* inode numbers of network namespaces
    Addrs,       \* IPv4 addresses
    Zero,        \* 0.0.0.0
    Loopback,    \* 127.0.0.1
    AddrOf,      \* the address of each namespace
    DaemonAddrs, \* addresses the controller may ask to ignore
    NoSock, Idle,
    RetSlots,    \* kretprobe instances
    MapCap,      \* max_entries of sockets and accepted_sockets (10240)
    PerfCap      \* events the perf buffer holds

ASSUME AddrsAssumption ==
    /\ Zero \notin Addrs /\ Loopback \in Addrs
    /\ AddrOf \in [Nets -> Addrs \ {Loopback}]
    /\ DaemonAddrs \subseteq Addrs
ASSUME BoundsAssumption == RetSlots \in Nat /\ MapCap \in Nat /\ PerfCap \in Nat

Calls == {"connect", "accept"}

\* A struct sock, as far as the probe reads it.
Socks == [net : Nets, saddr : Addrs \cup {Zero}, daddr : Addrs \cup {Zero}]
ASSUME MarksAssumption == NoSock \notin Socks

VARIABLES
    netOf,       \* the namespace of the process each thread belongs to
    call,        \* the probed call each thread is in, or Idle
    sockets,     \* maps sockets and accepted_sockets: thread id -> struct sock
    leftover,    \* the entries whose call is over, its return unseen
    inode_num,   \* map inode_num
    ignore_ips,  \* map ignore_ips
    perf         \* perf buffer tracept_events

vars == <<netOf, call, sockets, leftover, inode_num, ignore_ips, perf>>

CallRecords ==
    [kind : Calls, sk : Socks, conn : Socks \cup {NoSock},
     ret : {"running", "ok", "failed"}, hooked : BOOLEAN, saved : BOOLEAN]

ASSUME IdleAssumption == Idle \notin CallRecords

Events == [inum : Nets, kind : {"egress", "ingress", "udp"},
           saddr : Addrs \cup {Zero}, daddr : Addrs \cup {Zero}]

Init ==
    /\ netOf \in [Threads -> Nets]
    /\ call = [t \in Threads |-> Idle]
    /\ sockets = [c \in Calls |-> [t \in Threads |-> NoSock]]
    /\ leftover = {}
    /\ inode_num = {} /\ ignore_ips = {}
    /\ perf = <<>>

-------------------------------------------------------------------------------
(* The other side of the maps: the controller's blocking thread.           *)

Register(n) ==
    /\ inode_num' = inode_num \cup {n}
    /\ UNCHANGED <<netOf, call, sockets, leftover, ignore_ips, perf>>

Ignore(a) ==
    /\ ignore_ips' = ignore_ips \cup {a}
    /\ UNCHANGED <<netOf, call, sockets, leftover, inode_num, perf>>

Read ==
    /\ perf # <<>>
    /\ perf' = <<>>
    /\ UNCHANGED <<netOf, call, sockets, leftover, inode_num, ignore_ips>>

(* A thread ends and its id is given to a thread of some other pod.        *)
Reuse(t, n) ==
    /\ call[t] = Idle
    /\ netOf' = [netOf EXCEPT ![t] = n]
    /\ UNCHANGED <<call, sockets, leftover, inode_num, ignore_ips, perf>>

-------------------------------------------------------------------------------
(* Mutant: the other half of the word, the id of the process; here all     *)
(* threads are of one process.                                             *)
Tgid(t) == CHOOSE u \in Threads : TRUE

(* bpf_get_current_pid_tgid() as a __u32: the id of the thread.            *)
Tid(t) == t

Saved(c, key) == sockets[c][key] # NoSock
FreeSlot == Cardinality({t \in Threads : call[t] # Idle /\ call[t].hooked}) < RetSlots
Room(c, key) ==
    Saved(c, key) \/ Cardinality({t \in Threads : Saved(c, t)}) < MapCap

(* tcp_v4_connect_entry and tcp_accept_entry: the socket is saved if its   *)
(* namespace is monitored; an update that finds the map full is lost.      *)
Entry(t, c, sk) ==
    LET saved == sk.net \in inode_num /\ Room(c, Tid(t))
    IN  /\ call[t] = Idle
        /\ call' = [call EXCEPT ![t] = [kind |-> c, sk |-> sk, conn |-> NoSock,
                        ret |-> "running", hooked |-> FreeSlot, saved |-> saved]]
        /\ IF saved
           THEN /\ sockets' = [sockets EXCEPT ![c][Tid(t)] = sk]
                /\ leftover' = leftover \ {<<c, Tid(t)>>}
           ELSE UNCHANGED <<sockets, leftover>>
        /\ UNCHANGED <<netOf, inode_num, ignore_ips, perf>>

Connect(t, d) ==
    Entry(t, "connect", [net |-> netOf[t], daddr |-> d,
                         saddr |-> IF d = Loopback THEN Loopback ELSE AddrOf[netOf[t]]])

Accept(t) == Entry(t, "accept", [net |-> netOf[t], saddr |-> Zero, daddr |-> Zero])

(* The kernel finishes the call: the connection is there or it is not. An  *)
(* accept returns the socket of a connection that peer d made.             *)
Finish(t, ok, d) ==
    LET made == IF ~ok THEN NoSock
                ELSE IF call[t].kind = "connect" THEN call[t].sk
                ELSE [net |-> netOf[t], daddr |-> d,
                      saddr |-> IF d = Loopback THEN Loopback ELSE AddrOf[netOf[t]]]
    IN  /\ call[t] # Idle /\ call[t].ret = "running"
        /\ call' = [call EXCEPT ![t] =
                [kind |-> @.kind, sk |-> @.sk, conn |-> made,
                 ret |-> IF ok THEN "ok" ELSE "failed", hooked |-> @.hooked, saved |-> @.saved]]
        /\ UNCHANGED <<netOf, sockets, leftover, inode_num, ignore_ips, perf>>

(* bpf_perf_event_output: an event that finds no room is lost.             *)
Output(e) == perf' = IF Len(perf) < PerfCap THEN Append(perf, e) ELSE perf

(* No event of an address to be ignored, nor of a pod with itself.         *)
Reported(s, d) == {s, d} \cap ignore_ips = {} /\ s # d

ReportExit(c, sk, conn) ==
    IF sk.net \in inode_num /\ Reported(conn.saddr, conn.daddr)
       /\ (c = "connect" => Zero \notin {conn.saddr, conn.daddr})
    THEN Output([inum |-> sk.net, kind |-> IF c = "connect" THEN "egress" ELSE "ingress",
                 saddr |-> conn.saddr, daddr |-> conn.daddr])
    ELSE UNCHANGED perf

(* What a saved pointer reads as: the memory of the socket of a call that  *)
(* is over may hold anything by now.                                       *)
Contents(c, key) == IF <<c, key>> \in leftover THEN Socks ELSE {sockets[c][key]}

(* Mutant: the entry is deleted only when there is something to report.    *)
ExitKeepsFailed(t) ==
    LET c == call[t].kind
    IN  /\ call[t] # Idle /\ call[t].ret # "running" /\ call[t].hooked
        /\ call' = [call EXCEPT ![t] = Idle]
        /\ IF Saved(c, Tid(t)) /\ call[t].ret = "ok"
           THEN /\ sockets' = [sockets EXCEPT ![c][Tid(t)] = NoSock]
                /\ leftover' = leftover \ {<<c, Tid(t)>>}
                /\ \E sk \in Contents(c, Tid(t)) :
                      ReportExit(c, sk, IF c = "connect" THEN sk ELSE call[t].conn)
           ELSE UNCHANGED <<sockets, leftover, perf>>
        /\ UNCHANGED <<netOf, inode_num, ignore_ips>>

(* tcp_v4_connect_exit and tcp_accept_exit: a connect reports the socket   *)
(* that was saved, an accept the new one, in the namespace of the saved.   *)
Exit(t) ==
    LET c == call[t].kind
    IN  /\ call[t] # Idle /\ call[t].ret # "running" /\ call[t].hooked
        /\ call' = [call EXCEPT ![t] = Idle]
        /\ sockets' = [sockets EXCEPT ![c][Tid(t)] = NoSock]
        /\ leftover' = leftover \ {<<c, Tid(t)>>}
        /\ IF Saved(c, Tid(t)) /\ call[t].ret = "ok"
           THEN \E sk \in Contents(c, Tid(t)) :
                   ReportExit(c, sk, IF c = "connect" THEN sk ELSE call[t].conn)
           ELSE UNCHANGED perf
        /\ UNCHANGED <<netOf, inode_num, ignore_ips>>

(* The return of a call that had no kretprobe instance.                    *)
ExitUnseen(t) ==
    /\ call[t] # Idle /\ call[t].ret # "running" /\ ~call[t].hooked
    /\ call' = [call EXCEPT ![t] = Idle]
    /\ leftover' = IF call[t].saved THEN leftover \cup {<<call[t].kind, Tid(t)>>}
                   ELSE leftover
    /\ UNCHANGED <<netOf, sockets, inode_num, ignore_ips, perf>>

(* Mutant: event.inum is left as it was initialised. *)
UdpSendUnset(t, d) ==
    /\ call[t] = Idle
    /\ netOf[t] \in inode_num
    /\ d \notin {Loopback, Zero} /\ Reported(AddrOf[netOf[t]], d)
    /\ Output([inum |-> 0, kind |-> "udp", saddr |-> AddrOf[netOf[t]], daddr |-> d])
    /\ UNCHANGED <<netOf, call, sockets, leftover, inode_num, ignore_ips>>

(* trace_udp_send: the destination is the one the socket is connected to,  *)
(* Zero when sendto() names it instead.                                    *)
UdpSend(t, d) ==
    /\ call[t] = Idle
    /\ netOf[t] \in inode_num
    /\ d \notin {Loopback, Zero} /\ Reported(AddrOf[netOf[t]], d)
    /\ Output([inum |-> netOf[t], kind |-> "udp", saddr |-> AddrOf[netOf[t]], daddr |-> d])
    /\ UNCHANGED <<netOf, call, sockets, leftover, inode_num, ignore_ips>>

-------------------------------------------------------------------------------
Next ==
    \/ \E n \in Nets : Register(n)
    \/ \E a \in DaemonAddrs : Ignore(a)
    \/ Read
    \/ \E t \in Threads :
         \/ \E n \in Nets : Reuse(t, n)
         \/ \E d \in Addrs : Connect(t, d)
         \/ Accept(t)
         \/ \E d \in Addrs, ok \in BOOLEAN : Finish(t, ok, d)
         \/ Exit(t)
         \/ ExitUnseen(t)
         \/ \E d \in Addrs \cup {Zero} : UdpSend(t, d)

Spec == Init /\ [][Next]_vars

-------------------------------------------------------------------------------
(* Properties.                                                             *)

TypeOK ==
    /\ netOf \in [Threads -> Nets]
    /\ call \in [Threads -> CallRecords \cup {Idle}]
    /\ sockets \in [Calls -> [Threads -> Socks \cup {NoSock}]]
    /\ leftover \subseteq Calls \X Threads
    /\ inode_num \subseteq Nets /\ ignore_ips \subseteq Addrs
    /\ perf \in Seq(Events)

(* A socket is kept only for a thread that is inside the call, so the maps *)
(* do not fill up with the dead; only a return that went unseen leaves one *)
(* behind (the bpf_map_delete_elem before any early return of the exits).  *)
TablesAreOwned ==
    \A c \in Calls, t \in Threads :
        Saved(c, t) =>
            \/ <<c, t>> \in leftover
            \/ call[t] # Idle /\ call[t].kind = c /\ call[t].sk = sockets[c][t]

(* What the event of a call has to say. *)
EventOf(r) ==
    [inum |-> r.sk.net, kind |-> IF r.kind = "connect" THEN "egress" ELSE "ingress",
     saddr |-> r.conn.saddr, daddr |-> r.conn.daddr]

Returns(t) == call[t] # Idle /\ call'[t] = Idle
NewEvent == perf'[Len(perf')]

(* A TCP event is the connection that a call of the thread just made, in   *)
(* the namespace of that thread, whatever other threads do between entry   *)
(* and return and whoever had the thread id before, unless a return of an  *)
(* earlier call of that id went unseen.                                    *)
EventsAreReal ==
    [][Len(perf') > Len(perf) /\ NewEvent.kind # "udp" =>
         \E t \in Threads :
             /\ Returns(t) /\ call[t].ret = "ok"
             /\ NewEvent = EventOf(call[t]) \/ <<call[t].kind, t>> \in leftover]_vars

(* A connection made by a call that was monitored at its entry is reported *)
(* at its return, with room in the perf buffer and no end to be ignored.   *)
TrackedIsReported ==
    [][\A t \in Threads :
         Returns(t) /\ call[t].ret = "ok" /\ call[t].hooked /\ call[t].saved
         /\ Reported(call[t].conn.saddr, call[t].conn.daddr) /\ Len(perf) < PerfCap
           => Len(perf') > Len(perf) /\ NewEvent = EventOf(call[t])]_vars
===============================================================================

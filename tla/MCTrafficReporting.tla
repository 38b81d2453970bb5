--------------------------- MODULE MCTrafficReporting ---------------------------
(* Instances of TrafficReporting for TLC. *)
EXTENDS TrafficReporting, TLC

CONSTANTS c1, c2

Flow(pod, ip, port, type, proto, peer, peerPort) ==
    [pod |-> pod, ip |-> ip, port |-> port, type |-> type, proto |-> proto,
     peer |-> peer, peerPort |-> peerPort]

\* Two datagram flows of one pod to a peer, which get_row does not tell apart.
U53 == Flow("p", "ipP", 0, "EGRESS", "UDP", "x", 53)
U99 == Flow("p", "ipP", 0, "EGRESS", "UDP", "x", 99)
\* A connection of a pod of another node.
T80 == Flow("q", "ipQ", 0, "EGRESS", "TCP", "x", 80)

MCBodies == {U53, U99, T80}
MCOwn == [c \in Controllers |-> IF c = c1 THEN {U53, U99} ELSE {T80}]
MCDatagrams == {U53, U99}
MCOwnDatagrams == [c \in Controllers |-> IF c = c1 THEN {U53, U99} ELSE {}]
=================================================================================

-------------------------- MODULE MCPolicyGenerator --------------------------
(* Two pods. The flows differ in direction, peer, port or protocol alone;  *)
(* the last two make a peer of an address that a pod had.                  *)
EXTENDS PolicyGenerator

CONSTANTS p, q, a, b, c

MCBatch == <<p, q>>

Flow(ip, type, peer, port, proto) ==
    [ip |-> ip, type |-> type, peer |-> peer, port |-> port, proto |-> proto]

MCFlows ==
    {Flow(a, "INGRESS", b, 80, "TCP"), Flow(a, "EGRESS", b, 80, "TCP"),
     Flow(a, "EGRESS", b, 80, "UDP"), Flow(a, "EGRESS", c, 80, "TCP"),
     Flow(b, "EGRESS", a, 443, "TCP")}
================================================================================

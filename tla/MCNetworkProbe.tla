---------------------------- MODULE MCNetworkProbe ----------------------------
(* Instance of NetworkProbe for TLC. *)
EXTENDS NetworkProbe

CONSTANTS n1, n2, a1, a2

MCAddrOf == [n \in Nets |-> IF n = n1 THEN a1 ELSE a2]
===============================================================================

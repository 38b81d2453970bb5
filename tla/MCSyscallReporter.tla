-------------------------- MODULE MCSyscallReporter --------------------------
(* Two nodes of different architectures. Pods named q are on the first     *)
(* alone and make both calls; pods named p are on both nodes.              *)
EXTENDS SyscallReporter, TLC

CONSTANTS c1, c2, p, q, s1, s2

MCMakes == (c1 :> (p :> {s1} @@ q :> {s1, s2})) @@ (c2 :> (p :> {s2} @@ q :> {}))
MCArchOf == [c \in Controllers |-> IF c = c1 THEN "x86_64" ELSE "aarch64"]
================================================================================

------------------------ MODULE MCControllerPipeline ------------------------
(* Instances of ControllerPipeline for TLC. *)
EXTENDS ControllerPipeline, TLC

CONSTANTS a, b, f, g

(* f leaves the cluster, g goes to pod b. *)
MCPeerOf == [x \in Flows |-> IF x = g THEN b ELSE NoPod]

(* No inode number differs from another where none is the host's. *)
InumSymmetry == Permutations(Inums)
=============================================================================

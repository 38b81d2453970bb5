---------------------------- MODULE RecordedFlows ----------------------------
(***************************************************************************)
(* What the reporting of traffic promises, whatever fails in between: a    *)
(* recorded flow stays recorded, and a reporter stops telling of a flow    *)
(* only when a record stands for it, or when it was given up because the   *)
(* broker answered with an error.                                          *)
(***************************************************************************)
CONSTANTS Reporters, Flows, Stands(_, _)

VARIABLES recorded, givenUp, suppressed

vars == <<recorded, givenUp, suppressed>>

Covered(b) == \E c \in recorded : Stands(c, b)

Init ==
    /\ recorded = {} /\ givenUp = {}
    /\ suppressed = [s \in Reporters |-> {}]

Record(b) ==
    /\ recorded' = recorded \cup {b}
    /\ UNCHANGED <<givenUp, suppressed>>

Suppress(s, b) ==
    /\ Covered(b)
    /\ suppressed' = [suppressed EXCEPT ![s] = @ \cup {b}]
    /\ UNCHANGED <<recorded, givenUp>>

GiveUp(s, b) ==
    /\ givenUp' = givenUp \cup {b}
    /\ suppressed' = [suppressed EXCEPT ![s] = @ \cup {b}]
    /\ UNCHANGED recorded

Forget(s, B) ==
    /\ suppressed' = [suppressed EXCEPT ![s] = @ \ B]
    /\ UNCHANGED <<recorded, givenUp>>

Next ==
    \/ \E b \in Flows : Record(b)
    \/ \E s \in Reporters, b \in Flows : Suppress(s, b) \/ GiveUp(s, b)
    \/ \E s \in Reporters, B \in SUBSET Flows : Forget(s, B)

Spec == Init /\ [][Next]_vars
==============================================================================

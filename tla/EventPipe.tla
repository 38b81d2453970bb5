------------------------------ MODULE EventPipe ------------------------------
(***************************************************************************)
(* What the way of an event from the kernel to its handler promises, with  *)
(* the perf buffer, the batch being delivered and the channel taken for    *)
(* one queue: for each kind of events a bounded first-in first-out queue,  *)
(* whose events are handled one at a time. While the process is up nothing *)
(* is lost, doubled or overtaken on the way, and only what was handled is  *)
(* recorded. The order is that of one perf buffer, as a CPU has it.        *)
(***************************************************************************)
EXTENDS Naturals, Sequences

CONSTANTS
    Kinds,      \* kinds of events
    Pods,       \* whom an event may be attributed to
    Events,     \* kind -> the events of that kind
    NoEvent,    \* what an idle handler handles
    Capacity    \* events that may be on their way

VARIABLES
    life,       \* the process: "up", "zombie" or "down"
    queue,      \* kind -> the events on their way
    current,    \* kind -> the event being handled
    record      \* kind -> what has been noted, of which pod

vars == <<life, queue, current, record>>

Init ==
    /\ life = "up"
    /\ queue = [k \in Kinds |-> <<>>]
    /\ current = [k \in Kinds |-> NoEvent]
    /\ record = [k \in Kinds |-> {}]

Put(k, e) ==
    /\ life # "down" /\ Len(queue[k]) < Capacity
    /\ queue' = [queue EXCEPT ![k] = Append(@, e)]
    /\ UNCHANGED <<life, current, record>>

Take(k) ==
    /\ life = "up" /\ current[k] = NoEvent /\ queue[k] # <<>>
    /\ current' = [current EXCEPT ![k] = Head(queue[k])]
    /\ queue' = [queue EXCEPT ![k] = Tail(@)]
    /\ UNCHANGED <<life, record>>

(* The event is noted for a pod, or passed over. *)
Finish(k) ==
    /\ life = "up" /\ current[k] # NoEvent
    /\ current' = [current EXCEPT ![k] = NoEvent]
    /\ \/ UNCHANGED record
       \/ \E p \in Pods :
             record' = [record EXCEPT ![k] = @ \cup {<<p, current[k].item>>}]
    /\ UNCHANGED <<life, queue>>

(* The handlers are gone with what they had: the oldest events of each     *)
(* queue. Those behind, and those still to come, have nobody to go to.     *)
Fail ==
    /\ life = "up" /\ life' = "zombie"
    /\ \A k \in Kinds : current'[k] = NoEvent
    /\ \A k \in Kinds : \E n \in 0 .. Len(queue[k]) :
          queue'[k] = SubSeq(queue[k], n + 1, Len(queue[k]))
    /\ UNCHANGED record

Discard(k) ==
    /\ life = "zombie" /\ queue[k] # <<>>
    /\ queue' = [queue EXCEPT ![k] = Tail(@)]
    /\ UNCHANGED <<life, current, record>>

(* What was noted in memory goes with the process. *)
End ==
    /\ life' = "down"
    /\ queue' = [k \in Kinds |-> <<>>]
    /\ current' = [k \in Kinds |-> NoEvent]
    /\ \A k \in Kinds : record'[k] \subseteq record[k]

Start == life = "down" /\ life' = "up" /\ UNCHANGED <<queue, current, record>>

Next ==
    \/ \E k \in Kinds : \E e \in Events[k] : Put(k, e)
    \/ \E k \in Kinds : Take(k) \/ Finish(k) \/ Discard(k)
    \/ Fail \/ End \/ Start

Spec == Init /\ [][Next]_vars
==============================================================================

---------------------------- MODULE PortForward_proofs ----------------------------
(***************************************************************************)
(* Proofs about PortForward, for any deadlines that nest: the forwarder    *)
(* answers before gen networkpolicy gives up, sends one error at most, and *)
(* neither command asks the broker for want of a tunnel that came up.      *)
(***************************************************************************)
EXTENDS PortForward, TLAPS

(* The goroutine is where its deadlines let it be. *)
Clock ==
    /\ main = "start" <=> finder = "off"
    /\ finder = "off" => now = 0
    /\ finder \in Calling => now <= ApiTimeout
    /\ finder = "wait" => waitFrom <= ApiTimeout /\ now <= waitFrom + ReadyTimeout
    /\ finder \in {"send", "close"} => now <= ApiTimeout + ReadyTimeout
    /\ main = "blocked" => ~done

(* What done and errChan say, and to whom. *)
Channels ==
    /\ finder = "ended" <=> done
    /\ finder \in {"off", "wait", "send"} \cup Calling => ~errChan
    /\ main \in {"list", "sleep", "fetch"} => done
    /\ main = "blocked" /\ command = "networkpolicy" => ~errChan
    /\ finder \in {"close", "ended"} /\ Running /\ ~errChan => ready

(* No time passes between the end of gen seccomp's wait and the end of gen *)
(* seccomp, when there is an error.                                        *)
FatalInTime ==
    command = "seccomp" /\ errChan =>
        /\ main # "fetch"
        /\ main = "sleep" => now = since

IInv == TypeOK /\ Clock /\ Channels /\ FatalInTime

-------------------------------------------------------------------------------
LEMMA InitIInv == Init => IInv
  <1> SUFFICES ASSUME Init PROVE IInv
    OBVIOUS
  <1>1. ~errChan /\ ~done /\ finder = "off" /\ main = "start" /\ now = 0
    BY Zenon DEF Init
  <1>2. TypeOK
    <2>1. /\ errChan \in BOOLEAN /\ done \in BOOLEAN
          /\ ready \in BOOLEAN /\ pfErrChan \in BOOLEAN
      BY Zenon DEF Init
    <2>2. /\ now = 0 /\ since = 0 /\ waitFrom = 0 /\ tunnel = "off"
          /\ command \in {"networkpolicy", "seccomp"}
      BY Zenon DEF Init
    <2> QED
      BY <1>1, <2>1, <2>2 DEF TypeOK
  <1> QED
    BY <1>1, <1>2 DEF IInv, Clock, Channels, FatalInTime, Calling

(* The steps of the command. *)
LEMMA MainSteps == IInv /\ MainStep => IInv'
  <1> SUFFICES ASSUME IInv, MainStep PROVE IInv'
    OBVIOUS
  <1> USE DeadlinesAssumption
          DEF IInv, TypeOK, Clock, Channels, FatalInTime, Calling, Ended, Running
  <1>1. CASE Call
    BY <1>1 DEF Call
  <1>2. CASE Receive
    <2>1. CASE done /\ main' = "list" /\ UNCHANGED errChan
      BY <1>2, <2>1 DEF Receive
    <2>2. CASE command = "networkpolicy" /\ main' = "failed" /\ errChan' = FALSE
      <3>1. ~errChan'
        BY <2>2, Zenon
      <3> QED
        BY <1>2, <2>2, <3>1 DEF Receive
    <2>3. CASE ~done /\ main' = "blocked" /\ UNCHANGED errChan
               /\ ~(command = "networkpolicy" /\ errChan)
      BY <1>2, <2>3 DEF Receive
    <2> QED
      BY <1>2, <2>1, <2>2, <2>3 DEF Receive
  <1>3. CASE ErrorIsFatal
    BY <1>3 DEF ErrorIsFatal, FatalPending
  <1>4. CASE Listed
    BY <1>4 DEF Listed
  <1>5. CASE Wake
    BY <1>5 DEF Wake
  <1>6. CASE Finish
    BY <1>6 DEF Finish
  <1> QED
    BY <1>1, <1>2, <1>3, <1>4, <1>5, <1>6 DEF MainStep

(* The steps of the goroutine that finds the pod. *)
LEMMA FinderSteps == IInv /\ FinderStep => IInv'
  <1> SUFFICES ASSUME IInv, FinderStep PROVE IInv'
    OBVIOUS
  <1> USE DeadlinesAssumption
          DEF IInv, TypeOK, Clock, Channels, FatalInTime, Calling, Ended, Running
  <1>1. CASE ServiceFound
    BY <1>1 DEF ServiceFound, Goes
  <1>2. CASE ApiFails
    BY <1>2 DEF ApiFails, Goes
  <1>3. CASE PodsListed
    BY <1>3 DEF PodsListed, Goes
  <1>4. CASE WaitReady
    BY <1>4 DEF WaitReady, Goes
  <1>5. CASE WaitFails
    <2>1. pfErrChan' \in BOOLEAN /\ UNCHANGED <<errChan, done, ready>>
      BY <1>5, Zenon DEF WaitFails
    <2> QED
      BY <1>5, <2>1 DEF WaitFails, Goes
  <1>6. CASE WaitTimeout
    BY <1>6 DEF WaitTimeout, Goes
  <1>7. CASE SendError
    BY <1>7 DEF SendError
  <1>8. CASE CloseDone
    BY <1>8 DEF CloseDone
  <1> QED
    BY <1>1, <1>2, <1>3, <1>4, <1>5, <1>6, <1>7, <1>8 DEF FinderStep

(* Time passes only when nothing of the program is due. *)
LEMMA TickStep == IInv /\ Tick => IInv'
  BY DeadlinesAssumption
  DEF IInv, TypeOK, Clock, Channels, FatalInTime, Calling, Ended, Running, Tick, Due,
      ApiIsLate, WaitIsLate, FatalPending

LEMMA Inductive == IInv /\ [Next]_vars => IInv'
  <1> SUFFICES ASSUME IInv, [Next]_vars PROVE IInv'
    OBVIOUS
  <1>1. CASE TunnelUp \/ TunnelFails
    <2>1. /\ ready' \in BOOLEAN /\ pfErrChan' \in BOOLEAN /\ (ready => ready')
          /\ UNCHANGED <<now, command, main, since, finder, waitFrom, errChan, done>>
      BY <1>1, Zenon DEF TunnelUp, TunnelFails, IInv, TypeOK
    <2>2. tunnel' \in {"up", "failed"}
      BY <1>1 DEF TunnelUp, TunnelFails
    <2> QED
      BY <2>1, <2>2 DEF IInv, TypeOK, Clock, Channels, FatalInTime, Calling, Ended, Running
  <1>2. CASE UNCHANGED vars
    BY <1>2 DEF vars, IInv, TypeOK, Clock, Channels, FatalInTime, Calling, Ended, Running
  <1> QED
    BY <1>1, <1>2, MainSteps, FinderSteps, TickStep DEF Next

LEMMA Invariance == Spec => []IInv
  BY InitIInv, Inductive, PTL DEF Spec

-------------------------------------------------------------------------------
(* Every variable keeps its type (portforward.go, networkpolicy.go,        *)
(* seccomp.go).                                                            *)
THEOREM TypeCorrect == Spec => []TypeOK
  BY Invariance, PTL DEF IInv

(* A command that is blocked waits for a goroutine whose deadlines come    *)
(* before its own (portforward.go:66 and 224, networkpolicy.go:67).        *)
THEOREM DeadlinesNestCorrect == Spec => []DeadlinesNest
  <1>1. IInv /\ main = "blocked" => now <= ApiTimeout + ReadyTimeout
    BY DeadlinesAssumption DEF IInv, TypeOK, Clock, Channels, Calling, Ended
  <1>2. IInv => DeadlinesNest
    BY <1>1, DeadlinesAssumption DEF DeadlinesNest, SelectTimesOut, IInv, TypeOK
  <1> QED
    BY <1>2, Invariance, PTL

(* The forwarder never blocks on errChan (portforward.go:29). *)
THEOREM SendsOnceCorrect == Spec => []SendsOnce
  <1>1. IInv => SendsOnce
    BY DEF IInv, Channels, SendsOnce, Calling
  <1> QED
    BY <1>1, Invariance, PTL

(* gen seccomp asks the broker only over a tunnel that came up, whatever   *)
(* the length of the sleep that precedes it (seccomp.go:74-79).            *)
THEOREM SeccompHasTunnelCorrect == Spec => []SeccompHasTunnel
  <1>1. IInv => SeccompHasTunnel
    BY DEF IInv, TypeOK, Channels, FatalInTime, SeccompHasTunnel, Running, Ended
  <1> QED
    BY <1>1, Invariance, PTL

(* gen networkpolicy, once blocked, goes on only with a tunnel that came   *)
(* up (networkpolicy.go:88-100).                                           *)
THEOREM BlockedGoesOnWithTunnelCorrect == Spec => BlockedGoesOnWithTunnel
  <1>1. IInv /\ [Next]_vars
        => [command = "networkpolicy" /\ main = "blocked" /\ main' = "list" => ready']_vars
    <2> SUFFICES ASSUME IInv, [Next]_vars, command = "networkpolicy", main = "blocked",
                        main' = "list"
                 PROVE  ready'
      OBVIOUS
    <2>1. CloseDone
      BY DEF Next, MainStep, FinderStep, Call, Receive, ErrorIsFatal, Listed,
             Wake, Finish, ServiceFound, ApiFails, PodsListed, WaitReady, WaitFails,
             WaitTimeout, SendError, Goes, TunnelUp, TunnelFails, Tick, vars
    <2> QED
      BY <2>1 DEF CloseDone, IInv, Channels, Running
  <1> QED
    BY <1>1, Invariance, PTL DEF Spec, BlockedGoesOnWithTunnel
===================================================================================

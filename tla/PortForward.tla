------------------------------ MODULE PortForward ------------------------------
(***************************************************************************)
(* How the advisor gets its tunnel to the broker. PortForward              *)
(* (advisor/pkg/k8s/portforward.go) starts a goroutine that finds a ready  *)
(* pod of the broker and starts another one that runs ForwardPorts; it     *)
(* tells the command by closing done, after putting an error in errChan if *)
(* there was one. The command is gen networkpolicy, which selects on both  *)
(* channels and a deadline, or gen seccomp, which awaits done and leaves   *)
(* errChan to a goroutine. Both are given a complete configuration, so the *)
(* checks PortForward begins with pass.                                    *)
(*                                                                         *)
(* Time passes while the API server, the broker's node or a sleep is       *)
(* waited for; the program's own steps take none.                          *)
(***************************************************************************)
EXTENDS Naturals

CONSTANTS
    ApiTimeout,      \* of the context of the API calls (15 s)
    ReadyTimeout,    \* of the wait for the tunnel (10 s)
    CommandTimeout,  \* of the select of gen networkpolicy (30 s)
    Sleep,           \* before the broker is first asked (3 s)
    HasFallback,     \* the namespace looked in first is not kube-system
    Horizon          \* bound: when the clock stops

ASSUME DeadlinesAssumption ==
    /\ ApiTimeout \in Nat /\ ReadyTimeout \in Nat /\ CommandTimeout \in Nat
    /\ Sleep \in Nat \ {0} /\ Horizon \in Nat
    /\ ApiTimeout + ReadyTimeout < CommandTimeout
ASSUME FallbackAssumption == HasFallback \in BOOLEAN

VARIABLES
    now,       \* since the command started
    command,   \* "networkpolicy" or "seccomp"
    main,      \* where the command is
    since,     \* when it began to sleep
    finder,    \* where the goroutine that finds the pod is
    waitFrom,  \* when it began to wait for the tunnel
    tunnel,    \* ForwardPorts
    errChan,   \* there is an error in errChan (capacity one)
    done,      \* done is closed
    ready,     \* readyChan is closed
    pfErrChan  \* there is an error in pfErrChan (capacity one)

vars == <<now, command, main, since, finder, waitFrom, tunnel,
          errChan, done, ready, pfErrChan>>

Ended == {"failed", "done"}
Calling == {"service", "fallback", "pods"}

Init ==
    /\ now = 0 /\ since = 0 /\ waitFrom = 0
    /\ command \in {"networkpolicy", "seccomp"}
    /\ main = "start" /\ finder = "off" /\ tunnel = "off"
    /\ errChan = FALSE /\ done = FALSE /\ ready = FALSE /\ pfErrChan = FALSE

Running == main \notin Ended

(* Mutant: nothing limits the wait for readyChan.                          *)
WaitIsNeverLate == FALSE

(* Deadlines that have passed, and an error somebody awaits. *)
ApiIsLate == now >= ApiTimeout
WaitIsLate == now >= waitFrom + ReadyTimeout
FatalPending == command = "seccomp" /\ main \in {"list", "sleep", "fetch"} /\ errChan

-------------------------------------------------------------------------------
(* The command.                                                            *)

(* PortForward returns at once, its goroutine started. *)
Call ==
    /\ main = "start"
    /\ main' = "arriving" /\ finder' = "service"
    /\ UNCHANGED <<now, command, since, waitFrom, tunnel, errChan, done, ready, pfErrChan>>

(* The command arrives at its receive; a select takes any channel that is  *)
(* ready.                                                                  *)
Receive ==
    /\ main = "arriving"
    /\ \/ done /\ main' = "list" /\ UNCHANGED errChan
       \/ command = "networkpolicy" /\ errChan /\ main' = "failed" /\ errChan' = FALSE
       \/ ~done /\ ~(command = "networkpolicy" /\ errChan) /\ main' = "blocked"
          /\ UNCHANGED errChan
    /\ UNCHANGED <<now, command, since, finder, waitFrom, tunnel, done, ready, pfErrChan>>

(* The deadline of the select of gen networkpolicy. No step takes it, for  *)
(* it never comes to that: DeadlinesNest.                                  *)
SelectTimesOut == main = "blocked" /\ command = "networkpolicy" /\ now >= CommandTimeout

(* The goroutine gen seccomp starts after done: an error is fatal. *)
ErrorIsFatal ==
    /\ FatalPending
    /\ main' = "failed" /\ errChan' = FALSE
    /\ UNCHANGED <<now, command, since, finder, waitFrom, tunnel, done, ready, pfErrChan>>

(* The pods are listed, or there is none. *)
Listed ==
    /\ main = "list"
    /\ \/ main' = "sleep" /\ since' = now
       \/ main' = "done" /\ UNCHANGED since
    /\ UNCHANGED <<now, command, finder, waitFrom, tunnel, errChan, done, ready, pfErrChan>>

(* Mutant: the broker is asked at once.                                    *)
WakeAtOnce ==
    /\ main = "sleep"
    /\ main' = "fetch"
    /\ UNCHANGED <<now, command, since, finder, waitFrom, tunnel,
                   errChan, done, ready, pfErrChan>>

(* GetPodTraffic and GetPodSysCall sleep, then ask the broker. *)
Wake ==
    /\ main = "sleep" /\ now >= since + Sleep
    /\ main' = "fetch"
    /\ UNCHANGED <<now, command, since, finder, waitFrom, tunnel,
                   errChan, done, ready, pfErrChan>>

(* The command has its answer, writes its files and closes stopChan. *)
Finish ==
    /\ main = "fetch"
    /\ main' = "done"
    /\ tunnel' = IF tunnel = "off" THEN "off" ELSE "stopped"
    /\ UNCHANGED <<now, command, since, finder, waitFrom,
                   errChan, done, ready, pfErrChan>>

-------------------------------------------------------------------------------
(* The goroutine that finds the pod.                                       *)

Goes(to) ==
    /\ Running
    /\ finder' = to
    /\ UNCHANGED <<now, command, main, since>>

(* The service is there, with selectors or without. *)
ServiceFound ==
    /\ finder \in {"service", "fallback"} /\ ~ApiIsLate
    /\ Goes("pods") \/ Goes("send")
    /\ UNCHANGED <<waitFrom, tunnel, errChan, done, ready, pfErrChan>>

(* Mutant: the error of the first lookup is sent as well.                  *)
ApiFailsTwice ==
    /\ finder \in Calling
    /\ IF finder = "service" /\ HasFallback
       THEN Goes("fallback") /\ errChan' = TRUE
       ELSE Goes("send") /\ UNCHANGED errChan
    /\ UNCHANGED <<waitFrom, tunnel, done, ready, pfErrChan>>

(* A call fails, when the context's deadline has passed at the latest.     *)
ApiFails ==
    /\ finder \in Calling
    /\ IF finder = "service" /\ HasFallback THEN Goes("fallback") ELSE Goes("send")
    /\ UNCHANGED <<waitFrom, tunnel, errChan, done, ready, pfErrChan>>

(* Mutant: a deadline is kept where the start of the wait belongs.         *)
PodsListedDeadline ==
    /\ finder = "pods" /\ ~ApiIsLate
    /\ \/ Goes("wait") /\ waitFrom' = now + ReadyTimeout /\ tunnel' = "dialing"
       \/ Goes("send") /\ UNCHANGED <<waitFrom, tunnel>>
    /\ UNCHANGED <<errChan, done, ready, pfErrChan>>

(* There is a ready pod and a forwarder for it, or not. *)
PodsListed ==
    /\ finder = "pods" /\ ~ApiIsLate
    /\ \/ Goes("wait") /\ waitFrom' = now /\ tunnel' = "dialing"
       \/ Goes("send") /\ UNCHANGED <<waitFrom, tunnel>>
    /\ UNCHANGED <<errChan, done, ready, pfErrChan>>

WaitReady ==
    /\ finder = "wait" /\ ready
    /\ Goes("close")
    /\ UNCHANGED <<waitFrom, tunnel, errChan, done, ready, pfErrChan>>

WaitFails ==
    /\ finder = "wait" /\ pfErrChan
    /\ Goes("send")
    /\ pfErrChan' = FALSE
    /\ UNCHANGED <<waitFrom, tunnel, errChan, done, ready>>

(* Mutant: the timeout closes done and sends no error.                     *)
WaitTimeoutSilent ==
    /\ finder = "wait" /\ WaitIsLate
    /\ Goes("close")
    /\ UNCHANGED <<waitFrom, tunnel, errChan, done, ready, pfErrChan>>

WaitTimeout ==
    /\ finder = "wait" /\ WaitIsLate
    /\ Goes("send")
    /\ UNCHANGED <<waitFrom, tunnel, errChan, done, ready, pfErrChan>>

(* Mutant: done stays open after an error.                                 *)
SendErrorOnly ==
    /\ finder = "send" /\ Running
    /\ finder' = "ended"
    /\ IF main = "blocked" /\ command = "networkpolicy"
       THEN main' = "failed" /\ UNCHANGED errChan
       ELSE ~errChan /\ errChan' = TRUE /\ UNCHANGED main
    /\ UNCHANGED <<now, command, since, waitFrom, tunnel, done, ready, pfErrChan>>

(* An error goes to the command that is blocked in its select, or into the *)
(* buffer once there is room.                                              *)
SendError ==
    /\ finder = "send" /\ Running
    /\ finder' = "close"
    /\ IF main = "blocked" /\ command = "networkpolicy"
       THEN main' = "failed" /\ UNCHANGED errChan
       ELSE ~errChan /\ errChan' = TRUE /\ UNCHANGED main
    /\ UNCHANGED <<now, command, since, waitFrom, tunnel, done, ready, pfErrChan>>

(* A command blocked on done goes on. *)
CloseDone ==
    /\ finder = "close" /\ Running
    /\ finder' = "ended" /\ done' = TRUE
    /\ main' = IF main = "blocked" THEN "list" ELSE main
    /\ UNCHANGED <<now, command, since, waitFrom, tunnel, errChan, ready, pfErrChan>>

-------------------------------------------------------------------------------
(* ForwardPorts, a library: it closes readyChan once it listens, and       *)
(* returns an error when it cannot or when the connection is lost.         *)

TunnelUp ==
    /\ Running /\ tunnel = "dialing"
    /\ tunnel' = "up" /\ ready' = TRUE
    /\ UNCHANGED <<now, command, main, since, finder, waitFrom, errChan, done, pfErrChan>>

TunnelFails ==
    /\ Running /\ tunnel \in {"dialing", "up"}
    /\ tunnel' = "failed" /\ pfErrChan' = TRUE
    /\ UNCHANGED <<now, command, main, since, finder, waitFrom, errChan, done, ready>>

-------------------------------------------------------------------------------
(* What the program does at once, so that no time passes before it. *)
Due ==
    \/ main \in {"start", "arriving"}
    \/ FatalPending
    \/ main = "sleep" /\ now >= since + Sleep
    \/ finder \in Calling /\ ApiIsLate
    \/ finder = "wait" /\ (ready \/ pfErrChan \/ WaitIsLate)
    \/ finder \in {"send", "close"}

Tick ==
    /\ Running /\ ~Due /\ now < Horizon
    /\ now' = now + 1
    /\ UNCHANGED <<command, main, since, finder, waitFrom, tunnel,
                   errChan, done, ready, pfErrChan>>

MainStep ==
    \/ Call \/ Receive
    \/ ErrorIsFatal \/ Listed \/ Wake \/ Finish
FinderStep ==
    \/ ServiceFound \/ ApiFails \/ PodsListed
    \/ WaitReady \/ WaitFails \/ WaitTimeout \/ SendError \/ CloseDone

Next == MainStep \/ FinderStep \/ TunnelUp \/ TunnelFails \/ Tick

Spec == Init /\ [][Next]_vars

(* The goroutines are scheduled and time passes; the tunnel need not come  *)
(* up, nor the broker answer.                                              *)
Fairness ==
    /\ WF_vars(Call \/ Receive)
    /\ WF_vars(FinderStep) /\ WF_vars(Tick)

FairSpec == Spec /\ Fairness

-------------------------------------------------------------------------------
(* Properties.                                                             *)

TypeOK ==
    /\ now \in Nat /\ since \in 0 .. now /\ waitFrom \in 0 .. now
    /\ command \in {"networkpolicy", "seccomp"}
    /\ main \in {"start", "arriving", "blocked", "list", "sleep", "fetch"} \cup Ended
    /\ finder \in {"off", "wait", "send", "close", "ended"} \cup Calling
    /\ tunnel \in {"off", "dialing", "up", "failed", "stopped"}
    /\ errChan \in BOOLEAN /\ done \in BOOLEAN /\ ready \in BOOLEAN /\ pfErrChan \in BOOLEAN

(* The deadlines nest: the forwarder reports an error of its own before    *)
(* gen networkpolicy gives up on it (15 s and 10 s against 30 s), so the   *)
(* user is told what went wrong.                                           *)
DeadlinesNest == ~SelectTimesOut

(* The forwarder sends one error at most and closes done after it: a       *)
(* second one would block it, for nobody receives twice.                   *)
SendsOnce ==
    /\ finder \in {"send"} \cup Calling => ~errChan /\ ~done
    /\ finder = "close" => ~done

(* gen seccomp, which is woken by an error as by success, still asks the   *)
(* broker only when the tunnel came up: the error in errChan ends it while *)
(* it sleeps.                                                              *)
SeccompHasTunnel == command = "seccomp" /\ main = "fetch" => ready

(* gen networkpolicy, once it is blocked in its select, goes on only with  *)
(* a tunnel that came up: an error reaches it before the close that        *)
(* follows the error.                                                      *)
BlockedGoesOnWithTunnel ==
    [][command = "networkpolicy" /\ main = "blocked" /\ main' = "list" => ready']_vars

(* Each command comes out of the wait for the forwarder, whatever the API  *)
(* server and the broker's node do.                                        *)
WaitEnds == main = "blocked" ~> main # "blocked"

(* What seccomp.go says of its receive: "Block until port-forwarding is    *)
(* set up", and after it "Port forwarding set up successfully".            *)
SeccompGoesOnWhenSetUp == command = "seccomp" /\ main = "list" => ready
===============================================================================

------------------------------ MODULE Daemons -------------------------------
(***************************************************************************)
(* Daemons of one role that start, drain and exit on one host: the metrics *)
(* port and the admin socket around a daemon's Run (internal/cli/run.go;   *)
(* internal/metrics/probe.go and server.go; AdminSocket).                  *)
(*                                                                         *)
(* A daemon that finds the metrics port held by a draining predecessor     *)
(* starts, and claims the port once it is free.  Metrics and admin socket  *)
(* stay up until Run has returned.  A daemon that answers a probe does so  *)
(* within probeTimeout, and its listener does not fail under it.           *)
(***************************************************************************)
EXTENDS AdminSocket

Foreign == "foreign"    \* another program

VARIABLES
    proc,           \* each daemon's process
    met,            \* its metrics goroutine
    draining,       \* it was signalled, and its metrics say so
    cancelled,      \* the context of its Run has ended
    port            \* who holds the metrics port, or None

daemonVars == <<proc, met, draining, cancelled, port>>
allVars == <<vars, daemonVars>>

DaemonsInit ==
    /\ Init
    /\ proc = [d \in Daemon |-> "off"]
    /\ met = [d \in Daemon |-> "off"]
    /\ draining = [d \in Daemon |-> FALSE]
    /\ cancelled = [d \in Daemon |-> FALSE]
    /\ port \in {None, Foreign}

Put(f, d, v) == [f EXCEPT ![d] = v]

(* serveDaemon's stop has been called: lifetime is over. *)
Over(d) == proc[d] # "run"

-----------------------------------------------------------------------------
(* runDaemon. *)

(* The first net.Listen. *)
Launch(d) ==
    /\ proc[d] = "off"
    /\ IF port = None
       THEN port' = d /\ met' = Put(met, d, "serve") /\ proc' = Put(proc, d, "run")
       ELSE proc' = Put(proc, d, "probe") /\ UNCHANGED <<port, met>>
    /\ UNCHANGED <<vars, draining, cancelled>>

(* drainingPredecessor: only a daemon that still serves its metrics        *)
(* answers the probe.  The end of the prober's context cuts it short.      *)
DrainingPredecessor == port \in Daemon /\ draining[port]

Probed(d) ==
    /\ proc[d] = "probe"
    /\ \/ DrainingPredecessor /\ proc' = Put(proc, d, "run") /\ met' = Put(met, d, "wait")
       \/ /\ ~DrainingPredecessor \/ cancelled[d]
          /\ proc' = Put(proc, d, "failed")
          /\ UNCHANGED met
    /\ UNCHANGED <<vars, draining, cancelled, port>>

(* SIGTERM: the state is draining ... *)
SetDraining(d) ==
    /\ proc[d] \in {"probe", "run"}
    /\ ~draining[d]
    /\ draining' = Put(draining, d, TRUE)
    /\ UNCHANGED <<vars, proc, met, cancelled, port>>

(* ... before the context ends. *)
Cancel(d) ==
    /\ draining[d] /\ ~cancelled[d]
    /\ cancelled' = Put(cancelled, d, TRUE)
    /\ UNCHANGED <<vars, proc, met, draining, port>>

(* Run drains and returns; or it fails, also before its context ends. *)
RunReturns(d) ==
    /\ proc[d] = "run"
    /\ proc' = Put(proc, d, "stopping")
    /\ UNCHANGED <<vars, met, draining, cancelled, port>>

(* The process is gone, and its state with it. *)
Forget(d) == draining' = Put(draining, d, FALSE) /\ cancelled' = Put(cancelled, d, FALSE)

(* wg.Wait: both side servers have stopped. *)
Exit(d) ==
    /\ proc[d] = "stopping"
    /\ met[d] \in {"gaveup", "done"}
    /\ pc[d] = "gone"
    /\ proc' = Put(proc, d, "exited")
    /\ met' = Put(met, d, "done")
    /\ Forget(d)
    /\ UNCHANGED <<vars, port>>

-----------------------------------------------------------------------------
(* metricsBinding.await. *)

Claim(d, otherwise) ==
    IF port = None
    THEN port' = d /\ met' = Put(met, d, "serve")
    ELSE met' = Put(met, d, otherwise) /\ UNCHANGED port

(* The ticker: listen. *)
Tick(d) ==
    /\ met[d] = "wait"
    /\ Claim(d, "probe")
    /\ UNCHANGED <<vars, proc, draining, cancelled>>

AwaitEnds(d) ==
    /\ met[d] = "wait"
    /\ Over(d)
    /\ met' = Put(met, d, "done")
    /\ UNCHANGED <<vars, proc, draining, cancelled, port>>

(* Mutant: a probe that finds nobody ends the wait. *)
ProbedAgainOnce(d) ==
    /\ met[d] = "probe"
    /\ met' = Put(met, d, IF DrainingPredecessor THEN "wait" ELSE "gaveup")
    /\ UNCHANGED <<vars, proc, draining, cancelled, port>>

ProbedAgain(d) ==
    /\ met[d] = "probe"
    /\ \/ DrainingPredecessor /\ met' = Put(met, d, "wait")
       \/ (~DrainingPredecessor \/ Over(d)) /\ met' = Put(met, d, "last")
    /\ UNCHANGED <<vars, proc, draining, cancelled, port>>

(* Once more before giving up. *)
LastListen(d) ==
    /\ met[d] = "last"
    /\ Claim(d, IF Over(d) THEN "done" ELSE "gaveup")
    /\ UNCHANGED <<vars, proc, draining, cancelled>>

(* Mutant: the endpoint ends with the context of Run. *)
MetricsStopsEarly(d) ==
    /\ met[d] = "serve"
    /\ cancelled[d] \/ Over(d)
    /\ met' = Put(met, d, "done")
    /\ port' = None
    /\ UNCHANGED <<vars, proc, draining, cancelled>>

(* metrics.Serve ends with lifetime, which frees the port. *)
MetricsStops(d) ==
    /\ met[d] = "serve"
    /\ Over(d)
    /\ met' = Put(met, d, "done")
    /\ port' = None
    /\ UNCHANGED <<vars, proc, draining, cancelled>>

(* Another program takes the port, or leaves it. *)
ForeignStep ==
    /\ port \in {None, Foreign}
    /\ port' \in {None, Foreign} \ {port}
    /\ UNCHANGED <<vars, proc, met, draining, cancelled>>

-----------------------------------------------------------------------------
(* The admin server runs between the start of serveDaemon and its end. *)

Serve(d) == proc[d] \in {"run", "stopping"} /\ Start(d)

SocketStep(d) == Serve(d) \/ DaemonStep(d) \/ (Over(d) /\ CloseListener(d))

(* An accept fails: this daemon's socket is gone, whatever Run does. *)
SocketFails(d) == proc[d] = "run" /\ CloseListener(d)

Kill(d) ==
    /\ proc[d] \in {"probe", "run", "stopping"}
    /\ proc' = Put(proc, d, "exited")
    /\ met' = Put(met, d, "done")
    /\ port' = IF port = d THEN None ELSE port
    /\ IF pc[d] \in {"off", "gone"} THEN UNCHANGED vars ELSE Killed(d)
    /\ Forget(d)

ProcessStep(d) == Probed(d) \/ Cancel(d) \/ (cancelled[d] /\ RunReturns(d)) \/ Exit(d)

MetricsStep(d) ==
    Tick(d) \/ AwaitEnds(d) \/ ProbedAgain(d) \/ LastListen(d) \/ MetricsStops(d)

AdminStep(d) == SocketStep(d) /\ UNCHANGED daemonVars

DaemonsNext ==
    \/ ForeignStep
    \/ \E d \in Daemon :
        \/ Launch(d) \/ SetDraining(d) \/ ProcessStep(d) \/ RunReturns(d) \/ Kill(d)
        \/ MetricsStep(d)
        \/ AdminStep(d) \/ (SocketFails(d) /\ UNCHANGED daemonVars)

DaemonsSpec == DaemonsInit /\ [][DaemonsNext]_allVars

(* Goroutines run on, and Run returns once its context has ended (it       *)
(* drains within its timeout).  Whoever holds the lock, lockWait ends.     *)
DaemonsFairSpec ==
    DaemonsSpec /\ \A d \in Daemon :
        WF_allVars(ProcessStep(d)) /\ WF_allVars(MetricsStep(d)) /\ WF_allVars(AdminStep(d))

-----------------------------------------------------------------------------

(* The type of the state; the port is held by the daemon that serves it. *)
DaemonsTypeOK ==
    /\ proc \in [Daemon -> {"off", "probe", "run", "failed", "stopping", "exited"}]
    /\ met \in [Daemon -> {"off", "serve", "wait", "probe", "last", "gaveup", "done"}]
    /\ draining \in [Daemon -> BOOLEAN]
    /\ cancelled \in [Daemon -> BOOLEAN]
    /\ port \in Daemon \cup {None, Foreign}
    /\ \A d \in Daemon : met[d] = "serve" <=> port = d

(* A drain can be watched from outside.  A daemon whose Run has begun to   *)
(* close its listeners tells a successor that finds the metrics port taken *)
(* that it is draining, and the metrics outlive the context: they are      *)
(* served until Run has drained and returned.                              *)
DrainIsVisible ==
    [][/\ DaemonsTypeOK'
       /\ \A d \in Daemon :
            /\ port' = d /\ cancelled'[d] => draining'[d]
            /\ met[d] = "serve" /\ met'[d] # "serve" => Over(d) \/ proc'[d] = "exited"]_allVars

(* A daemon that waits for its predecessor's port gets it, unless it stops *)
(* itself or another program or a live daemon comes first.                 *)
WaiterGetsPort ==
    \A d \in Daemon :
        met[d] = "wait" ~> \/ port = d \/ Over(d)
                           \/ port = Foreign
                           \/ port \in Daemon /\ ~draining[port]

(* A daemon that was signalled exits: neither side server nor the lock     *)
(* holds it up.                                                            *)
SignalledExits == \A d \in Daemon : cancelled[d] ~> proc[d] \in {"exited", "failed"}

(* Two daemons never leave one another waiting: the port is handed on, and *)
(* whoever is told to stop exits.                                          *)
NobodyWaitsForever == WaiterGetsPort /\ SignalledExits
=============================================================================

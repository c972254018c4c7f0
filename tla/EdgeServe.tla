------------------------------ MODULE EdgeServe ------------------------------
(***************************************************************************)
(* The edge's ingress from start to shutdown (internal/edge/edge.go:       *)
(* ServeWithHTTP3, acceptLoop, acceptIngress, handleIngress, takeAgent;    *)
(* http3.go: cappedListener, connActivity, serveHTTP3Until).               *)
(*                                                                         *)
(* TCP connections and QUIC connections share the global cap.  When the    *)
(* context ends the listeners close, the TCP handlers and the HTTP/3       *)
(* server drain in parallel within the budget, and only then the agents'   *)
(* sessions are closed.                                                    *)
(*                                                                         *)
(* What runs under connActivity.mu is one step, and so is each access to   *)
(* the semaphore and to the draining flag.  The http3 server and the QUIC  *)
(* transport are external: a connection handed to a server that has        *)
(* stopped is dropped, and closes only with the transport.                 *)
(***************************************************************************)
EXTENDS Integers, FiniteSets

CONSTANTS
    Tcp,            \* TCP connections
    OffHTTP3,       \* those of them for a host kept off HTTP/3
    Quic,           \* QUIC connections
    Cap,            \* ingress.max_connections
    MaxActive       \* requests a QUIC connection has in progress at once

ASSUME EdgeServeAssumption ==
    /\ IsFiniteSet(Tcp) /\ IsFiniteSet(Quic)
    /\ OffHTTP3 \subseteq Tcp
    /\ Cap \in Nat \ {0}
    /\ MaxActive \in Nat \ {0}

VARIABLES
    main,           \* where ServeWithHTTP3 is
    cur,            \* the connection its accept loop holds
    ctx,            \* the context has ended
    listening,      \* the listeners are open
    spent,          \* the drain budget is
    sessions,       \* the agents' sessions are open
    sem,            \* slots of the global cap in use
    tcp,            \* where each TCP connection's handler is
    adv             \* the Alt-Svc each TCP connection's response carries

VARIABLES           \* of HTTP/3
    h3,             \* serveHTTP3Until
    serving,        \* srv.ServeListener has not returned
    altSvc,         \* Edge.altSvc is set
    draining,       \* cappedListener.draining
    quic,           \* how far each QUIC connection has come
    up,             \* the QUIC connections that are open
    active,         \* connActivity.active
    armed,          \* connections whose idle timer runs
    firing          \* connections whose timer's callback awaits the lock

activity == <<active, armed, firing>>
tcpVars == <<tcp, adv>>
mainVars == <<main, cur, spent, sessions>>
env == <<ctx, listening>>
server == <<h3, serving, altSvc, draining>>
vars == <<mainVars, env, sem, tcpVars, server, quic, up, activity>>

Handlers == { c \in Tcp : tcp[c] \in {"new", "full", "shake", "head", "pipe"} }
TcpSlots == { c \in Tcp : tcp[c] \in {"shake", "head", "pipe"} }
QuicSlots == { q \in Quic : quic[q] \in {"held", "served"} }
Served == { q \in Quic : quic[q] = "served" }
H3Enabled == h3 # "off"
H3Done == h3 \in {"off", "failed", "done"}

Init ==
    /\ main = "start"
    /\ cur = {}
    /\ ctx = FALSE
    /\ listening = TRUE
    /\ spent = FALSE
    /\ sessions = TRUE
    /\ sem = 0
    /\ tcp = [c \in Tcp |-> "none"]
    /\ adv = [c \in Tcp |-> "none"]
    /\ h3 \in {"off", "new"}
    /\ serving = FALSE
    /\ altSvc = FALSE
    /\ draining = FALSE
    /\ quic = [q \in Quic |-> "none"]
    /\ up = {}
    /\ active = [q \in Quic |-> 0]
    /\ armed = {}
    /\ firing = {}

-----------------------------------------------------------------------------
(* ServeWithHTTP3. *)

(* HTTP/3 is advertised once it is served. *)
Start ==
    /\ main = "start"
    /\ main' = "accept"
    /\ h3' = IF H3Enabled THEN "serving" ELSE h3
    /\ serving' = H3Enabled
    /\ altSvc' = H3Enabled
    /\ UNCHANGED <<cur, spent, sessions, env, sem, tcpVars, draining, quic, up, activity>>

(* startHTTP3 fails. *)
StartFails ==
    /\ main = "start"
    /\ H3Enabled
    /\ main' = "failed"
    /\ listening' = FALSE
    /\ UNCHANGED <<cur, spent, sessions, ctx, sem, tcpVars, server, quic, up, activity>>

Cancel ==
    /\ ~ctx
    /\ ctx' = TRUE
    /\ UNCHANGED <<mainVars, listening, sem, tcpVars, server, quic, up, activity>>

(* The goroutine that waits for the context. *)
CloseListeners ==
    /\ main \notin {"start", "failed"}
    /\ ctx /\ listening
    /\ listening' = FALSE
    /\ UNCHANGED <<mainVars, ctx, sem, tcpVars, server, quic, up, activity>>

(* acceptLoop, at Accept. *)
Accept(c) ==
    /\ main = "accept"
    /\ listening
    /\ tcp[c] = "none"
    /\ cur' = {c}
    /\ main' = "handle"
    /\ UNCHANGED <<spent, sessions, env, sem, tcpVars, server, quic, up, activity>>

(* The condition of acceptLoop: a context that has ended ends it. *)
Loop == main' = IF ctx THEN "drain" ELSE "accept"

(* Accept fails once the listener is closed, and now and then before. *)
AcceptError ==
    /\ main = "accept"
    /\ main' = IF ctx THEN "drain" ELSE "pause"
    /\ UNCHANGED <<cur, spent, sessions, env, sem, tcpVars, server, quic, up, activity>>

(* acceptRetryDelay has passed, or the context has ended. *)
Pause ==
    /\ main = "pause"
    /\ Loop
    /\ UNCHANGED <<cur, spent, sessions, env, sem, tcpVars, server, quic, up, activity>>

(* acceptIngress counts the handler before it starts it. *)
Handle ==
    /\ main = "handle"
    /\ tcp' = [c \in Tcp |-> IF c \in cur THEN "new" ELSE tcp[c]]
    /\ cur' = {}
    /\ Loop
    /\ UNCHANGED <<spent, sessions, env, sem, adv, server, quic, up, activity>>

BudgetEnds ==
    /\ main \in {"drain", "await"}
    /\ ~spent
    /\ spent' = TRUE
    /\ UNCHANGED <<main, cur, sessions, env, sem, tcpVars, server, quic, up, activity>>

(* obs.DrainWait. *)
DrainEnds ==
    /\ main = "drain"
    /\ Handlers = {} \/ spent
    /\ main' = "await"
    /\ UNCHANGED <<cur, spent, sessions, env, sem, tcpVars, server, quic, up, activity>>

(* Mutant: the sessions close as soon as the TCP handlers are done. *)
CloseAllAtOnce ==
    /\ main = "await"
    /\ sessions' = FALSE
    /\ main' = "join"
    /\ UNCHANGED <<cur, spent, env, sem, tcpVars, server, quic, up, activity>>

(* registry.closeAll, once HTTP/3 has stopped or the budget is spent. *)
CloseAll ==
    /\ main = "await"
    /\ H3Done \/ spent
    /\ sessions' = FALSE
    /\ main' = "join"
    /\ UNCHANGED <<cur, spent, env, sem, tcpVars, server, quic, up, activity>>

Return ==
    /\ main = "join"
    /\ H3Done
    /\ main' = "returned"
    /\ UNCHANGED <<cur, spent, sessions, env, sem, tcpVars, server, quic, up, activity>>

-----------------------------------------------------------------------------
(* handleIngress. *)

TakeSlot(c) ==
    /\ tcp[c] = "new"
    /\ IF sem < Cap
       THEN sem' = sem + 1 /\ tcp' = [tcp EXCEPT ![c] = "shake"]
       ELSE tcp' = [tcp EXCEPT ![c] = "full"] /\ UNCHANGED sem
    /\ UNCHANGED <<mainVars, env, adv, server, quic, up, activity>>

(* Without a slot: an agent on the shared port is served all the same, a   *)
(* client is answered 503.                                                 *)
Full(c) ==
    /\ tcp[c] = "full"
    /\ \E to \in {"agent", "done"} : tcp' = [tcp EXCEPT ![c] = to]
    /\ UNCHANGED <<mainVars, env, sem, adv, server, quic, up, activity>>

(* Mutant: an agent keeps the slot. *)
AgentKeepsSlot(c) ==
    /\ tcp[c] = "shake"
    /\ tcp' = [tcp EXCEPT ![c] = "agent"]
    /\ UNCHANGED <<mainVars, env, sem, adv, server, quic, up, activity>>

(* takeAgent: the handshake shows an agent, which holds no ingress slot. *)
TakeAgent(c) ==
    /\ tcp[c] = "shake"
    /\ tcp' = [tcp EXCEPT ![c] = "agent"]
    /\ sem' = sem - 1
    /\ UNCHANGED <<mainVars, env, adv, server, quic, up, activity>>

(* ... or a client, whose head is read next. *)
Client(c) ==
    /\ tcp[c] = "shake"
    /\ tcp' = [tcp EXCEPT ![c] = "head"]
    /\ UNCHANGED <<mainVars, env, sem, adv, server, quic, up, activity>>

(* No request, a malformed one, no route, no slot of the route, or no      *)
(* agent that takes it (see Dispatch).                                     *)
Refuse(c) ==
    /\ tcp[c] = "head"
    /\ tcp' = [tcp EXCEPT ![c] = "done"]
    /\ sem' = sem - 1
    /\ UNCHANGED <<mainVars, env, adv, server, quic, up, activity>>

(* altSvcFor. *)
AltSvcFor(c) ==
    IF c \in OffHTTP3 /\ H3Enabled THEN "clear" ELSE IF altSvc THEN "h3" ELSE "none"

(* A stream is open on an agent's session, and the two are piped. *)
Pipe(c) ==
    /\ tcp[c] = "head"
    /\ sessions
    /\ tcp' = [tcp EXCEPT ![c] = "pipe"]
    /\ adv' = [adv EXCEPT ![c] = AltSvcFor(c)]
    /\ UNCHANGED <<mainVars, env, sem, server, quic, up, activity>>

(* One of them ends. *)
PipeEnds(c) ==
    /\ tcp[c] = "pipe"
    /\ tcp' = [tcp EXCEPT ![c] = "done"]
    /\ sem' = sem - 1
    /\ UNCHANGED <<mainVars, env, adv, server, quic, up, activity>>

-----------------------------------------------------------------------------
(* serveHTTP3Until. *)

(* ServeListener fails, on its own. *)
ServeFails ==
    /\ h3 = "serving"
    /\ serving
    /\ serving' = FALSE
    /\ UNCHANGED <<mainVars, env, sem, tcpVars, h3, altSvc, draining, quic, up, activity>>

(* The deferred closes: the listener, and with the transport every         *)
(* connection.                                                             *)
CloseTransport == up' = {}

(* Mutant: the advertisement stays. *)
H3FailsQuietly ==
    /\ h3 = "serving"
    /\ ~serving
    /\ h3' = "failed"
    /\ CloseTransport
    /\ UNCHANGED <<mainVars, env, sem, tcpVars, serving, altSvc, draining, quic, activity>>

H3Fails ==
    /\ h3 = "serving"
    /\ ~serving
    /\ h3' = "failed"
    /\ altSvc' = FALSE
    /\ CloseTransport
    /\ UNCHANGED <<mainVars, env, sem, tcpVars, serving, draining, quic, activity>>

H3Drain ==
    /\ h3 = "serving"
    /\ ctx
    /\ h3' = "draining"
    /\ draining' = TRUE
    /\ UNCHANGED <<mainVars, env, sem, tcpVars, serving, altSvc, quic, up, activity>>

(* srv.Shutdown begins: the server accepts no more. *)
H3Shutdown ==
    /\ h3 = "draining"
    /\ h3' = "shutdown"
    /\ serving' = FALSE
    /\ UNCHANGED <<mainVars, env, sem, tcpVars, altSvc, draining, quic, up, activity>>

(* Meanwhile the server closes the connections it serves as they become    *)
(* idle.                                                                   *)
GoAway(q) ==
    /\ h3 = "shutdown"
    /\ q \in Served \cap up
    /\ active[q] = 0
    /\ up' = up \ {q}
    /\ UNCHANGED <<mainVars, env, sem, tcpVars, server, quic, activity>>

(* srv.Close, and the deferred closes. *)
H3Stop ==
    /\ h3' = "done"
    /\ CloseTransport
    /\ UNCHANGED <<mainVars, env, sem, tcpVars, serving, altSvc, draining, quic, activity>>

H3Drained ==
    /\ h3 = "shutdown"
    /\ Served \cap up = {}
    /\ H3Stop

(* Mutant: Shutdown waits without a limit. *)
H3WaitsOn ==
    /\ h3 = "shutdown"
    /\ \A q \in Served \cap up : active[q] = 0
    /\ H3Stop

(* The time Shutdown is given is over. *)
H3TimesOut ==
    /\ h3 = "shutdown"
    /\ H3Stop

-----------------------------------------------------------------------------
(* A QUIC connection. *)

(* Its handshake ends; one for a host kept off HTTP/3 does not get here.   *)
Connect(q) ==
    /\ h3 \in {"serving", "draining", "shutdown"}
    /\ quic[q] = "none"
    /\ quic' = [quic EXCEPT ![q] = "offered"]
    /\ up' = up \cup {q}
    /\ UNCHANGED <<mainVars, env, sem, tcpVars, server, activity>>

(* The client leaves, or the network fails. *)
Lost(q) ==
    /\ q \in up
    /\ up' = up \ {q}
    /\ UNCHANGED <<mainVars, env, sem, tcpVars, server, quic, activity>>

(* cappedListener.Accept, called by the server and, once it drains, by a   *)
(* goroutine that turns connections away.                                  *)
AcceptQuic(q) ==
    /\ quic[q] = "offered"
    /\ serving \/ draining
    /\ ~H3Done
    /\ IF draining
       THEN quic' = [quic EXCEPT ![q] = "gone"] /\ up' = up \ {q}
       ELSE quic' = [quic EXCEPT ![q] = "checked"] /\ UNCHANGED up
    /\ UNCHANGED <<mainVars, env, sem, tcpVars, server, activity>>

AcquireQuic(q) ==
    /\ quic[q] = "checked"
    /\ IF sem < Cap
       THEN sem' = sem + 1 /\ quic' = [quic EXCEPT ![q] = "held"] /\ UNCHANGED up
       ELSE quic' = [quic EXCEPT ![q] = "gone"] /\ up' = up \ {q} /\ UNCHANGED sem
    /\ UNCHANGED <<mainVars, env, tcpVars, server, activity>>

(* The server takes it on, with a connActivity. *)
ServeConn(q) ==
    /\ quic[q] = "held"
    /\ serving
    /\ quic' = [quic EXCEPT ![q] = "served"]
    /\ armed' = armed \cup {q}
    /\ UNCHANGED <<mainVars, env, sem, tcpVars, server, up, active, firing>>

(* What context.AfterFunc runs once the connection has closed. *)
AfterClose(q) ==
    /\ q \in QuicSlots \ up
    /\ quic' = [quic EXCEPT ![q] = "gone"]
    /\ sem' = sem - 1
    /\ armed' = armed \ {q}
    /\ UNCHANGED <<mainVars, env, tcpVars, server, up, active, firing>>

(* connActivity.begin; stopping a timer does not stop its callback. *)
RequestBegins(q) ==
    /\ q \in Served \cap up
    /\ active[q] < MaxActive
    /\ active' = [active EXCEPT ![q] = @ + 1]
    /\ armed' = armed \ {q}
    /\ UNCHANGED <<mainVars, env, sem, tcpVars, server, quic, up, firing>>

(* The func begin returned. *)
RequestEnds(q) ==
    /\ active[q] > 0
    /\ active' = [active EXCEPT ![q] = @ - 1]
    /\ armed' = IF active'[q] = 0 /\ q \in up THEN armed \cup {q} ELSE armed
    /\ UNCHANGED <<mainVars, env, sem, tcpVars, server, quic, up, firing>>

TimerFires(q) ==
    /\ q \in armed
    /\ armed' = armed \ {q}
    /\ firing' = firing \cup {q}
    /\ UNCHANGED <<mainVars, env, sem, tcpVars, server, quic, up, active>>

(* The timer's callback, with the lock. *)
CloseIdle(q) ==
    /\ q \in firing
    /\ firing' = firing \ {q}
    /\ up' = IF active[q] = 0 THEN up \ {q} ELSE up
    /\ UNCHANGED <<mainVars, env, sem, tcpVars, server, quic, active, armed>>

-----------------------------------------------------------------------------
MainStep ==
    \/ Start \/ StartFails \/ (\E c \in Tcp : Accept(c)) \/ AcceptError \/ Pause
    \/ Handle \/ DrainEnds \/ CloseAll \/ Return

H3Step == H3Fails \/ H3Drain \/ H3Shutdown \/ H3Drained

Next ==
    \/ MainStep \/ Cancel \/ CloseListeners \/ BudgetEnds
    \/ \E c \in Tcp :
        \/ TakeSlot(c) \/ Full(c) \/ TakeAgent(c) \/ Client(c) \/ Refuse(c)
        \/ Pipe(c) \/ PipeEnds(c)
    \/ H3Step \/ H3TimesOut \/ ServeFails
    \/ \E q \in Quic :
        \/ GoAway(q) \/ Connect(q) \/ Lost(q) \/ AcceptQuic(q) \/ AcquireQuic(q)
        \/ ServeConn(q) \/ AfterClose(q) \/ RequestBegins(q) \/ RequestEnds(q)
        \/ TimerFires(q) \/ CloseIdle(q)

Spec == Init /\ [][Next]_vars

(* The goroutines run on and the timers fire.  Nothing is assumed of the   *)
(* clients, of the handlers that serve them or of the network.             *)
Fairness ==
    /\ WF_vars(Start) /\ WF_vars(Pause) /\ WF_vars(Handle)
    /\ WF_vars(ctx /\ AcceptError) /\ WF_vars(DrainEnds) /\ WF_vars(CloseAll)
    /\ WF_vars(Return) /\ WF_vars(CloseListeners) /\ WF_vars(BudgetEnds)
    /\ WF_vars(H3Step) /\ WF_vars(H3TimesOut)
    /\ \A q \in Quic :
        WF_vars(TimerFires(q)) /\ WF_vars(CloseIdle(q)) /\ WF_vars(AfterClose(q))

FairSpec == Spec /\ Fairness

-----------------------------------------------------------------------------
TypeOK ==
    /\ main \in {"start", "accept", "handle", "pause", "drain", "await", "join",
                 "returned", "failed"}
    /\ cur \subseteq Tcp
    /\ {ctx, listening, spent, sessions, serving, altSvc, draining} \subseteq BOOLEAN
    /\ sem \in 0 .. Cap
    /\ tcp \in [Tcp -> {"none", "new", "full", "shake", "head", "pipe", "agent", "done"}]
    /\ adv \in [Tcp -> {"none", "h3", "clear"}]
    /\ h3 \in {"off", "new", "serving", "failed", "draining", "shutdown", "done"}
    /\ quic \in [Quic -> {"none", "offered", "checked", "held", "served", "gone"}]
    /\ up \subseteq Quic
    /\ active \in [Quic -> 0 .. MaxActive]
    /\ armed \subseteq Quic
    /\ firing \subseteq Quic

(* The global cap counts what is connected: a slot for each TCP handler    *)
(* that serves a client and for each QUIC connection given to the server,  *)
(* and none for an agent on the shared port, whichever way they end.       *)
SlotsExact == TypeOK /\ sem = Cardinality(TcpSlots) + Cardinality(QuicSlots)

(* No request is cut short by the edge itself: shutting down closes the    *)
(* agents' sessions, and with them the requests on them, only once no TCP  *)
(* handler runs and HTTP/3 has stopped, or the drain budget is spent; and  *)
(* the idle timer of a QUIC connection never closes it under a request,    *)
(* also when it fires as the request begins.                               *)
RequestsNotCut ==
    [][/\ sessions /\ ~sessions' => spent \/ (Handlers = {} /\ H3Done)
       /\ \A q \in firing \ firing' : active[q] > 0 => (q \in up => q \in up')]_vars

(* Once HTTP/3 has failed, no response that begins sends a browser to it,  *)
(* and a host kept off HTTP/3 withdraws it whatever HTTP/3 does.           *)
FailedIsNotAdvertised ==
    [][\A c \in Tcp : tcp[c] = "head" /\ tcp'[c] = "pipe" =>
        /\ h3 = "failed" => adv'[c] # "h3"
        /\ c \in OffHTTP3 => adv'[c] = (IF h3 = "off" THEN "none" ELSE "clear")]_vars

(* A shutdown always ends, whatever clients and handlers do; and unless    *)
(* the edge failed, it ends with no QUIC connection left open, not even    *)
(* one handed to the server as it stopped, and with no session.            *)
ShutdownReturns ==
    ctx /\ main # "start" ~> main = "failed" \/ (main = "returned" /\ up = {} /\ ~sessions)

(* A QUIC connection without a request in progress does not hold its slot  *)
(* of the global cap for ever.                                             *)
IdleSlotReturns ==
    \A q \in Quic : quic[q] = "served" /\ active[q] = 0 ~> quic[q] = "gone" \/ active[q] > 0

(* What the edge has open comes to an end: all of it when it shuts down,   *)
(* and an idle connection at any time.                                     *)
ServeEnds == ShutdownReturns /\ IdleSlotReturns
=============================================================================

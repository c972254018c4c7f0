---------------------------- MODULE DrainHandoff ----------------------------
(***************************************************************************)
(* The graceful handoff of a version 2 agent: the edge's side of a session *)
(* (StreamOpen, and the accept byte of tryAgent) composed with the agent   *)
(* that shuts down: shutdownSession, serveStream, handleStream             *)
(* (internal/agent/agent.go) and the drain handshake (internal/tunnel).    *)
(*                                                                         *)
(* Time is abstract: a timer that runs may fire at any moment.  The drain  *)
(* budget is one of three classes, as shutdownSession distinguishes them.  *)
(***************************************************************************)
EXTENDS StreamOpen

CONSTANTS Budgets   \* the classes of drain_timeout

ASSUME HandoffAssumption == Budgets \subseteq {"none", "short", "long"}

VARIABLES
    budget,      \* drain_timeout: <= 0, < minHandoff, or longer
    up,          \* the session is open
    delivered,   \* how many frames of wire have reached the agent
    acked,       \* the drain acknowledgement has reached the agent
    queue,       \* streams yamux has queued for AcceptStream
    mainUp,      \* connectOnce's accept loop runs
    stream,      \* what the agent has done with each stream
    req,         \* what tryAgent has done with each stream it was given
    phase,       \* shutdownSession
    asked,       \* the drain request is on its way
    ackInTime,   \* RequestDrain returned true
    goAway,      \* the agent's yamux refuses new streams
    draining,    \* Agent.draining
    callback,    \* Agent.retiredDone: onRetired has run
    spent,       \* the budget ran out with streams left
    died         \* the session died under the agent

agentVars == <<budget, up, delivered, acked, queue, mainUp, stream, req, phase,
               asked, ackInTime, goAway, draining, callback, spent, died>>
handoffVars == <<vars, agentVars>>

Inflight == {o \in Open : stream[o] \in {"taken", "accepted", "running"}}

(***************************************************************************)
(* The edge.                                                               *)
(***************************************************************************)
EdgeStep ==
    /\ \/ goAway /\ Retire
       \/ \E o \in Open : \/ OpenStart(o) \/ (up /\ OpenSends(o))
                          \/ OpenFinishes(o) \/ OpenReturns(o)
                          \/ OpenTimesOut(o)
       \/ \E d \in Drain : \/ (asked /\ up /\ DrainRetires(d))
                           \/ DrainWaits(d) \/ DrainTimesOut(d) \/ DrainAcks(d)
    /\ UNCHANGED agentVars

\* tryAgent: AwaitAccept reads the accept byte, and only then sendHead.
SendHead(o) ==
    /\ call[o] = "ok" /\ req[o] = "none"
    /\ up /\ stream[o] = "accepted"
    /\ req' = [req EXCEPT ![o] = "sent"]
    /\ stream' = [stream EXCEPT ![o] = "running"]
    /\ UNCHANGED <<vars, budget, up, delivered, acked, queue, mainUp, phase,
                   asked, ackInTime, goAway, draining, callback, spent, died>>

\* Mutant: a request is retried although its head was sent.
RetryAfterSend(o) ==
    /\ call[o] = "ok" /\ req[o] \in {"none", "sent"}
    /\ req' = [req EXCEPT ![o] = "retry"]
    /\ UNCHANGED <<vars, budget, up, delivered, acked, queue, mainUp, stream,
                   phase, asked, ackInTime, goAway, draining, callback, spent,
                   died>>

\* tryAgent: a refusal, a timeout or a dead session before the byte was read.
\* The request goes to another agent and the stream is closed, empty.
Retry(o) ==
    /\ call[o] = "ok" /\ req[o] = "none"
    /\ req' = [req EXCEPT ![o] = "retry"]
    /\ UNCHANGED <<vars, budget, up, delivered, acked, queue, mainUp, stream,
                   phase, asked, ackInTime, goAway, draining, callback, spent,
                   died>>

(***************************************************************************)
(* The tunnel and the agent's streams.                                     *)
(***************************************************************************)
\* External: yamux delivers the next frame.  A stream that arrives after the
\* agent's GoAway is reset.
Deliver ==
    /\ up /\ delivered < Len(wire)
    /\ delivered' = delivered + 1
    /\ LET frame == wire[delivered + 1] IN
       IF frame \in Drain
       THEN acked' = TRUE /\ UNCHANGED <<queue, stream>>
       ELSE /\ IF goAway
               THEN /\ stream' = [stream EXCEPT ![frame] = "refused"]
                    /\ UNCHANGED queue
               ELSE /\ stream' = [stream EXCEPT ![frame] = "queued"]
                    /\ queue' = Append(queue, frame)
            /\ UNCHANGED acked
    /\ UNCHANGED <<vars, budget, up, mainUp, req, phase, asked, ackInTime,
                   goAway, draining, callback, spent, died>>

\* serveStream: refused (closed without the accept byte) while draining.
ServeStream(o) ==
    stream' = [stream EXCEPT ![o] = IF draining THEN "refused" ELSE "taken"]

MainAccepts ==
    /\ up /\ mainUp /\ queue # <<>>
    /\ ServeStream(Head(queue))
    /\ queue' = Tail(queue)
    /\ UNCHANGED <<vars, budget, up, delivered, acked, mainUp, req, phase,
                   asked, ackInTime, goAway, draining, callback, spent, died>>

\* handleStream: the accept byte; then the request, if one comes, is served;
\* a stream the edge closed unused ends without one.
HandleStream(o) ==
    /\ \/ /\ up /\ stream[o] = "taken"
          /\ stream' = [stream EXCEPT ![o] = "accepted"]
       \/ /\ stream[o] = "running"
          /\ stream' = [stream EXCEPT ![o] = "served"]
       \/ /\ stream[o] \in {"taken", "accepted"}
          /\ req[o] = "retry" \/ bg[o] = "unused"
          /\ stream' = [stream EXCEPT ![o] = "ended"]
    /\ UNCHANGED <<vars, budget, up, delivered, acked, queue, mainUp, req,
                   phase, asked, ackInTime, goAway, draining, callback, spent,
                   died>>

\* What the end of the session does to the streams on it.
CloseSession ==
    /\ up' = FALSE
    /\ mainUp' = FALSE
    /\ queue' = <<>>
    /\ stream' = [o \in Open |->
                    CASE stream[o] = "running"               -> "cut"
                      [] stream[o] \in {"taken", "accepted"} -> "ended"
                      [] stream[o] = "queued"                -> "refused"
                      [] OTHER                               -> stream[o]]

\* External: the network or the edge ends the session.
SessionDies ==
    /\ up
    /\ CloseSession
    /\ died' = TRUE
    /\ UNCHANGED <<vars, budget, delivered, acked, req, phase, asked,
                   ackInTime, goAway, draining, callback, spent>>

(***************************************************************************)
(* shutdownSession.                                                        *)
(***************************************************************************)
\* Mutant: GoAway without waiting for the acknowledgement.
ShutdownGoesAwayFirst ==
    /\ phase = "running"
    /\ IF budget = "none" \/ ~up
       THEN phase' = "drain" /\ callback' = TRUE /\ UNCHANGED <<asked, goAway>>
       ELSE phase' = "asked" /\ asked' = TRUE /\ goAway' = TRUE /\ UNCHANGED callback
    /\ UNCHANGED <<vars, budget, up, delivered, acked, queue, mainUp, stream,
                   req, ackInTime, draining, spent, died>>

\* The switch: no handoff, a handoff nobody waits for, or a full one.
Shutdown ==
    /\ phase = "running"
    /\ \/ /\ budget = "none" \/ ~up
          /\ phase' = "drain" /\ callback' = TRUE
          /\ UNCHANGED <<asked, goAway, draining>>
       \/ /\ budget = "short" /\ up
          /\ draining' = TRUE /\ asked' = TRUE
          /\ phase' = "drain" /\ callback' = TRUE
          /\ UNCHANGED goAway
       \/ /\ budget = "long" /\ up
          /\ asked' = TRUE
          /\ phase' = "asked"
          /\ UNCHANGED <<goAway, draining, callback>>
    /\ UNCHANGED <<vars, budget, up, delivered, acked, queue, mainUp, stream,
                   req, ackInTime, spent, died>>

\* The GoAway of a short budget, in a goroutine of its own.
BackgroundGoAway ==
    /\ budget = "short" /\ asked /\ up /\ ~goAway
    /\ goAway' = TRUE
    /\ UNCHANGED <<vars, budget, up, delivered, acked, queue, mainUp, stream,
                   req, phase, asked, ackInTime, draining, callback, spent,
                   died>>

\* RequestDrain returns, acknowledged or not, and retired() runs.
AckWaitEnds ==
    /\ phase = "asked"
    /\ ackInTime' \in {FALSE, acked}
    /\ callback' = TRUE
    /\ phase' = "goaway"
    /\ UNCHANGED <<vars, budget, up, delivered, acked, queue, mainUp, stream,
                   req, asked, goAway, draining, spent, died>>

\* GoAway (its send is bounded, its effect on arriving streams immediate),
\* then stopAccept.
GoAway ==
    /\ phase = "goaway"
    /\ goAway' = TRUE
    /\ phase' = "stopping"
    /\ UNCHANGED <<vars, budget, up, delivered, acked, queue, mainUp, stream,
                   req, asked, ackInTime, draining, callback, spent, died>>

\* The main accept loop notices and has ended.
MainStops ==
    /\ phase = "stopping"
    /\ mainUp' = FALSE
    /\ phase' = "backlog"
    /\ UNCHANGED <<vars, budget, up, delivered, acked, queue, stream, req,
                   asked, ackInTime, goAway, draining, callback, spent, died>>

\* A queued stream is served, or refused when less than minServe is left.
Backlog ==
    /\ phase = "backlog" /\ queue # <<>>
    /\ queue' = Tail(queue)
    /\ \/ ServeStream(Head(queue)) /\ UNCHANGED spent
       \/ /\ stream' = [stream EXCEPT ![Head(queue)] = "refused"]
          /\ spent' = TRUE
    /\ UNCHANGED <<vars, budget, up, delivered, acked, mainUp, req, phase,
                   asked, ackInTime, goAway, draining, callback, died>>

\* The queue stayed empty for backlogQuiet.
BacklogQuiet ==
    /\ phase = "backlog" /\ queue = <<>>
    /\ phase' = "drain"
    /\ UNCHANGED <<vars, budget, up, delivered, acked, queue, mainUp, stream,
                   req, asked, ackInTime, goAway, draining, callback, spent,
                   died>>

\* drainStreamsFor: refuse new streams, ...
RefuseNew ==
    /\ phase = "drain"
    /\ draining' = TRUE
    /\ phase' = "waiting"
    /\ UNCHANGED <<vars, budget, up, delivered, acked, queue, mainUp, stream,
                   req, asked, ackInTime, goAway, callback, spent, died>>

\* Mutant: the wait has no bound.
DrainEndsUnbounded ==
    /\ phase = "waiting"
    /\ Inflight = {}
    /\ CloseSession
    /\ phase' = "closed"
    /\ UNCHANGED <<vars, budget, delivered, acked, req, asked, ackInTime,
                   goAway, draining, callback, spent, died>>

\* ... wait for those in flight, or for the budget to run out; then close.
DrainEnds ==
    /\ phase = "waiting"
    /\ \/ Inflight = {} /\ UNCHANGED spent
       \/ Inflight # {} /\ spent' = TRUE
    /\ CloseSession
    /\ phase' = "closed"
    /\ UNCHANGED <<vars, budget, delivered, acked, req, asked, ackInTime,
                   goAway, draining, callback, died>>

ShutdownStep ==
    \/ AckWaitEnds \/ GoAway \/ MainStops \/ Backlog \/ BacklogQuiet
    \/ RefuseNew \/ DrainEnds

(***************************************************************************)
(* The specification.                                                      *)
(***************************************************************************)
HandoffInit ==
    /\ Init
    /\ budget \in Budgets
    /\ up = TRUE /\ delivered = 0 /\ acked = FALSE /\ queue = <<>>
    /\ mainUp = TRUE
    /\ stream = [o \in Open |-> "none"]
    /\ req = [o \in Open |-> "none"]
    /\ phase = "running" /\ asked = FALSE /\ ackInTime = FALSE
    /\ goAway = FALSE /\ draining = FALSE /\ callback = FALSE
    /\ spent = FALSE /\ died = FALSE

HandoffNext ==
    \/ EdgeStep \/ Deliver \/ MainAccepts \/ SessionDies
    \/ Shutdown \/ ShutdownStep \/ BackgroundGoAway
    \/ \E o \in Open : SendHead(o) \/ Retry(o) \/ HandleStream(o)

HandoffSpec == HandoffInit /\ [][HandoffNext]_handoffVars

\* The agent's timers run out and its goroutines run, and so do the edge's (see
\* StreamOpen's Fairness).  Frames need not arrive, nor requests end.
HandoffFairness ==
    /\ WF_handoffVars(ShutdownStep)
    /\ \A o \in Open :
         WF_handoffVars((OpenReturns(o) \/ OpenTimesOut(o)) /\ UNCHANGED agentVars)
    /\ \A d \in Drain :
         WF_handoffVars((DrainWaits(d) \/ DrainAcks(d)) /\ UNCHANGED agentVars)

HandoffFairSpec == HandoffSpec /\ HandoffFairness

(***************************************************************************)
(* Properties.                                                             *)
(***************************************************************************)
\* The type of the agent's side of the session.
HandoffTypeOK ==
    /\ TypeOK
    /\ budget \in {"none", "short", "long"}
    /\ delivered \in 0..Len(wire)
    /\ queue \in Seq(Open)
    /\ stream \in [Open -> {"none", "queued", "taken", "accepted", "running",
                            "served", "ended", "refused", "cut"}]
    /\ req \in [Open -> {"none", "sent", "retry"}]
    /\ phase \in {"running", "asked", "goaway", "stopping", "backlog", "drain",
                  "waiting", "closed"}
    /\ {up, acked, mainUp, asked, ackInTime, goAway, draining, callback, spent,
        died} \subseteq BOOLEAN

\* shutdownSession: the agent cuts a request it runs only when its drain budget
\* has run out, and after a drain request acknowledged in time by an edge that
\* did not have to acknowledge early, no stream the edge opened is refused or
\* cut, as long as the budget lasts and the session lives.
HandoffLosesNothing ==
    /\ HandoffTypeOK
    /\ \A o \in Open : stream[o] = "cut" => spent \/ died
    /\ (ackInTime /\ ~spent /\ ~died /\ \A d \in Drain : drain[d] # "ackedEarly") =>
           \A o \in Open : call[o] = "ok" => stream[o] \notin {"refused", "cut"}

\* tryAgent: a request that is retried on another agent was never run by this
\* one, not even by a draining agent that accepts the stream late.
RetryIsSafe ==
    \A o \in Open : req[o] = "retry" =>
        stream[o] \notin {"running", "served", "cut"}

\* shutdownSession always ends, and with it the session; the callback has run,
\* nothing is being served and nothing is left in the accept queue then.
ShutdownEnds ==
    phase # "running" ~>
        phase = "closed" /\ ~up /\ callback /\ Inflight = {} /\ queue = <<>>

\* shutdownSession: "a replacement with the same certificate is not refused as
\* a duplicate": when the onRetired callback has run for a live session with
\* drain time, the edge has retired the session.
RetiredMeansReplaceable == callback /\ up /\ budget # "none" => retired
=============================================================================

------------------------------ MODULE AgentRun ------------------------------
(***************************************************************************)
(* The agent process: Agent.Run with connectOnce, its shutdown goroutine   *)
(* and shutdownSession for edges old and new (internal/agent/agent.go),    *)
(* composed with the replacement of the process on SIGHUP (Replace).       *)
(*                                                                         *)
(* Replace lets the callback run and the process exit at any moment of a   *)
(* shutdown.  Here both happen where the code has them: retired() is       *)
(* called by shutdownSession, or as Run returns, and blocks its caller     *)
(* until handOver is done; the process exits once Run has returned.        *)
(* DrainHandoff has the details of the handshake with the edge.            *)
(***************************************************************************)
EXTENDS Replace, FiniteSetsExt

CONSTANTS
    MinBackoff, MaxBackoff,   \* reconnect.min_backoff, max_backoff
    MaxStreams,               \* bound: streams in flight
    MaxWaits                  \* bound of the history variable waits

ASSUME AgentRunAssumption ==
    /\ MinBackoff \in Nat \ {0}
    /\ MaxBackoff \in Nat /\ MinBackoff <= MaxBackoff
    /\ MaxStreams \in Nat /\ MaxWaits \in Nat
    /\ MinBackoff * 2^MaxWaits >= MaxBackoff

VARIABLES
    run,         \* Run and connectOnce
    sess,        \* the session: none, open, ended by the other side or by us
    v2,          \* it negotiated tunnel.ALPNv2
    shut,        \* the shutdown goroutine of connectOnce
    stopAccept,  \* acceptCtx is cancelled
    refusing,    \* Agent.draining
    streams,     \* Agent.inflight
    backoff,
    waits,       \* history: waits since the last stable session, up to MaxWaits
    spent        \* history: the drain ended with streams left

runVars == <<run, sess, v2, shut, stopAccept, refusing, streams,
             backoff, waits, spent>>
processVars == <<vars, runVars>>

(***************************************************************************)
(* Run and connectOnce.                                                    *)
(***************************************************************************)
Running(from, to) == old = "up" /\ run = from /\ run' = to

\* The end of connectOnce: Run returns in a shutdown, else it waits, from
\* MinBackoff again if the session was stable.
Disconnected(from, wasStable) ==
    /\ Running(from, IF ctx THEN "returning" ELSE "backoff")
    /\ backoff' = IF ~ctx /\ wasStable THEN MinBackoff ELSE backoff
    /\ waits' = IF ~ctx /\ wasStable THEN 0 ELSE waits
    /\ UNCHANGED <<vars, refusing, streams, spent>>

\* Dial, TLS, the fingerprint pin or yamux fails.
DialFails ==
    /\ Disconnected("dial", FALSE)
    /\ UNCHANGED <<sess, v2, shut, stopAccept>>

Established ==
    /\ Running("dial", "up")
    /\ sess' = "open"
    /\ v2' \in BOOLEAN
    /\ shut' = "select" /\ stopAccept' = FALSE
    /\ UNCHANGED <<vars, refusing, streams, backoff, waits, spent>>

\* serveStream, for a stream of the main loop (one that is refused changes
\* nothing), and the end of a stream.
ServeStream ==
    /\ Running("up", "up")
    /\ ~refusing /\ streams < MaxStreams
    /\ streams' = streams + 1
    /\ UNCHANGED <<vars, sess, v2, shut, stopAccept, refusing,
                   backoff, waits, spent>>

StreamEnds ==
    /\ old = "up" /\ streams > 0
    /\ streams' = streams - 1
    /\ UNCHANGED <<vars, run, sess, v2, shut, stopAccept,
                   refusing, backoff, waits, spent>>

\* External: the edge or the network ends the session.
SessionDies ==
    /\ old = "up" /\ sess = "open"
    /\ sess' = "dead"
    /\ UNCHANGED <<vars, run, v2, shut, stopAccept, refusing,
                   streams, backoff, waits, spent>>

\* AcceptStreamWithContext fails: mainStopped.
MainStops ==
    /\ Running("up", "ended")
    /\ sess # "open" \/ stopAccept
    /\ UNCHANGED <<vars, sess, v2, shut, stopAccept, refusing,
                   streams, backoff, waits, spent>>

\* <-shutdownDone, and the deferred close.  stable: min_backoff has passed since
\* the session was set up.
ConnectReturns ==
    /\ shut = "done"
    /\ \E stable \in BOOLEAN : Disconnected("ended", stable)
    /\ sess' = "none" /\ shut' = "none" /\ v2' = FALSE
    /\ stopAccept' = FALSE

Doubled == Min({2 * backoff, MaxBackoff})

\* The wait is over (the loop then looks at ctx once more) or cut short.
BackoffEnds ==
    /\ \/ /\ Running("backoff", IF ctx THEN "returning" ELSE "dial")
          /\ backoff' = Doubled
          /\ waits' = Min({waits + 1, MaxWaits})
       \/ /\ ctx
          /\ Running("backoff", "returning")
          /\ UNCHANGED <<backoff, waits>>
    /\ UNCHANGED <<vars, sess, v2, shut, stopAccept, refusing,
                   streams, spent>>

\* Mutant: the callback is not run just once.
RunReturnsAgain ==
    /\ \/ /\ Running("returning", "returning")
          /\ retiredDone' = TRUE
          /\ handing' = IF onRetired = {} THEN "done" ELSE "look"
          /\ UNCHANGED <<ctx, term, busy, onRetired, handoverFailed, old, mainpid, pc, succ,
                         reported, goAhead, overdue>>
       \/ retiredDone /\ handing = "done" /\ Running("returning", "returned") /\ UNCHANGED vars
    /\ UNCHANGED <<sess, v2, shut, stopAccept, refusing, streams, backoff, waits, spent>>

\* The deferred retired(), if it has not run yet; then Run has returned.
RunReturns ==
    /\ \/ Running("returning", "returning") /\ Retired
       \/ /\ retiredDone /\ handing = "done"
          /\ Running("returning", "returned")
          /\ UNCHANGED vars
    /\ UNCHANGED <<sess, v2, shut, stopAccept, refusing,
                   streams, backoff, waits, spent>>

(***************************************************************************)
(* The goroutine that shuts a session down.                                *)
(***************************************************************************)
Shutting(from, to) ==
    /\ old = "up" /\ shut = from /\ shut' = to
    /\ UNCHANGED <<run, v2, backoff, waits>>

\* Its select.  With both ready, either case is taken.
ShutSelect ==
    /\ \/ ctx /\ Shutting("select", "switch")
       \/ run = "ended" /\ Shutting("select", "done")
    /\ UNCHANGED <<vars, sess, stopAccept, refusing, streams, spent>>

\* drain_timeout: not positive, less than minHandoff, or longer.  A process
\* shuts down one session at most, so it is chosen where it is looked at.
Budget == {"none", "short", "long"}

\* Mutant: an old edge is treated as one that has retired the agent.
ShutSwitchAlways ==
    \E budget \in Budget :
        /\ Shutting("switch", IF budget = "long" /\ sess = "open" THEN "ask" ELSE "call, drain")
        /\ refusing' = (refusing \/ (budget = "short" /\ sess = "open"))
        /\ UNCHANGED <<vars, sess, stopAccept, streams, spent>>

\* shutdownSession: an old edge; no drain time or a dead session; a budget too
\* short to wait for the acknowledgement; the full handoff.
ShutSwitch ==
    \E budget \in Budget :
        /\ \/ ~v2 /\ Shutting("switch", "drain") /\ UNCHANGED refusing
           \/ /\ v2 /\ (budget = "none" \/ sess # "open")
              /\ Shutting("switch", "call, drain")
              /\ UNCHANGED refusing
           \/ /\ v2 /\ budget = "short" /\ sess = "open"
              /\ Shutting("switch", "call, drain")
              /\ refusing' = TRUE
           \/ /\ v2 /\ budget = "long" /\ sess = "open"
              /\ Shutting("switch", "ask")
              /\ UNCHANGED refusing
        /\ UNCHANGED <<vars, sess, stopAccept, streams, spent>>

\* RequestDrain returns, acknowledged or not.
ShutAsked ==
    /\ Shutting("ask", "call, goaway")
    /\ UNCHANGED <<vars, sess, stopAccept, refusing, streams, spent>>

\* retired(): runs the callback, once, and returns when handOver has.
ShutCall ==
    \E next \in {<<"call, drain", "drain">>, <<"call, goaway", "goaway">>,
                 <<"call, end", "done">>} :
        /\ \/ Shutting(next[1], next[1]) /\ Retired
           \/ /\ retiredDone /\ handing = "done"
              /\ Shutting(next[1], next[2])
              /\ UNCHANGED vars
        /\ UNCHANGED <<sess, stopAccept, refusing, streams, spent>>

\* GoAway (bounded), stopAccept.
ShutGoAway ==
    /\ Shutting("goaway", "stopping")
    /\ stopAccept' = TRUE
    /\ UNCHANGED <<vars, sess, refusing, streams, spent>>

\* The main loop has stopped, or the session is closed.
ShutMainStopped ==
    /\ run = "ended" \/ sess # "open"
    /\ Shutting("stopping", "backlog")
    /\ UNCHANGED <<vars, sess, stopAccept, refusing, streams, spent>>

\* A stream left in the accept queue is served, or there is none.
ShutBacklog ==
    /\ \/ /\ Shutting("backlog", "backlog")
          /\ streams < MaxStreams /\ streams' = streams + 1
       \/ Shutting("backlog", "drain") /\ UNCHANGED streams
    /\ UNCHANGED <<vars, sess, stopAccept, refusing, spent>>

\* drainStreamsFor: refuse new streams, ...
ShutRefuse ==
    /\ Shutting("drain", "wait")
    /\ refusing' = TRUE
    /\ UNCHANGED <<vars, sess, stopAccept, streams, spent>>

\* Mutant: no bound on the wait.
ShutCloseUnbounded ==
    /\ streams = 0
    /\ Shutting("wait", IF v2 THEN "done" ELSE "call, end")
    /\ sess' = IF sess = "open" THEN "closed" ELSE sess
    /\ UNCHANGED <<vars, stopAccept, refusing, streams, spent>>

\* ... wait until none is left or the budget is spent, and close the session.
\* With an old edge the deferred retired() follows.
ShutClose ==
    /\ Shutting("wait", IF v2 THEN "done" ELSE "call, end")
    /\ spent' = (streams > 0)
    /\ sess' = IF sess = "open" THEN "closed" ELSE sess
    /\ UNCHANGED <<vars, stopAccept, refusing, streams>>

(***************************************************************************)
(* The specification.                                                      *)
(***************************************************************************)
RunInit ==
    /\ Init
    /\ run = "dial" /\ sess = "none" /\ v2 = FALSE
    /\ shut = "none" /\ stopAccept = FALSE /\ refusing = FALSE /\ streams = 0
    /\ backoff = MinBackoff /\ waits = 0 /\ spent = FALSE

RunStep == MainStops \/ ConnectReturns \/ BackoffEnds \/ RunReturns

ShutStep ==
    \/ ShutSelect \/ ShutSwitch \/ ShutAsked \/ ShutCall \/ ShutGoAway
    \/ ShutMainStopped \/ ShutRefuse \/ ShutClose

ShutBacklogEnds == ShutBacklog /\ shut' = "drain"

\* The rest of the process, as Replace has it.  When it ends nothing is left of
\* its memory.
Gone ==
    /\ run' = "gone" /\ sess' = "none" /\ v2' = FALSE
    /\ shut' = "none" /\ stopAccept' = FALSE /\ refusing' = FALSE /\ streams' = 0
    /\ backoff' = MinBackoff /\ waits' = 0 /\ spent' = FALSE

HandOverStep ==
    \/ /\ SuccessorGone \/ SuccessorThere \/ NotifyMainPid \/ NotifyFails \/ Go
       /\ UNCHANGED runVars
    \/ run = "returned" /\ Exit /\ Gone

ReloadStep(h) == ReplaceStep(h) /\ UNCHANGED runVars
SuccessorRuns(h) == SuccessorStep(h) /\ UNCHANGED runVars

RunNext ==
    \/ DialFails \/ Established \/ ServeStream \/ StreamEnds
    \/ SessionDies \/ RunStep \/ ShutStep \/ ShutBacklog \/ HandOverStep
    \/ SigTerm /\ UNCHANGED runVars
    \/ Crash /\ Gone
    \/ \E h \in Hup : \/ ReloadStep(h) \/ SuccessorRuns(h)
                      \/ (Replace(h) \/ NotPrepared(h) \/ Dies(h)) /\ UNCHANGED runVars

RunSpec == RunInit /\ [][RunNext]_processVars

\* Goroutines run and timers fire; an attempt to connect ends once its context
\* is cancelled.  Nothing is assumed of the edge, the streams or the signals.
RunFairness ==
    /\ WF_processVars(RunStep)
    /\ WF_processVars(ShutStep) /\ WF_processVars(ShutBacklogEnds)
    /\ WF_processVars(ctx /\ (DialFails \/ Established))
    /\ WF_processVars(HandOverStep)
    /\ \A h \in Hup : WF_processVars(ReloadStep(h)) /\ WF_processVars(SuccessorRuns(h))

RunFairSpec == RunSpec /\ RunFairness

(***************************************************************************)
(* Properties.                                                             *)
(***************************************************************************)
\* The type of Run's state; there is a session exactly while connectOnce has
\* one, and its shutdown goroutine with it.
RunTypeOK ==
    /\ TypeOK
    /\ run \in {"dial", "up", "ended", "backoff", "returning", "returned", "gone"}
    /\ sess \in {"none", "open", "dead", "closed"}
    /\ shut \in {"none", "select", "switch", "ask", "call, drain", "call, goaway", "goaway",
                 "stopping", "backlog", "drain", "wait", "call, end", "done"}
    /\ {v2, stopAccept, refusing, spent} \subseteq BOOLEAN
    /\ streams \in 0..MaxStreams /\ waits \in 0..MaxWaits
    /\ (run \in {"up", "ended"}) <=> (sess # "none")
    /\ (sess # "none") <=> (shut # "none")

\* The process implements the replacement protocol that Replace describes.
ImplementsReplace == Spec

\* SetOnRetired: with an edge that has no drain support the callback runs
\* "only after this agent's session has closed", whatever else ends meanwhile.
CallbackAfterClose == (retiredDone /\ sess = "open") => v2

\* shutdownSession, old edge or new: a session the agent closes itself has no
\* stream in flight, unless the drain budget ran out.
ClosedIsDrained == (sess = "closed" /\ ~spent) => streams = 0

\* Run: "an immediately-rejected handshake keeps backing off": the backoff is
\* the minimum doubled once for every wait since the last stable session, and
\* no more than the maximum, across any number of sessions.
BackoffExact == backoff = Min({MinBackoff * 2^waits, MaxBackoff})

\* A shutdown ends: once its context is cancelled, Run returns, from wherever
\* it was, having run the callback.
RunEnds == ctx ~> (run = "returned" /\ retiredDone) \/ old # "up"

\* An agent whose session ended connects again, unless it is shutting down.
Reconnects == (sess = "dead") ~> run = "dial" \/ ctx \/ old # "up"

\* A session is shut down in the order shutdownSession lays down, with an old
\* edge and with a new one: drained, closed, and the callback in its place; and
\* between sessions the backoff is what the waits since the last stable one
\* make it.
ShutdownInOrder == RunTypeOK /\ CallbackAfterClose /\ ClosedIsDrained /\ BackoffExact

\* Nothing in the agent waits for ever: Run reconnects, returns when it is told
\* to, and a replacement that registered its handover is completed.
RunNeverHangs == RunEnds /\ Reconnects /\ ReplacementCompletes
=============================================================================

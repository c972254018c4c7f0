----------------------------- MODULE StreamOpen -----------------------------
(***************************************************************************)
(* Opening streams on one agent session while it is retired: agentConn.mu  *)
(* with retired, opening, stuck and idle (internal/edge/registry.go), and  *)
(* openUnlessRetired, retire, retireForDrain (internal/edge/edge.go).      *)
(*                                                                         *)
(* Every open has two goroutines: the caller, bounded by a timer, and the  *)
(* one blocked in yamux's OpenStream, which may take any time.  A step is  *)
(* one critical section of agentConn.mu, one channel receive, or one frame *)
(* handed to the tunnel, which keeps frames in order (wire).               *)
(***************************************************************************)
EXTENDS Integers, FiniteSets, Sequences

CONSTANTS Open,    \* calls of openUnlessRetired
          Drain    \* drain requests on the session's control streams

ASSUME StreamOpenAssumption ==
    /\ IsFiniteSet(Open)
    /\ Open \cap Drain = {}

VARIABLES
    retired, opening, stuck,   \* agentConn
    idle,       \* agentConn.idle # nil
    call,       \* the caller of each open
    bg,         \* the goroutine in OpenStream of each open
    abandoned,  \* opens given up on
    drain,      \* retireForDrain of each drain request
    wire        \* frames sent to the agent: opening frames and drain acks

connVars == <<retired, opening, stuck, idle>>
vars == <<connVars, call, bg, abandoned, drain, wire>>

\* agentConn.liveOpensLocked, over the counters as a step leaves them
LiveOpens(o, s) == o - s

\* agentConn.wakeIfIdleLocked: the waiters share the channel that idle is.
WakeIfIdle(o, s) ==
    IF LiveOpens(o, s) <= 0 /\ idle
    THEN /\ idle' = FALSE
         /\ drain' = [d \in Drain |-> IF drain[d] = "waiting" THEN "woken"
                                      ELSE drain[d]]
    ELSE UNCHANGED <<idle, drain>>

(***************************************************************************)
(* openUnlessRetired.                                                      *)
(***************************************************************************)
\* The first critical section: refused, or counted and started.
OpenStart(o) ==
    /\ call[o] = "new"
    /\ IF retired \/ stuck > 0
       THEN /\ call' = [call EXCEPT ![o] = IF retired THEN "errRetired"
                                           ELSE "errOpenBlocked"]
            /\ UNCHANGED <<opening, bg>>
       ELSE /\ call' = [call EXCEPT ![o] = "waiting"]
            /\ bg' = [bg EXCEPT ![o] = "opening"]
            /\ opening' = opening + 1
    /\ UNCHANGED <<retired, stuck, idle, abandoned, drain, wire>>

\* External: OpenStream gets past its backlog and sends the opening frame.
OpenSends(o) ==
    /\ bg[o] = "opening"
    /\ bg' = [bg EXCEPT ![o] = "sent"]
    /\ wire' = Append(wire, o)
    /\ UNCHANGED <<connVars, call, abandoned, drain>>

\* OpenStream returns, with a stream or (session closed, GoAway) an error: the
\* goroutine's critical section, and the close of a stream nobody will use.
OpenFinishes(o) ==
    /\ bg[o] \in {"opening", "sent"}
    /\ bg' = [bg EXCEPT ![o] = IF @ = "opening" THEN "failed"
                               ELSE IF o \in abandoned THEN "unused"
                               ELSE "stream"]
    /\ opening' = opening - 1
    /\ stuck' = IF o \in abandoned THEN stuck - 1 ELSE stuck
    /\ WakeIfIdle(opening', stuck')
    /\ UNCHANGED <<retired, call, abandoned, wire>>

\* The caller receives from done and returns what OpenStream returned.
OpenReturns(o) ==
    /\ call[o] = "waiting"
    /\ bg[o] \in {"failed", "stream"}
    /\ call' = [call EXCEPT ![o] = IF bg[o] = "stream" THEN "ok" ELSE "err"]
    /\ UNCHANGED <<connVars, bg, abandoned, drain, wire>>

\* The caller's timer fires before the open has finished: it gives up.
OpenTimesOut(o) ==
    /\ call[o] = "waiting"
    /\ bg[o] \in {"opening", "sent"}
    /\ call' = [call EXCEPT ![o] = "errOpenTimeout"]
    /\ abandoned' = abandoned \cup {o}
    /\ stuck' = stuck + 1
    /\ WakeIfIdle(opening, stuck')
    /\ UNCHANGED <<retired, opening, bg, wire>>

(***************************************************************************)
(* retire and retireForDrain.                                              *)
(***************************************************************************)
\* Edge.retire by a request or a newcomer's probe that saw GoAway.
Retire ==
    /\ ~retired
    /\ retired' = TRUE
    /\ UNCHANGED <<opening, stuck, idle, call, bg, abandoned, drain, wire>>

\* serveControlStream calls retireForDrain; ServeControl handles one control
\* stream at a time.
DrainRetires(d) ==
    /\ drain[d] = "new"
    /\ \A e \in Drain : drain[e] \in {"new", "acked", "ackedEarly"}
    /\ retired' = TRUE
    /\ drain' = [drain EXCEPT ![d] = "retired"]
    /\ UNCHANGED <<opening, stuck, idle, call, bg, abandoned, wire>>

\* Mutant: the acknowledgement does not wait for the opens in flight.
DrainWaitsNot(d) ==
    /\ drain[d] = "retired"
    /\ drain' = [drain EXCEPT ![d] = "woken"]
    /\ UNCHANGED <<connVars, call, bg, abandoned, wire>>

\* retireForDrain again: acknowledge at once, or wait for idle to be closed.
DrainWaits(d) ==
    /\ drain[d] = "retired"
    /\ IF LiveOpens(opening, stuck) = 0
       THEN drain' = [drain EXCEPT ![d] = "woken"] /\ UNCHANGED idle
       ELSE drain' = [drain EXCEPT ![d] = "waiting"] /\ idle' = TRUE
    /\ UNCHANGED <<retired, opening, stuck, call, bg, abandoned, wire>>

\* RetireWait is over: acknowledge anyway.
DrainTimesOut(d) ==
    /\ drain[d] = "waiting"
    /\ drain' = [drain EXCEPT ![d] = "early"]
    /\ UNCHANGED <<connVars, call, bg, abandoned, wire>>

\* Mutant: nothing is written once RetireWait is over.
DrainAcksInTime(d) ==
    /\ drain[d] = "woken"
    /\ drain' = [drain EXCEPT ![d] = "acked"]
    /\ wire' = Append(wire, d)
    /\ UNCHANGED <<connVars, call, bg, abandoned>>

\* serveControlStream writes drainAck.
DrainAcks(d) ==
    /\ drain[d] \in {"woken", "early"}
    /\ drain' = [drain EXCEPT ![d] = IF @ = "woken" THEN "acked"
                                     ELSE "ackedEarly"]
    /\ wire' = Append(wire, d)
    /\ UNCHANGED <<connVars, call, bg, abandoned>>

(***************************************************************************)
(* The specification.                                                      *)
(***************************************************************************)
Init ==
    /\ retired = FALSE /\ opening = 0 /\ stuck = 0 /\ idle = FALSE
    /\ call = [o \in Open |-> "new"]
    /\ bg = [o \in Open |-> "none"]
    /\ abandoned = {}
    /\ drain = [d \in Drain |-> "new"]
    /\ wire = <<>>

Next ==
    \/ Retire
    \/ \E o \in Open : \/ OpenStart(o) \/ OpenSends(o) \/ OpenFinishes(o)
                       \/ OpenReturns(o) \/ OpenTimesOut(o)
    \/ \E d \in Drain : \/ DrainRetires(d) \/ DrainWaits(d)
                        \/ DrainTimesOut(d) \/ DrainAcks(d)

Spec == Init /\ [][Next]_vars

\* Timers of callers fire and runnable goroutines run.  OpenStream may block
\* for ever, and RetireWait is not assumed to run out: what must wake a drain
\* is the opens themselves.
Fairness ==
    /\ \A o \in Open : WF_vars(OpenReturns(o) \/ OpenTimesOut(o))
    /\ \A d \in Drain : WF_vars(DrainWaits(d) \/ DrainAcks(d))

FairSpec == Spec /\ Fairness

(***************************************************************************)
(* Properties.                                                             *)
(***************************************************************************)
\* The type of the state of one agentConn and of its callers.
TypeOK ==
    /\ retired \in BOOLEAN /\ idle \in BOOLEAN
    /\ opening \in Nat /\ stuck \in Nat
    /\ call \in [Open -> {"new", "waiting", "ok", "err", "errRetired",
                          "errOpenBlocked", "errOpenTimeout"}]
    /\ bg \in [Open -> {"none", "opening", "sent", "failed", "stream",
                        "unused"}]
    /\ abandoned \subseteq Open
    /\ drain \in [Drain -> {"new", "retired", "waiting", "woken", "early",
                            "acked", "ackedEarly"}]
    /\ wire \in Seq(Open \cup Drain)

InFlight == {o \in Open : bg[o] \in {"opening", "sent"}}

\* agentConn: opening counts the opens in flight and stuck those of them that
\* were given up on, whichever of a timer and a late return comes first.
CountsExact ==
    /\ opening = Cardinality(InFlight)
    /\ stuck = Cardinality(InFlight \cap abandoned)

\* wakeIfIdleLocked: no wakeup is lost.  While a drain request waits there is
\* a live open left, whose end or timeout wakes it.
NoLostWakeup ==
    (\E d \in Drain : drain[d] = "waiting") => idle /\ InFlight \ abandoned # {}

\* "once it returns every stream opened on the session has already been sent
\* to the agent": an opening frame that follows an acknowledgement sent in
\* time belongs to an open that was given up on.
AckFollowsOpens ==
    \A i, j \in DOMAIN wire :
        i < j /\ wire[i] \in Drain /\ wire[j] \in Open =>
            drain[wire[i]] = "ackedEarly" \/ wire[j] \in abandoned

\* A stream of an open that was given up on is closed unused: no caller has it.
AbandonedIsUnused ==
    \A o \in abandoned : call[o] = "errOpenTimeout" /\ bg[o] # "stream"

\* retire: once a session is retired no open starts on it.
NoOpenAfterRetire ==
    [][retired => \A o \in Open : bg[o] = "none" => bg'[o] = "none"]_vars

\* A drain request is acknowledged even if every OpenStream blocks for ever,
\* and without RetireWait running out.
DrainIsAcked ==
    \A d \in Drain :
        drain[d] = "retired" ~> drain[d] \in {"acked", "ackedEarly"}
=============================================================================

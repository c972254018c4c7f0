------------------------------ MODULE Registry ------------------------------
(***************************************************************************)
(* The edge's registry of agent sessions (internal/edge/registry.go) with  *)
(* everyone who works on it: one serveAgent goroutine per session, the     *)
(* requests that evict or retire sessions, the agents' drain requests, and *)
(* the shutdown (closeAll).  A step is one critical section of registry.mu *)
(* or agentConn.mu, one call into obs.State, or one close of a session.    *)
(*                                                                         *)
(* A session stands for one accepted tunnel connection.  Its certificate   *)
(* and the moment it dies are the environment's choice.  The per-stream    *)
(* side of agentConn is in StreamOpen.                                     *)
(***************************************************************************)
EXTENDS Integers, FiniteSets

CONSTANTS Session,            \* every connection ever accepted
          Fingerprint,        \* client certificate fingerprints
          FpOf,               \* the fingerprint a connection presents
          V2,                 \* sessions that negotiated tunnel.ALPNv2
          Shared,             \* fingerprints with allow_shared_cert
          MaxSharedSessions   \* maxSharedSessions, 256 in the code

ASSUME RegistryAssumption ==
    /\ IsFiniteSet(Session)
    /\ FpOf \in [Session -> Fingerprint]
    /\ V2 \subseteq Session
    /\ Shared \subseteq Fingerprint
    /\ MaxSharedSessions \in Nat \ {0}

VARIABLES
    pc,          \* where serveAgent of each session is
    link,        \* the yamux session: closed, up, or up with GoAway received
    pool,        \* registry.byFP: the pooled sessions, of every fingerprint
    all,         \* registry.all: the tracked sessions
    wasJoined,   \* tracked.joined of each tracked session
    joined,      \* registry.joined: per fingerprint, a counter
    pending,     \* registry.pending: per fingerprint, a counter
    closing,     \* registry.closing
    toClose,     \* sessions a goroutine of closeAll or evict is about to close
    listed,      \* sessions obs.State lists as connected
    retire,      \* how far Edge.retire has come: retired = (retire # "no")
    evicting,    \* sessions taken by Edge.evict and not yet unlisted
    probed,      \* serveAgent: when, if at all, it probed the incumbents
    todo         \* retireGoingAway: candidates it has still to probe

serveVars == <<pc, probed, todo>>
regVars == <<pool, all, wasJoined, joined, pending>>
vars == <<serveVars, link, regVars, closing, toClose, listed, retire,
          evicting>>

(***************************************************************************)
(* The critical sections of the registry.                                  *)
(***************************************************************************)
\* Sessions for which yamux's IsClosed() is false, and Session.Close.
open == {s \in Session : link[s] # "closed"}
Close(s) == link' = [link EXCEPT ![s] = "closed"]

\* registry.liveLocked: fp's pooled sessions that are still open ...
Live(fp) == {s \in pool : FpOf[s] = fp /\ s \in open}

\* Mutant: a newcomer's look at the pool empties it.
PrunedAll(fp) == {s \in pool : FpOf[s] # fp}

\* ... and what it leaves in the pool: fp's closed sessions are dropped.
Pruned(fp) == {s \in pool : FpOf[s] = fp => s \in open}

\* registry.duplicateLocked
Duplicate(fp) == fp \notin Shared /\ Live(fp) # {}

\* A counter of a fingerprint that reaches zero is deleted from its map.
Decrement(count, fp) == [count EXCEPT ![fp] = IF @ <= 1 THEN 0 ELSE @ - 1]

\* Mutants: registerConn without the duplicate rule, and during the shutdown.
RegistrationShares(s) ==
    IF closing \/ s \notin open THEN "refusedGone"
    ELSE IF joined[FpOf[s]] >= MaxSharedSessions THEN "refusedCap"
    ELSE "registered"

RegistrationWhileClosing(s) ==
    IF s \notin open THEN "refusedGone"
    ELSE IF Duplicate(FpOf[s]) THEN "refusedDuplicate"
    ELSE IF joined[FpOf[s]] >= MaxSharedSessions THEN "refusedCap"
    ELSE "registered"

\* registry.registerConn: its result ...
Registration(s) ==
    LET fp == FpOf[s] IN
    IF closing \/ s \notin open THEN "refusedGone"
    ELSE IF Duplicate(fp) THEN "refusedDuplicate"
    ELSE IF joined[fp] >= MaxSharedSessions THEN "refusedCap"
    ELSE "registered"

\* ... and its effect on the registry, given that result.
RegisterConn(s, result) ==
    LET fp == FpOf[s] IN
    IF result # "registered"
    THEN /\ pool' = Pruned(fp)
         /\ UNCHANGED <<all, wasJoined, joined, pending>>
    ELSE /\ pool' = Pruned(fp) \cup {s}
         /\ UNCHANGED all
         /\ IF s \in all /\ s \notin wasJoined
            THEN /\ wasJoined' = wasJoined \cup {s}
                 /\ joined' = [joined EXCEPT ![fp] = @ + 1]
                 /\ pending' = Decrement(pending, fp)
            ELSE UNCHANGED <<wasJoined, joined, pending>>

(***************************************************************************)
(* serveAgent, one goroutine per session.                                  *)
(***************************************************************************)
Goto(s, label) == pc' = [pc EXCEPT ![s] = label]

\* The TLS handshake, the fingerprint check and yamux: either a session, or
\* the connection is closed.
Handshake(s) ==
    /\ pc[s] = "none"
    /\ \/ Goto(s, "track") /\ link' = [link EXCEPT ![s] = "up"]
       \/ Goto(s, "done") /\ UNCHANGED link
    /\ UNCHANGED <<probed, todo, regVars, closing, toClose, listed, retire,
                   evicting>>

\* registry.track, and the close of a session it does not record.
Track(s) ==
    LET fp == FpOf[s] IN
    /\ pc[s] = "track"
    /\ IF closing \/ pending[fp] >= MaxSharedSessions
       THEN /\ Goto(s, "done")
            /\ Close(s)
            /\ UNCHANGED <<all, pending>>
       ELSE /\ Goto(s, "precheck")
            /\ all' = all \cup {s}
            /\ pending' = [pending EXCEPT ![fp] = @ + 1]
            /\ UNCHANGED link
    /\ UNCHANGED <<probed, todo, pool, wasJoined, joined, closing, toClose,
                   listed, retire, evicting>>

\* hasLiveExclusive, before the ping: an obvious duplicate is probed first.
Precheck(s) ==
    /\ pc[s] = "precheck"
    /\ pool' = Pruned(FpOf[s])
    /\ IF Duplicate(FpOf[s])
       THEN Goto(s, "candidates") /\ probed' = [probed EXCEPT ![s] = "pre"]
       ELSE Goto(s, "ping") /\ UNCHANGED probed
    /\ UNCHANGED <<todo, link, all, wasJoined, joined, pending,
                   closing, toClose, listed, retire, evicting>>

\* retireGoingAway: a snapshot of fp's live sessions, of which version 1
\* agents are skipped (they never send GoAway).
Candidates(s) ==
    /\ pc[s] = "candidates"
    /\ todo' = [todo EXCEPT ![s] = Live(FpOf[s]) \cap V2]
    /\ Goto(s, "probe")
    /\ UNCHANGED <<probed, link, regVars, closing, toClose, listed,
                   retire, evicting>>

\* One probe: an open on c fails with ErrRemoteGoAway, and c is retired, only
\* if c is not retired yet, open, and its agent has sent GoAway.  Any other
\* result is ignored, and GoAway itself is missed while opens on c are blocked.
Probe(s, c) ==
    /\ pc[s] = "probe"
    /\ c \in todo[s]
    /\ \/ /\ retire[c] = "no" /\ link[c] = "goaway"
          /\ retire' = [retire EXCEPT ![c] = "marked"]
          /\ Goto(s, "retiring")
          /\ UNCHANGED todo
       \/ /\ todo' = [todo EXCEPT ![s] = @ \ {c}]
          /\ UNCHANGED <<pc, retire>>
    /\ UNCHANGED <<probed, link, regVars, closing, toClose, listed,
                   evicting>>

\* Edge.retire has returned to the prober (see RetireTake).
Probed(s) ==
    /\ pc[s] = "retiring"
    /\ \E c \in todo[s] :
         /\ retire[c] = "done"
         /\ todo' = [todo EXCEPT ![s] = @ \ {c}]
    /\ Goto(s, "probe")
    /\ UNCHANGED <<probed, link, regVars, closing, toClose, listed,
                   retire, evicting>>

\* The second half of duplicateAfterProbe: ask again.  Before the ping a
\* duplicate is refused; after a refused registration the newcomer is either
\* unlisted and refused or registers once more.
Recheck(s) ==
    /\ pc[s] = "probe"
    /\ todo[s] = {}
    /\ pool' = Pruned(FpOf[s])
    /\ IF Duplicate(FpOf[s])
       THEN Goto(s, IF probed[s] = "pre" THEN "close" ELSE "unlist")
       ELSE Goto(s, IF probed[s] = "pre" THEN "ping" ELSE "register")
    /\ UNCHANGED <<probed, todo, link, all, wasJoined, joined, pending,
                   closing, toClose, listed, retire, evicting>>

\* Session.Ping, then AddAgent: the session is listed before it is pooled.
\* A ping of an open session may fail too, by its timeout.
Ping(s) ==
    /\ pc[s] = "ping"
    /\ \/ /\ s \in open
          /\ Goto(s, "register")
          /\ listed' = listed \cup {s}
       \/ /\ Goto(s, "close")
          /\ UNCHANGED listed
    /\ UNCHANGED <<probed, todo, link, regVars, closing, toClose, retire,
                   evicting>>

\* registerConn.  A duplicate that has not probed yet probes and, when that
\* helped, registers again; any other refusal is final.
Register(s) ==
    LET result == Registration(s) IN
    /\ pc[s] = "register"
    /\ RegisterConn(s, result)
    /\ IF result = "refusedDuplicate" /\ probed[s] = "no"
       THEN /\ Goto(s, "candidates")
            /\ probed' = [probed EXCEPT ![s] = "post"]
       ELSE /\ Goto(s, IF result = "registered" THEN "serving" ELSE "unlist")
            /\ UNCHANGED probed
    /\ UNCHANGED <<todo, link, closing, toClose, listed, retire, evicting>>

\* AgentDisconnected of a refused session ...
Unlist(s) ==
    /\ pc[s] = "unlist"
    /\ listed' = listed \ {s}
    /\ Goto(s, "close")
    /\ UNCHANGED <<probed, todo, link, regVars, closing, toClose,
                   retire, evicting>>

\* ... which is then closed.
CloseRefused(s) ==
    /\ pc[s] = "close"
    /\ Close(s)
    /\ Goto(s, "refused")
    /\ UNCHANGED <<probed, todo, regVars, closing, toClose, listed,
                   retire, evicting>>

\* Mutant: a session that ends stays listed.
DisconnectedStaysListed(s) ==
    /\ pc[s] = "serving"
    /\ s \notin open
    /\ Goto(s, "left")
    /\ UNCHANGED <<probed, todo, link, regVars, closing, toClose, listed,
                   retire, evicting>>

\* <-session.CloseChan(), AgentDisconnected
Disconnected(s) ==
    /\ pc[s] = "serving"
    /\ s \notin open
    /\ listed' = listed \ {s}
    /\ Goto(s, "left")
    /\ UNCHANGED <<probed, todo, link, regVars, closing, toClose,
                   retire, evicting>>

\* Mutant: drop always gives back a connecting slot.
DropUnpends(s) ==
    /\ pc[s] \in {"left", "refused"}
    /\ Goto(s, "done")
    /\ pool' = pool \ {s} /\ all' = all \ {s} /\ wasJoined' = wasJoined \ {s}
    /\ pending' = Decrement(pending, FpOf[s])
    /\ UNCHANGED <<joined, probed, todo, link, closing, toClose, listed,
                   retire, evicting>>

\* The deferred registry.drop.
Drop(s) ==
    LET fp == FpOf[s] IN
    /\ pc[s] \in {"left", "refused"}
    /\ Goto(s, "done")
    /\ probed' = [probed EXCEPT ![s] = "no"]  \* a local of serveAgent
    /\ IF s \in all
       THEN /\ pool' = pool \ {s}
            /\ all' = all \ {s}
            /\ wasJoined' = wasJoined \ {s}
            /\ IF s \in wasJoined
               THEN joined' = Decrement(joined, fp) /\ UNCHANGED pending
               ELSE pending' = Decrement(pending, fp) /\ UNCHANGED joined
       ELSE UNCHANGED regVars
    /\ UNCHANGED <<todo, link, closing, toClose, listed,
                   retire, evicting>>

ServeAgent(s) ==
    \/ Track(s) \/ Precheck(s) \/ Candidates(s) \/ Probed(s) \/ Recheck(s)
    \/ Ping(s) \/ Register(s) \/ Unlist(s) \/ CloseRefused(s)
    \/ Disconnected(s) \/ Drop(s)
    \/ \E c \in Session : Probe(s, c)

(***************************************************************************)
(* Everyone else.  Requests, and the session's own control stream, know a  *)
(* session from the moment it was pooled.  Retiring or evicting one that   *)
(* has been dropped changes nothing any more (NothingLeftBehind).          *)
(***************************************************************************)
Known(c) == pc[c] \in {"serving", "left"}

\* Edge.retire marks c, for its agent's drain request or because an open on
\* it reported GoAway.  Whoever marked it goes on to take it out of the pool.
RetireMark(c) ==
    /\ Known(c) /\ c \in V2
    /\ retire[c] = "no"
    /\ retire' = [retire EXCEPT ![c] = "marked"]
    /\ UNCHANGED <<serveVars, link, regVars, closing, toClose, listed,
                   evicting>>

\* registry.take, then SetDraining: status lists c as draining.
RetireTake(c) ==
    /\ retire[c] = "marked"
    /\ pool' = pool \ {c}
    /\ retire' = [retire EXCEPT ![c] = "done"]
    /\ UNCHANGED <<serveVars, link, all, wasJoined, joined, pending, closing,
                   toClose, listed, evicting>>

\* Edge.evict, by a request to which c failed or looked closed: take, then
\* AgentDisconnected and, unless it is closed already, a close in the
\* background.
EvictTake(c) ==
    /\ Known(c) /\ c \notin evicting
    /\ pool' = pool \ {c}
    /\ evicting' = evicting \cup {c}
    /\ UNCHANGED <<serveVars, link, all, wasJoined, joined, pending, closing,
                   toClose, listed, retire>>

EvictUnlist(c) ==
    /\ c \in evicting
    /\ listed' = listed \ {c}
    /\ evicting' = evicting \ {c}
    /\ toClose' = toClose \cup ({c} \cap open)
    /\ UNCHANGED <<serveVars, link, regVars, closing, retire>>

\* Mutant: only the pooled sessions are closed.
CloseAllPooled ==
    /\ ~closing
    /\ closing' = TRUE
    /\ toClose' = toClose \cup pool
    /\ UNCHANGED <<serveVars, link, regVars, listed, retire, evicting>>

\* registry.closeAll: closing and the snapshot in one critical section, then
\* one close per session, outside the lock and in parallel.
CloseAll ==
    /\ ~closing
    /\ closing' = TRUE
    /\ toClose' = toClose \cup all
    /\ UNCHANGED <<serveVars, link, regVars, listed, retire, evicting>>

\* One of those closes, or evict's.
CloseSession(s) ==
    /\ s \in toClose
    /\ Close(s)
    /\ toClose' = toClose \ {s}
    /\ UNCHANGED <<serveVars, regVars, closing, listed, retire, evicting>>

\* External: an agent announces that it goes away, or its session dies (the
\* agent closes it, the network or the keepalive does).
AgentGoesAway(c) ==
    /\ c \in V2 /\ link[c] = "up"
    /\ link' = [link EXCEPT ![c] = "goaway"]
    /\ UNCHANGED <<serveVars, regVars, closing, toClose, listed, retire,
                   evicting>>

SessionDies(s) ==
    /\ s \in open
    /\ Close(s)
    /\ UNCHANGED <<serveVars, regVars, closing, toClose, listed, retire, evicting>>

(***************************************************************************)
(* The specification.                                                      *)
(***************************************************************************)
Init ==
    /\ pc = [s \in Session |-> "none"]
    /\ link = [s \in Session |-> "closed"] /\ pool = {} /\ all = {} /\ wasJoined = {}
    /\ joined = [fp \in Fingerprint |-> 0]
    /\ pending = [fp \in Fingerprint |-> 0]
    /\ closing = FALSE /\ toClose = {} /\ listed = {}
    /\ retire = [s \in Session |-> "no"]
    /\ probed = [s \in Session |-> "no"]
    /\ todo = [s \in Session |-> {}]
    /\ evicting = {}

Next ==
    \/ CloseAll
    \/ \E s \in Session :
         \/ Handshake(s) \/ ServeAgent(s)
         \/ RetireMark(s) \/ RetireTake(s) \/ EvictTake(s) \/ EvictUnlist(s)
         \/ CloseSession(s) \/ AgentGoesAway(s) \/ SessionDies(s)

Spec == Init /\ [][Next]_vars

\* A goroutine that can run runs; the closes end (yamux bounds them by its
\* write timeout).  Nothing is assumed of agents, requests or shutdown.
Fairness ==
    \A s \in Session :
        /\ WF_vars(ServeAgent(s))
        /\ WF_vars(RetireTake(s)) /\ WF_vars(EvictUnlist(s))
        /\ WF_vars(CloseSession(s))

FairSpec == Spec /\ Fairness
(***************************************************************************)
(* Properties.                                                             *)
(***************************************************************************)
Label == {"none", "track", "precheck", "candidates", "probe", "retiring",
          "ping", "register", "unlist", "close", "refused", "serving", "left",
          "done"}

\* The type of the state: the variables of registry, agentConn and serveAgent.
TypeOK ==
    /\ pc \in [Session -> Label]
    /\ link \in [Session -> {"closed", "up", "goaway"}]
    /\ pool \subseteq Session
    /\ all \subseteq Session /\ wasJoined \subseteq all
    /\ joined \in [Fingerprint -> 0..MaxSharedSessions]
    /\ pending \in [Fingerprint -> 0..MaxSharedSessions]
    /\ closing \in BOOLEAN
    /\ toClose \subseteq Session /\ listed \subseteq Session
    /\ retire \in [Session -> {"no", "marked", "done"}]
    /\ probed \in [Session -> {"no", "pre", "post"}]
    /\ todo \in [Session -> SUBSET Session]
    /\ evicting \subseteq Session

\* registerConn: a fingerprint that may not be shared never has two sessions
\* in the pool, however newcomers, retirements and evictions interleave.
ExclusivePool ==
    \A s, t \in pool : FpOf[s] = FpOf[t] /\ FpOf[s] \notin Shared => s = t

PendingOf(fp) == {s \in all \ wasJoined : FpOf[s] = fp}
JoinedOf(fp) == {s \in wasJoined : FpOf[s] = fp}

\* track, registerConn and drop: the two counters of a fingerprint are the
\* numbers of its tracked sessions that have not, and that have, joined.
CountersExact ==
    \A fp \in Fingerprint :
        /\ pending[fp] = Cardinality(PendingOf(fp))
        /\ joined[fp] = Cardinality(JoinedOf(fp))

\* Every pooled session is tracked and counted as joined, so that shutdown
\* closes it and its slot is given back by its own drop.
PooledIsTracked == pool \subseteq wasJoined

\* serveAgent lists a session before pooling it and evict takes it out of the
\* pool before unlisting it: a live pooled session is listed, ...
PooledIsListed == pool \cap open \subseteq listed

\* ... and a session whose serveAgent has returned is closed and left nowhere:
\* not pooled, not tracked, not listed.
NothingLeftBehind ==
    \A s \in Session :
        pc[s] = "done" => s \notin open \cup pool \cup all \cup listed

\* retire: once it has taken a session out of the pool the session never
\* comes back.
RetiredStaysOut == \A s \in pool : retire[s] \in {"no", "marked"}

\* registerConn, drop and the newcomers' checks never take a live session of
\* another agent out of the pool: only retire and evict do.
NoDisplacement ==
    [][\A s \in (pool \cap open) \ pool' :
          \/ retire[s] = "marked" /\ retire'[s] = "done"
          \/ s \in evicting' \ evicting]_vars

\* closeAll: from then on no session is tracked or pooled.
ClosingAdmitsNone == [][closing => pool' \subseteq pool /\ all' \subseteq all]_vars

\* closeAll: every session, one that was just being set up included, is closed
\* and its serveAgent returns.
ShutdownCompletes ==
    closing ~> (open = {} /\ all = {} /\ listed = {})

\* A session that dies is dropped, so that its slot and its fingerprint are
\* free again, whatever its serveAgent was doing.
DeadIsDropped ==
    \A s \in Session :
        (s \in all /\ s \notin open) ~> (s \notin all /\ s \notin pool)

\* Every session ends in order, in a shutdown and on its own.
SessionsEnd == ShutdownCompletes /\ DeadIsDropped

Serving == pool \cap open
Left == (wasJoined \ Serving) \cup {s \in Session : pc[s] = "done"}
Abstract == INSTANCE AgentPool
              WITH serving <- Serving, left <- Left, shut <- closing

\* The registry implements AgentPool: the agents that serve are the pooled
\* sessions that are still open, and one that has been pooled and is not in
\* that set any more has left.
ImplementsAgentPool == Abstract!Spec
=============================================================================

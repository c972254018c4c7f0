------------------------------ MODULE Dispatch ------------------------------
(***************************************************************************)
(* Handing a request to one of a route's agents (internal/edge/edge.go,    *)
(* dispatch, dispatchOnce, pickReserve, untried, tryAgent), with requests  *)
(* running concurrently and sessions joining, draining and dying meanwhile.*)
(*                                                                         *)
(* A request goes through rounds.  A round lists the live sessions and     *)
(* tries them one at a time: reserve, open a stream, wait for the agent to *)
(* accept it (version 2), send the head.  A failure before the head was    *)
(* sent moves on to the next session; afterwards nothing is retried.  When *)
(* no agent could take it the request waits for a session to join, and     *)
(* starts another round.                                                   *)
(*                                                                         *)
(* Registry and StreamOpen model how a session is pooled, retired and      *)
(* opened in detail; here each of those is one step.  A cooldown is on or  *)
(* off; Cooldown models the timestamp.  All sessions have one shared       *)
(* certificate, so the candidates are in the order they joined.  The       *)
(* requests are for routes that all these sessions serve.                  *)
(***************************************************************************)
EXTENDS Balance, SequencesExt

CONSTANTS
    Session,        \* agent sessions
    Request,
    RouteOf,        \* the route a request is for
    RoundRobin,     \* routes with balance: round_robin; the rest: least_conn
    V2,             \* sessions that confirm each stream with an accept byte
    AgentWait,      \* TRUE: agent_wait is configured
    MaxRetries,     \* bound: agentRetry timers a request lives through
    Turns           \* a rotation is kept modulo this many turns

(* turn is only ever used modulo the number of candidates considered.      *)
ASSUME DispatchAssumption ==
    /\ IsFiniteSet(Session) /\ IsFiniteSet(Request)
    /\ RoundRobin \subseteq Range(RouteOf) /\ DOMAIN RouteOf = Request
    /\ V2 \subseteq Session
    /\ AgentWait \in BOOLEAN
    /\ MaxRetries \in Nat
    /\ Turns \in Nat \ {0}
    /\ \A n \in 1..Cardinality(Session) : Turns % n = 0

VARIABLES
    pool,           \* the pooled sessions, in the order they joined
    link,           \* each session: "absent", "up", "goaway", "closed"
    retired,        \* sessions retired to drain
    cooling,        \* sessions kept out of picks after a failure
    active,         \* streams open or being set up on each session
    rr              \* the rotation of each route

VARIABLES           \* of each request
    oversized,      \* those whose preamble cannot be encoded (a huge Host)
    pc,             \* where its dispatch is
    woken,          \* the joins channel it took has been closed
    round,          \* the locals of its dispatchOnce
    at,             \* the session being attempted or serving it, as a set
    waited,         \* agent_wait: "no", "left", "over"
    retries,        \* agentRetry timers so far
    holder,         \* history: the sessions whose agent may run it
    answer,         \* "none", "ok", "noAgent", "failed"
    failures        \* failures counted on the route for it

edge == <<pool, link, retired, cooling, active, rr>>
vars == <<pool, link, retired, cooling, active, rr, oversized, pc, woken, round, at, waited,
          retries, holder, answer, failures>>

(* cands: the sessions listed; tried: those attempted; turn: its turn in   *)
(* the rotation; broken: an attempt failed, rather than found the agent    *)
(* unavailable; late: it ended by its deadline.                            *)
NewRound(list, t) ==
    [cands |-> list, tried |-> {}, turn |-> t, broken |-> FALSE, late |-> FALSE]
NoRound == NewRound(<<>>, 0)

Set(f, r, v) == [f EXCEPT ![r] = v]
Goto(r, l) == pc' = Set(pc, r, l)

Init ==
    /\ pool = <<>>
    /\ link = [c \in Session |-> "absent"]
    /\ retired = {}
    /\ cooling = {}
    /\ active = [c \in Session |-> 0]
    /\ rr = [e \in Range(RouteOf) |-> 0]
    /\ oversized \in SUBSET Request
    /\ pc = [r \in Request |-> "start"]
    /\ woken = [r \in Request |-> FALSE]
    /\ round = [r \in Request |-> NoRound]
    /\ at = [r \in Request |-> {}]
    /\ waited = [r \in Request |-> "no"]
    /\ retries = [r \in Request |-> 0]
    /\ holder = [r \in Request |-> {}]
    /\ answer = [r \in Request |-> "none"]
    /\ failures = [r \in Request |-> 0]

-----------------------------------------------------------------------------
(* The pool: candidates and untried evict what they find closed. *)

Up(c) == link[c] # "closed"
LivePool == SelectSeq(pool, Up)
Untried(asked) == SelectSeq(pool, LAMBDA c : Up(c) /\ c \notin asked)
Without(s, c) == SelectSeq(s, LAMBDA d : d # c)
PruneDead == pool' = LivePool

-----------------------------------------------------------------------------
(* Answers.  Each is the end of dispatch, with the failures it counts. *)

Answer(r, a, n) ==
    /\ answer' = Set(answer, r, a)
    /\ failures' = Set(failures, r, failures[r] + n)
    /\ round' = Set(round, r, NoRound)
    /\ woken' = Set(woken, r, FALSE)

(* No agent for it in the round rd.  The wait starts with the first such   *)
(* round, and may have run out meanwhile; then the request is refused.     *)
NoAgent(r, rd) ==
    \E w \in CASE waited[r] = "no"   -> {IF AgentWait THEN "left" ELSE "over"}
               [] waited[r] = "left" -> {"left", "over"}
               [] waited[r] = "over" -> {"over"} :
        /\ waited' = Set(waited, r, w)
        /\ IF w = "left"
           THEN /\ Goto(r, "wait")
                /\ round' = Set(round, r, [NoRound EXCEPT !.tried = rd.tried, !.late = rd.late])
                /\ UNCHANGED <<woken, answer, failures>>
           ELSE Goto(r, "done") /\ Answer(r, "noAgent", 1)

(* Out of sessions or out of time. *)
RoundEnds(r, timeout) ==
    IF round[r].broken
    THEN Goto(r, "done") /\ Answer(r, "failed", 1) /\ UNCHANGED waited
    ELSE NoAgent(r, [round[r] EXCEPT !.late = timeout])

-----------------------------------------------------------------------------
(* A round of dispatch. *)

(* The joins channel is taken before looking. *)
Start(r) ==
    /\ pc[r] = "start"
    /\ woken' = Set(woken, r, FALSE)
    /\ Goto(r, "look")
    /\ UNCHANGED <<edge, round, at, waited, retries, holder, answer, failures>>

(* dispatchOnce up to its loop: list the live sessions and take a turn. *)
Look(r) ==
    /\ pc[r] = "look"
    /\ PruneDead
    /\ CASE LivePool = <<>> ->
               NoAgent(r, NoRound) /\ UNCHANGED rr
         [] LivePool # <<>> /\ r \in oversized ->
               Goto(r, "done") /\ Answer(r, "failed", 1) /\ UNCHANGED <<rr, waited>>
         [] OTHER ->
               /\ round' = Set(round, r, NewRound(LivePool, rr[RouteOf[r]]))
               /\ rr' = Set(rr, RouteOf[r], (rr[RouteOf[r]] + 1) % Turns)
               /\ Goto(r, "pick")
               /\ UNCHANGED <<woken, waited, answer, failures>>
    /\ UNCHANGED <<link, retired, cooling, active, at, retries, holder>>

PickOf(r) ==
    Pick(RouteOf[r] \in RoundRobin, round[r].cands, round[r].tried, cooling, active, round[r].turn)

(* pickReserve chose a session: its stream is counted, and when it was the *)
(* last one listed, sessions that joined since are added to the list.      *)
Reserve(r) ==
    /\ pc[r] = "pick"
    /\ \E c \in PickOf(r) :
        LET rd == round[r]
            now == rd.tried \cup {c}
            last == c \notin cooling /\ rd.tried # {} /\ ToSet(rd.cands) \subseteq now
        IN  /\ at' = Set(at, r, {c})
            /\ active' = Set(active, c, active[c] + 1)
            /\ round' = Set(round, r, [rd EXCEPT
                          !.tried = now,
                          !.cands = IF last THEN rd.cands \o Untried(now) ELSE rd.cands])
            /\ IF last THEN PruneDead ELSE UNCHANGED pool
    /\ Goto(r, "open")
    /\ UNCHANGED <<link, retired, cooling, rr, woken, waited, retries, holder, answer, failures>>

(* Every listed session was tried: go on with those that joined since.     *)
Exhausted(r) ==
    /\ pc[r] = "pick"
    /\ PickOf(r) = {}
    /\ PruneDead
    /\ LET fresh == Untried(round[r].tried)
       IN  IF fresh # <<>>
           THEN /\ round' = Set(round, r, [round[r] EXCEPT !.cands = fresh])
                /\ UNCHANGED <<pc, woken, waited, answer, failures>>
           ELSE RoundEnds(r, FALSE)
    /\ UNCHANGED <<link, retired, cooling, active, rr, at, retries, holder>>

(* Twice acceptWait has passed since the round began. *)
Deadline(r) ==
    /\ pc[r] = "pick"
    /\ round[r].tried # {}
    /\ RoundEnds(r, TRUE)
    /\ UNCHANGED <<edge, at, retries, holder>>

-----------------------------------------------------------------------------
(* tryAgent.  A failed attempt releases its reservation, and retires,      *)
(* evicts or cools down the session.                                       *)

Evict(c) ==
    /\ pool' = Without(pool, c)
    /\ link' = Set(link, c, "closed")
    /\ UNCHANGED <<retired, cooling>>

Retire(c) ==
    /\ pool' = Without(pool, c)
    /\ retired' = retired \cup {c}
    /\ UNCHANGED <<link, cooling>>

Cool(c) ==
    /\ cooling' = cooling \cup {c}
    /\ UNCHANGED <<pool, link, retired>>

Nothing == UNCHANGED <<pool, link, retired, cooling>>

Release(r, c) ==
    /\ active' = Set(active, c, active[c] - 1)
    /\ at' = Set(at, r, {})

(* Mutant: the failed attempt keeps its reservation. *)
UnavailableKeeps(r, c) ==
    /\ at' = Set(at, r, {})
    /\ Goto(r, "pick")
    /\ UNCHANGED <<active, round, woken, holder, answer, failures>>

(* attemptUnavailable: nothing reached the agent. *)
Unavailable(r, c) ==
    /\ Release(r, c)
    /\ Goto(r, "pick")
    /\ UNCHANGED <<round, woken, holder, answer, failures>>

(* attemptFailed: the session failed before the request reached it. *)
Failed(r, c) ==
    /\ Release(r, c)
    /\ Goto(r, "pick")
    /\ round' = Set(round, r, [round[r] EXCEPT !.broken = TRUE])
    /\ UNCHANGED <<woken, holder, answer, failures>>

(* Mutant: the request is tried elsewhere. *)
UnknownRetries(r, c) ==
    /\ Release(r, c)
    /\ \E h \in SUBSET {c} : holder' = Set(holder, r, holder[r] \cup h)
    /\ Goto(r, "pick")
    /\ UNCHANGED <<round, woken, answer, failures>>

(* attemptUnknown: the agent may have the request, so it is not retried.   *)
Unknown(r, c) ==
    /\ Release(r, c)
    /\ \E h \in SUBSET {c} : holder' = Set(holder, r, holder[r] \cup h)
    /\ Goto(r, "done")
    /\ Answer(r, "failed", 1)

(* attemptOK: the agent has the request, and its session is back in normal *)
(* picks unless a concurrent failure keeps it out (see Cooldown).          *)
Served(r, c) ==
    /\ holder' = Set(holder, r, holder[r] \cup {c})
    /\ Goto(r, "serving")
    /\ Answer(r, "ok", 0)
    /\ \E k \in SUBSET {c} : cooling' = cooling \ k
    /\ UNCHANGED <<pool, link, retired, active, at>>

Attempting(r, c, step) ==
    /\ pc[r] = step
    /\ at[r] = {c}
    /\ UNCHANGED <<rr, waited, retries>>

Advance(r, step) ==
    /\ Goto(r, step)
    /\ UNCHANGED <<pool, link, retired, cooling, active, at, round, woken, holder, answer, failures>>

(* openUnlessRetired, and what each of its errors leads to. *)
Open(r, c) ==
    /\ Attempting(r, c, "open")
    /\ CASE c \in retired \/ link[c] = "goaway" -> Unavailable(r, c) /\ Retire(c)
         [] c \notin retired /\ link[c] = "closed" -> Unavailable(r, c) /\ Evict(c)
         [] OTHER ->
              \/ Advance(r, IF c \in V2 THEN "accept" ELSE "preamble")
              \/ Failed(r, c) /\ Cool(c)     \* errOpenTimeout, errOpenBlocked
              \/ Failed(r, c) /\ Evict(c)    \* streams exhausted, a write timeout

(* Version 2: AwaitAccept. *)
AwaitAccept(r, c) ==
    /\ Attempting(r, c, "accept")
    /\ IF ~Up(c) THEN Unavailable(r, c) /\ Evict(c)
       ELSE \/ Advance(r, "send")
            \/ Unavailable(r, c) /\ Cool(c)     \* ErrRefused
            \/ Failed(r, c) /\ Evict(c)         \* ErrBadAccept
            \/ Failed(r, c) /\ (Cool(c) \/ Nothing)   \* no answer in time

(* Version 2: preamble and head are sent once the agent has accepted. *)
SendHead(r, c) ==
    /\ Attempting(r, c, "send")
    /\ IF ~Up(c) THEN Unknown(r, c) /\ Evict(c)
       ELSE \/ Served(r, c)
            \/ Unknown(r, c) /\ Cool(c)

(* Version 1: the preamble goes at once, the head through the pipe. *)
WritePreamble(r, c) ==
    /\ Attempting(r, c, "preamble")
    /\ IF ~Up(c) THEN Unavailable(r, c) /\ Evict(c)
       ELSE \/ Served(r, c)
            \/ Unavailable(r, c) /\ Cool(c)     \* streamRefused
            \/ Failed(r, c) /\ Cool(c)

(* The caller is done with the stream. *)
StreamClosed(r) ==
    /\ pc[r] = "serving"
    /\ \E c \in at[r] : Release(r, c)
    /\ Goto(r, "done")
    /\ UNCHANGED <<pool, link, retired, cooling, rr, woken, round, waited, retries, holder, answer,
                   failures>>

-----------------------------------------------------------------------------
(* Waiting for an agent. *)

NewRoundStarts(r) ==
    /\ pc[r] = "wait"
    /\ Goto(r, "start")
    /\ round' = Set(round, r, NoRound)
    /\ UNCHANGED <<edge, woken, at, holder, answer, failures>>

Joined(r) ==
    /\ woken[r]
    /\ NewRoundStarts(r)
    /\ UNCHANGED <<waited, retries>>

(* Mutant: the wait never runs out. *)
RetryTimerForever(r) ==
    /\ NewRoundStarts(r)
    /\ retries[r] < MaxRetries
    /\ retries' = Set(retries, r, retries[r] + 1)
    /\ UNCHANGED waited

(* The agentRetry timer, or the rest of the wait: a last round then. *)
RetryTimer(r) ==
    /\ NewRoundStarts(r)
    /\ \/ /\ retries[r] < MaxRetries
          /\ retries' = Set(retries, r, retries[r] + 1)
          /\ UNCHANGED waited
       \/ /\ waited' = Set(waited, r, "over")
          /\ UNCHANGED retries

(* The client is gone, or the edge is stopping. *)
WaitCut(r) ==
    /\ pc[r] = "wait"
    /\ Goto(r, "done")
    /\ Answer(r, "noAgent", 1)
    /\ UNCHANGED <<edge, at, waited, retries, holder>>

-----------------------------------------------------------------------------
(* The sessions, as Registry moves them. *)

Environment == UNCHANGED <<active, rr, pc, round, at, waited, retries, holder, answer, failures>>

(* Mutant: joinedCh is not closed. *)
JoinSilent(c) ==
    /\ link[c] = "absent"
    /\ link' = Set(link, c, "up")
    /\ pool' = Append(pool, c)
    /\ UNCHANGED <<retired, cooling, woken>>
    /\ Environment

(* registerConn: a session joins, and wakes what waits. *)
Join(c) ==
    /\ link[c] = "absent"
    /\ link' = Set(link, c, "up")
    /\ pool' = Append(pool, c)
    /\ woken' = [r \in Request |-> woken[r] \/ pc[r] \notin {"start", "serving", "done"}]
    /\ UNCHANGED <<retired, cooling>>
    /\ Environment

(* retireForDrain, at the agent's request. *)
Drain(c) ==
    /\ link[c] = "up" /\ c \notin retired
    /\ Retire(c)
    /\ UNCHANGED woken
    /\ Environment

(* The agent refuses new streams; the edge finds out at its next open. *)
AgentGoesAway(c) ==
    /\ link[c] = "up"
    /\ link' = Set(link, c, "goaway")
    /\ UNCHANGED <<pool, retired, cooling, woken>>
    /\ Environment

SessionDies(c) ==
    /\ link[c] \in {"up", "goaway"}
    /\ link' = Set(link, c, "closed")
    /\ UNCHANGED <<pool, retired, cooling, woken>>
    /\ Environment

(* serveAgent's drop of a closed session. *)
Drop(c) ==
    /\ link[c] = "closed" /\ c \in ToSet(pool)
    /\ pool' = Without(pool, c)
    /\ UNCHANGED <<link, retired, cooling, woken>>
    /\ Environment

CoolEnds(c) ==
    /\ c \in cooling
    /\ cooling' = cooling \ {c}
    /\ UNCHANGED <<pool, link, retired, woken>>
    /\ Environment

RequestStep(r) ==
    \/ Start(r) \/ Look(r) \/ Reserve(r) \/ Exhausted(r)
    \/ \E c \in Session : Open(r, c) \/ AwaitAccept(r, c) \/ SendHead(r, c) \/ WritePreamble(r, c)
    \/ Joined(r) \/ RetryTimer(r)

SessionStep(c) ==
    Join(c) \/ Drain(c) \/ AgentGoesAway(c) \/ SessionDies(c) \/ Drop(c) \/ CoolEnds(c)

Next ==
    /\ UNCHANGED oversized
    /\ \/ \E r \in Request : RequestStep(r) \/ Deadline(r) \/ WaitCut(r) \/ StreamClosed(r)
       \/ \E c \in Session : SessionStep(c)

Spec == Init /\ [][Next]_vars

(* A goroutine that can go on does; a timer that runs fires.  Nothing is   *)
(* assumed of the deadline, the client, or the sessions.                   *)
FairSpec == Spec /\ \A r \in Request : WF_vars(RequestStep(r) /\ UNCHANGED oversized)

-----------------------------------------------------------------------------

(* The type of the state; no session is pooled twice. *)
TypeOK ==
    /\ pool \in Seq(Session) /\ \A i, j \in 1..Len(pool) : i # j => pool[i] # pool[j]
    /\ link \in [Session -> {"absent", "up", "goaway", "closed"}]
    /\ retired \subseteq Session /\ cooling \subseteq Session
    /\ active \in [Session -> 0..Cardinality(Request)]
    /\ rr \in [Range(RouteOf) -> 0..Turns-1]
    /\ pc \in [Request -> {"start", "look", "pick", "open", "accept", "send", "preamble",
                           "serving", "wait", "done"}]
    /\ oversized \subseteq Request
    /\ woken \in [Request -> BOOLEAN]
    /\ \A r \in Request :
        /\ round[r].cands \in Seq(Session)
        /\ round[r].tried \subseteq Session
        /\ round[r].turn \in 0..Turns-1
        /\ round[r].broken \in BOOLEAN /\ round[r].late \in BOOLEAN
        /\ at[r] \subseteq Session /\ Cardinality(at[r]) <= 1
        /\ waited[r] \in {"no", "left", "over"}
        /\ retries[r] \in 0..MaxRetries
        /\ holder[r] \subseteq Session
        /\ answer[r] \in {"none", "ok", "noAgent", "failed"}
        /\ failures[r] \in Nat

Abstract == INSTANCE Delivery

(***************************************************************************)
(* dispatch is at-most-once: through every failover, retry and wait, and   *)
(* whatever the sessions do, it behaves as Delivery: while a request may   *)
(* still be tried on another agent no agent has it, one agent gets it at   *)
(* most, and "no agent" is only ever answered for a request nobody has.    *)
(***************************************************************************)
ImplementsDelivery == Abstract!Spec

(***************************************************************************)
(* The accounts of dispatch are exact.  A session's stream count is the    *)
(* number of requests being set up or served on it, so no failed attempt   *)
(* leaves a count behind that would steer least_conn away from the         *)
(* session.  A refused request is counted as one failure of its route and  *)
(* a served one as none, whichever of dispatch and dispatchOnce counts it. *)
(***************************************************************************)
AccountsExact ==
    /\ \A c \in Session : active[c] = Cardinality({ r \in Request : c \in at[r] })
    /\ \A r \in Request : failures[r] = IF answer[r] \in {"noAgent", "failed"} THEN 1 ELSE 0

(***************************************************************************)
(* No join is missed: a request asleep with a joins channel that is still  *)
(* open has already tried every live session of the pool, unless its round *)
(* ran into the deadline.  (And the state has its type.)                   *)
(***************************************************************************)
JoinNotMissed ==
    /\ TypeOK
    /\ \A r \in Request :
        (pc[r] = "wait" /\ ~woken[r] /\ ~round[r].late)
            => ToSet(LivePool) \subseteq round[r].tried

(***************************************************************************)
(* Every request is answered: the rounds end (each attempt uses up a       *)
(* session), and so does the wait.  The deadline is not needed for it.     *)
(***************************************************************************)
EveryRequestAnswered ==
    \A r \in Request : <>(answer[r] # "none")
=============================================================================

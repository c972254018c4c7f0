------------------------------- MODULE H3Pool -------------------------------
(***************************************************************************)
(* The tunnel streams of a route with a connection cap, over HTTP/3 and    *)
(* TCP (internal/edge/h3pool.go, limit.go; routeSlot, slotFromKept,        *)
(* openH3Stream, serveHTTP3 and h3Exchange of http3.go; tcpRouteSlot of    *)
(* edge.go).                                                               *)
(*                                                                         *)
(* Every open stream holds a slot of the route's cap.  After an exchange a *)
(* stream is kept idle for its HTTP/3 connection's next request, with a    *)
(* goroutine reading from it to notice that the service ended it.  A       *)
(* request without a stream needs a slot: a free one, else that of a kept  *)
(* stream, else it waits, and meanwhile streams that finish are not kept.  *)
(*                                                                         *)
(* What runs under h3Pool.mu is one step, and so is each access to the     *)
(* semaphore, to slotWaiters and to the agent's retired flag.              *)
(***************************************************************************)
EXTENDS Integers, FiniteSets, SequencesExt

CONSTANTS
    Request,        \* HTTP/3 requests, and TCP connections
    Tcp,            \* those of them that are TCP connections
    Conn,           \* HTTP/3 connections
    ConnOf,         \* the connection each request came on
    Agent,          \* agent sessions
    Stream,         \* tunnel streams (bound: how many are ever opened)
    Cap,            \* the route's max_connections
    MaxKeptPerConn

ASSUME H3PoolAssumption ==
    /\ Tcp \subseteq Request
    /\ ConnOf \in [Request -> Conn]
    /\ Cap \in Nat \ {0}
    /\ MaxKeptPerConn \in Nat

VARIABLES
    slots,          \* slots of the cap in use (the semaphore)
    waiters,        \* slotWaiters
    kept,           \* each connection's idle streams, the latest last
    connClosed,     \* connections that have ended (connStreams.closed)
    poolClosed,     \* h3Pool.closed
    retired,        \* agents marked retired
    swept,          \* agents whose closeAgent has run
    dead,           \* agents whose session has closed
    doomed          \* streams taken out of the pool that are about to be closed

VARIABLES           \* of each stream
    open,           \* opened and not closed yet
    owner,          \* its connection
    agent,          \* its agent
    reading,        \* its watcher: "none", "read", "quiet", "ended", "done"
    live            \* what the watcher found: taken with nothing read

VARIABLES           \* of each request
    pc,
    ts,             \* the stream it works with, as a set
    reuse           \* it may take a kept stream

vars == <<slots, waiters, kept, connClosed, poolClosed, retired, swept, dead, doomed,
          open, owner, agent, reading, live, pc, ts, reuse>>
stream == <<owner, agent, reading, live>>
closers == <<connClosed, poolClosed, retired, swept, dead>>

Set(f, x, v) == [f EXCEPT ![x] = v]
Goto(r, l) == pc' = Set(pc, r, l)
Kept == UNION { ToSet(kept[c]) : c \in Conn }

Init ==
    /\ slots = 0
    /\ waiters = 0
    /\ kept = [c \in Conn |-> <<>>]
    /\ connClosed = {}
    /\ poolClosed = FALSE
    /\ retired = {}
    /\ swept = {}
    /\ dead = {}
    /\ doomed = {}
    /\ open = {}
    /\ owner = <<>>
    /\ agent = <<>>
    /\ reading = [s \in Stream |-> "none"]
    /\ live = [s \in Stream |-> FALSE]
    /\ pc = [r \in Request |-> "new"]
    /\ ts = [r \in Request |-> {}]
    /\ reuse = [r \in Request |-> FALSE]

(* tunnelStream.close: whoever comes first releases what the stream holds. *)
Close(s) ==
    /\ open' = open \ {s}
    /\ slots' = IF s \in open THEN slots - 1 ELSE slots

(* removeLocked. *)
Unkeep(gone) ==
    kept' = [c \in Conn |-> SelectSeq(kept[c], LAMBDA s : s \notin gone)]

-----------------------------------------------------------------------------
(* A request arrives.  Only one that could be sent again takes a kept      *)
(* stream; a WebSocket never does.  Requests refused before this (no       *)
(* route, malformed, kept off HTTP/3) hold nothing, and are left out.      *)
Begin(r) ==
    /\ pc[r] = "new"
    /\ IF r \in Tcp THEN Goto(r, "slot") /\ UNCHANGED reuse
       ELSE \E b \in BOOLEAN :
               /\ reuse' = Set(reuse, r, b)
               /\ Goto(r, IF b THEN "take" ELSE "slot")
    /\ UNCHANGED <<slots, waiters, kept, closers, doomed, open, stream, ts>>

(* h3Pool.take, under the lock: the most recently used stream. *)
Take(r) ==
    LET mine == kept[ConnOf[r]]
    IN  /\ pc[r] = "take"
        /\ IF mine = <<>>
           THEN Goto(r, "slot") /\ UNCHANGED <<kept, ts>>
           ELSE /\ ts' = Set(ts, r, {Last(mine)})
                /\ Unkeep({Last(mine)})
                /\ Goto(r, "taking")
        /\ UNCHANGED <<slots, waiters, closers, doomed, open, stream, reuse>>

(* Mutant: what the watcher found is not looked at. *)
TakenBlindly(r) ==
    /\ pc[r] = "taking"
    /\ \E s \in ts[r] : reading[s] = "done"
    /\ Goto(r, "resend")
    /\ UNCHANGED <<slots, waiters, kept, closers, doomed, open, stream, ts, reuse>>

(* ... and once its watcher has returned: use it, or close it and look on. *)
Taken(r) ==
    /\ pc[r] = "taking"
    /\ \E s \in ts[r] :
        /\ reading[s] = "done"
        /\ IF live[s] /\ agent[s] \notin dead \cup retired
           THEN Goto(r, "resend") /\ UNCHANGED <<open, slots, ts>>
           ELSE Goto(r, "take") /\ Close(s) /\ ts' = Set(ts, r, {})
    /\ UNCHANGED <<waiters, kept, closers, doomed, stream, reuse>>

-----------------------------------------------------------------------------
(* routeSlot and tcpRouteSlot. *)

TryAcquire(r) ==
    /\ pc[r] = "slot"
    /\ IF slots < Cap
       THEN slots' = slots + 1 /\ Goto(r, "dispatch")
       ELSE Goto(r, "full") /\ UNCHANGED slots
    /\ UNCHANGED <<waiters, kept, closers, doomed, open, stream, ts, reuse>>

CountIn(r) ==
    /\ pc[r] = "full"
    /\ waiters' = waiters + 1
    /\ Goto(r, "evict")
    /\ UNCHANGED <<slots, kept, closers, doomed, open, stream, ts, reuse>>

(* evictRoute picks a victim; without one an HTTP/3 request waits and a    *)
(* TCP connection is refused.                                              *)
EvictRoute(r) ==
    /\ pc[r] = "evict"
    /\ IF Kept = {}
       THEN /\ IF r \in Tcp THEN waiters' = waiters - 1 /\ Goto(r, "done")
               ELSE UNCHANGED waiters /\ Goto(r, "wait")
            /\ UNCHANGED <<kept, ts>>
       ELSE /\ \E s \in Kept : Unkeep({s}) /\ ts' = Set(ts, r, {s})
            /\ Goto(r, "victim")
            /\ UNCHANGED waiters
    /\ UNCHANGED <<slots, closers, doomed, open, stream, reuse>>

CloseVictim(r) ==
    /\ pc[r] = "victim"
    /\ \E s \in ts[r] : Close(s)
    /\ ts' = Set(ts, r, {})
    /\ Goto(r, "again")
    /\ UNCHANGED <<waiters, kept, closers, doomed, stream, reuse>>

AcquireAgain(r) ==
    /\ pc[r] = "again"
    /\ IF slots < Cap
       THEN slots' = slots + 1 /\ waiters' = waiters - 1 /\ Goto(r, "dispatch")
       ELSE Goto(r, "evict") /\ UNCHANGED <<slots, waiters>>
    /\ UNCHANGED <<kept, closers, doomed, open, stream, ts, reuse>>

Acquire(r) ==
    /\ pc[r] = "wait"
    /\ slots < Cap
    /\ slots' = slots + 1
    /\ waiters' = waiters - 1
    /\ Goto(r, "dispatch")
    /\ UNCHANGED <<kept, closers, doomed, open, stream, ts, reuse>>

(* The wait ran out, or the client gave up. *)
WaitEnds(r) ==
    /\ pc[r] = "wait"
    /\ waiters' = waiters - 1
    /\ Goto(r, "done")
    /\ UNCHANGED <<slots, kept, closers, doomed, open, stream, ts, reuse>>

-----------------------------------------------------------------------------
(* The exchange. *)

(* dispatch opens a stream on an agent (see Dispatch), or refuses and the  *)
(* slot is given back.  A TCP connection holds its slot until it ends.     *)
Dispatch(r) ==
    /\ pc[r] = "dispatch"
    /\ \/ /\ slots' = slots - 1
          /\ Goto(r, "done")
          /\ UNCHANGED <<open, owner, agent, ts>>
       \/ /\ r \in Tcp
          /\ Goto(r, "tcp")
          /\ UNCHANGED <<slots, open, owner, agent, ts>>
       \/ /\ r \notin Tcp
          /\ \E a \in Agent \ (dead \cup retired), s \in Stream \ DOMAIN owner :
                /\ open' = open \cup {s}
                /\ owner' = [t \in DOMAIN owner \cup {s} |-> IF t = s THEN ConnOf[r] ELSE owner[t]]
                /\ agent' = [t \in DOMAIN agent \cup {s} |-> IF t = s THEN a ELSE agent[t]]
                /\ ts' = Set(ts, r, {s})
          /\ Goto(r, "exchange")
          /\ UNCHANGED slots
    /\ UNCHANGED <<waiters, kept, closers, doomed, reading, live, reuse>>

TcpEnds(r) ==
    /\ pc[r] = "tcp"
    /\ slots' = slots - 1
    /\ Goto(r, "done")
    /\ UNCHANGED <<waiters, kept, closers, doomed, open, stream, ts, reuse>>

(* On a kept stream: it had closed just as the request went out, and the   *)
(* request is sent again on a fresh one, or it works.                      *)
Resend(r) ==
    /\ pc[r] = "resend"
    /\ \/ Goto(r, "exchange") /\ UNCHANGED <<open, slots, ts, reuse>>
       \/ /\ \E s \in ts[r] : Close(s)
          /\ ts' = Set(ts, r, {})
          /\ reuse' = Set(reuse, r, FALSE)
          /\ Goto(r, "slot")
    /\ UNCHANGED <<waiters, kept, closers, doomed, stream>>

(* Mutant: the stream is closed without what it holds. *)
ExchangeLeaks(r) ==
    /\ pc[r] = "exchange"
    /\ open' = open \ ts[r]
    /\ ts' = Set(ts, r, {})
    /\ Goto(r, "done")
    /\ UNCHANGED <<slots, waiters, kept, closers, doomed, stream, reuse>>

(* The exchange ends uncleanly (or the stream cannot carry another). *)
ExchangeCloses(r) ==
    /\ pc[r] = "exchange"
    /\ \E s \in ts[r] : Close(s)
    /\ ts' = Set(ts, r, {})
    /\ Goto(r, "done")
    /\ UNCHANGED <<waiters, kept, closers, doomed, stream, reuse>>

(* When put does not keep a stream, and mutants that leave out a part. *)
ClosesRegardlessOfWaiters(c, s) ==
    \/ poolClosed \/ c \in connClosed
    \/ Len(kept[c]) >= MaxKeptPerConn
    \/ agent[s] \in retired

NotKept(c, s) ==
    \/ poolClosed \/ c \in connClosed
    \/ Len(kept[c]) >= MaxKeptPerConn
    \/ waiters > 0
    \/ agent[s] \in retired

(* h3Pool.put: keep the stream and start its watcher, or close it. *)
Put(r) ==
    LET c == ConnOf[r] IN
    /\ pc[r] = "exchange"
    /\ \E s \in ts[r] :
        IF NotKept(c, s)
        THEN doomed' = doomed \cup {s} /\ UNCHANGED <<kept, reading, live>>
        ELSE /\ kept' = Set(kept, c, Append(kept[c], s))
             /\ reading' = Set(reading, s, "read")
             /\ live' = Set(live, s, FALSE)
             /\ UNCHANGED doomed
    /\ ts' = Set(ts, r, {})
    /\ Goto(r, "done")
    /\ UNCHANGED <<slots, waiters, closers, open, owner, agent, reuse>>

-----------------------------------------------------------------------------
(* The watcher of a kept stream. *)

(* Mutant: the read has no deadline, and ends only with the stream. *)
ReadUntimed(s) ==
    /\ reading[s] = "read"
    /\ s \notin open
    /\ reading' = Set(reading, s, "ended")
    /\ UNCHANGED <<slots, waiters, kept, closers, doomed, open, owner, agent, live, pc, ts, reuse>>

(* Its read returns: the service ended the connection or sent something,   *)
(* or the stream was closed; or the read deadline passed, which is the     *)
(* keep time running out or take ending it.                                *)
ReadReturns(s) ==
    /\ reading[s] = "read"
    /\ \/ reading' = Set(reading, s, "ended")
       \/ s \in open /\ reading' = Set(reading, s, "quiet")
    /\ UNCHANGED <<slots, waiters, kept, closers, doomed, open, owner, agent, live, pc, ts, reuse>>

(* Under the lock: taken meanwhile, or dropped from the pool now. *)
WatchEnds(s) ==
    /\ reading[s] \in {"quiet", "ended"}
    /\ live' = Set(live, s, s \notin Kept /\ reading[s] = "quiet")
    /\ Unkeep({s})
    /\ doomed' = IF s \in Kept THEN doomed \cup {s} ELSE doomed
    /\ reading' = Set(reading, s, "done")
    /\ UNCHANGED <<slots, waiters, closers, open, owner, agent, pc, ts, reuse>>

(* closeIdle, or the close that follows put and watch. *)
CloseDoomed(s) ==
    /\ s \in doomed
    /\ Close(s)
    /\ doomed' = doomed \ {s}
    /\ UNCHANGED <<waiters, kept, closers, stream, pc, ts, reuse>>

-----------------------------------------------------------------------------
(* What empties the pool. *)

Sweep(gone) ==
    /\ Unkeep(gone)
    /\ doomed' = doomed \cup gone
    /\ UNCHANGED <<slots, waiters, dead, open, stream, pc, ts, reuse>>

CloseConn(c) ==
    /\ c \notin connClosed
    /\ connClosed' = connClosed \cup {c}
    /\ Sweep(ToSet(kept[c]))
    /\ UNCHANGED <<poolClosed, retired, swept>>

CloseAll ==
    /\ ~poolClosed
    /\ poolClosed' = TRUE
    /\ Sweep(Kept)
    /\ UNCHANGED <<connClosed, retired, swept>>

(* Edge.retire marks the agent first and closes its idle streams next. *)
RetireMarks(a) ==
    /\ a \notin retired
    /\ retired' = retired \cup {a}
    /\ UNCHANGED <<slots, waiters, kept, connClosed, poolClosed, swept, dead, doomed, open, stream,
                   pc, ts, reuse>>

CloseAgent(a) ==
    /\ a \in retired \ swept
    /\ swept' = swept \cup {a}
    /\ Sweep({ s \in Kept : agent[s] = a })
    /\ UNCHANGED <<connClosed, poolClosed, retired>>

AgentDies(a) ==
    /\ a \notin dead
    /\ dead' = dead \cup {a}
    /\ UNCHANGED <<slots, waiters, kept, connClosed, poolClosed, retired, swept, doomed, open,
                   stream, pc, ts, reuse>>

RequestStep(r) ==
    \/ Begin(r) \/ Take(r) \/ Taken(r)
    \/ TryAcquire(r) \/ CountIn(r) \/ EvictRoute(r) \/ CloseVictim(r) \/ AcquireAgain(r) \/ Acquire(r)
    \/ Dispatch(r) \/ Resend(r)

StreamStep(s) == ReadReturns(s) \/ WatchEnds(s) \/ CloseDoomed(s)

Next ==
    \/ \E r \in Request : RequestStep(r) \/ WaitEnds(r) \/ TcpEnds(r) \/ ExchangeCloses(r) \/ Put(r)
    \/ \E s \in Stream : StreamStep(s)
    \/ \E c \in Conn : CloseConn(c)
    \/ CloseAll
    \/ \E a \in Agent : RetireMarks(a) \/ CloseAgent(a) \/ AgentDies(a)

Spec == Init /\ [][Next]_vars

(* Goroutines that can go on do, and a read deadline that was set passes.  *)
(* Nothing is assumed of how long an exchange or a TCP connection takes.   *)
FairSpec ==
    /\ Spec
    /\ \A r \in Request : WF_vars(RequestStep(r))
    /\ \A s \in Stream : WF_vars(StreamStep(s))
    /\ \A a \in Agent : WF_vars(CloseAgent(a))

-----------------------------------------------------------------------------

(* The type of the state of the pool, its streams and their requests. *)
TypeOK ==
    /\ slots \in 0..Cap
    /\ waiters \in 0..Cardinality(Request)
    /\ kept \in [Conn -> Seq(Stream)] /\ \A c \in Conn : Len(kept[c]) <= MaxKeptPerConn
    /\ connClosed \subseteq Conn /\ poolClosed \in BOOLEAN
    /\ swept \subseteq retired /\ retired \subseteq Agent /\ dead \subseteq Agent
    /\ doomed \subseteq Stream
    /\ owner \in [DOMAIN owner -> Conn] /\ agent \in [DOMAIN owner -> Agent]
    /\ open \subseteq DOMAIN owner /\ DOMAIN owner \subseteq Stream
    /\ reading \in [Stream -> {"none", "read", "quiet", "ended", "done"}]
    /\ live \in [Stream -> BOOLEAN]
    /\ pc \in [Request -> {"new", "take", "taking", "slot", "full", "evict", "victim", "again",
                           "wait", "dispatch", "tcp", "resend", "exchange", "done"}]
    /\ \A r \in Request : ts[r] \subseteq Stream /\ Cardinality(ts[r]) <= 1
    /\ reuse \in [Request -> BOOLEAN]

Keepers(s) ==
    Cardinality({ r \in Request : s \in ts[r] }) + Cardinality({ c \in Conn : s \in ToSet(kept[c]) })
        + (IF s \in doomed THEN 1 ELSE 0)

(***************************************************************************)
(* The cap's slots are held exactly by the streams that are open, kept     *)
(* ones included, and by the requests between their slot and their stream: *)
(* none leaks, and none is released twice, which on a Go channel used as a *)
(* semaphore would block the releasing goroutine for good.  An open stream *)
(* has one keeper, who will close it: the request using it, its            *)
(* connection's pool, or the goroutine about to close it.                  *)
(***************************************************************************)
SlotsExact ==
    /\ TypeOK
    /\ slots = Cardinality(open) + Cardinality({ r \in Request : pc[r] \in {"dispatch", "tcp"} })
    /\ \A s \in open : Keepers(s) = 1

(***************************************************************************)
(* "A stream is never shared between HTTP/3 connections", and one used     *)
(* again has lost no byte to its watcher, which has stopped reading.       *)
(***************************************************************************)
ReusedIsClean ==
    \A r \in Request : \A s \in ts[r] :
        pc[r] \in {"resend", "exchange"} =>
            /\ owner[s] = ConnOf[r]
            /\ reading[s] = "none" \/ (reading[s] = "done" /\ live[s])

(***************************************************************************)
(* No idle stream is kept where it is in the way: none at all while a      *)
(* request waits for a slot or the edge drains, and none on an agent whose *)
(* retirement has swept the pool or on a connection that ended, however    *)
(* puts, takes and sweeps interleave.                                      *)
(***************************************************************************)
NothingKeptInTheWay ==
    /\ poolClosed \/ (\E r \in Request : pc[r] = "wait") => Kept = {}
    /\ \A s \in Kept : agent[s] \notin swept /\ owner[s] \notin connClosed

IdleOn(a) ==
    { s \in open : agent[s] = a
                   /\ ~\E r \in Request : s \in ts[r] /\ pc[r] \in {"resend", "exchange"} }

(***************************************************************************)
(* Idle streams do not hold up a drain: once an agent is retired, every    *)
(* stream on it that no exchange uses is eventually closed.                *)
(***************************************************************************)
DrainNotHeldUp == \A a \in Agent : (a \in retired) ~> (IdleOn(a) = {})
=============================================================================

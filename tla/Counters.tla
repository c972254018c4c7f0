------------------------------ MODULE Counters ------------------------------
(***************************************************************************)
(* The live counters behind `coen status` and the metrics endpoint         *)
(* (internal/obs/state.go, routes.go): streams open and close, the tunnel  *)
(* connects and disconnects, and a scrape reads everything, with no lock   *)
(* between them.  Every atomic access is a step.                           *)
(*                                                                         *)
(* One route is enough: routes share nothing but the global counters,      *)
(* which every stream goes through.  A peer's fingerprint and the time it  *)
(* connected are the number of the connection, 0 for unset.                *)
(***************************************************************************)
EXTENDS Integers, FiniteSets

CONSTANTS
    Stream,         \* streams open at a time
    MaxOpens,       \* bound: streams opened
    MaxConnects     \* bound: connections

ASSUME CountersAssumption ==
    /\ IsFiniteSet(Stream)
    /\ MaxOpens \in Nat
    /\ MaxConnects \in Nat

VARIABLES
    route,          \* RouteStats: active, total, totalH3
    global,         \* State: activeStreams, totalStreams, maxStreams
    at,             \* where each stream's goroutine is
    h3,             \* whether its stream is for HTTP/3
    n, seen,        \* the locals of its streamOpened: n, m
    peak            \* history: the most activeStreams ever was

VARIABLES
    tunnel,         \* State: connected, peerFP, connectedNano
    conn,           \* where SetConnected or SetDisconnected is, and the
                    \* number of the connection
    scrape,         \* where Detail is
    snap,           \* what it has read
    cleared         \* history: a disconnect began since it read connected

streamVars == <<route, global, at, h3, n, seen, peak>>
countVars == <<route, global, at, h3, n, seen, peak, tunnel, conn, scrape, snap, cleared>>

NoSnap == [h3 |-> 0, total |-> 0, connected |-> FALSE, fp |-> 0, since |-> 0]

CountInit ==
    /\ route = [active |-> 0, total |-> 0, totalH3 |-> 0]
    /\ global = [active |-> 0, total |-> 0, max |-> 0]
    /\ at = [s \in Stream |-> "closed"]
    /\ h3 = [s \in Stream |-> FALSE]
    /\ n = [s \in Stream |-> 0] /\ seen = [s \in Stream |-> 0]
    /\ peak = 0
    /\ tunnel = [connected |-> FALSE, fp |-> 0, nano |-> 0]
    /\ conn = [step |-> "down", number |-> 0]
    /\ scrape = "idle" /\ snap = NoSnap /\ cleared = FALSE

-----------------------------------------------------------------------------
(* A stream.  streamOpened: the route first... *)
Move(s, from, to) == at[s] = from /\ at' = [at EXCEPT ![s] = to]

RouteActive(s) ==
    /\ route.total < MaxOpens
    /\ Move(s, "closed", "active")
    /\ route' = [route EXCEPT !.active = @ + 1]
    /\ \E b \in BOOLEAN : h3' = [h3 EXCEPT ![s] = b]
    /\ UNCHANGED <<global, n, seen, peak>>

RouteTotal(s) ==
    /\ Move(s, "active", "totalH3")
    /\ route' = [route EXCEPT !.total = @ + 1]
    /\ UNCHANGED <<global, h3, n, seen, peak>>

RouteTotalH3(s) ==
    /\ Move(s, "totalH3", "global")
    /\ route' = [route EXCEPT !.totalH3 = @ + (IF h3[s] THEN 1 ELSE 0)]
    /\ UNCHANGED <<global, h3, n, seen, peak>>

(* ...then the whole, and the high-water mark. *)
GlobalActive(s) ==
    /\ Move(s, "global", "total")
    /\ global' = [global EXCEPT !.active = @ + 1]
    /\ n' = [n EXCEPT ![s] = global.active + 1]
    /\ peak' = IF global.active + 1 > peak THEN global.active + 1 ELSE peak
    /\ UNCHANGED <<route, h3, seen>>

GlobalTotal(s) ==
    /\ Move(s, "total", "load")
    /\ global' = [global EXCEPT !.total = @ + 1]
    /\ UNCHANGED <<route, h3, n, seen, peak>>

LoadMax(s) ==
    /\ Move(s, "load", IF n[s] <= global.max THEN "open" ELSE "swap")
    /\ seen' = [seen EXCEPT ![s] = IF n[s] <= global.max THEN 0 ELSE global.max]
    /\ n' = [n EXCEPT ![s] = IF n[s] <= global.max THEN 0 ELSE @]
    /\ UNCHANGED <<route, global, h3, peak>>

(* Mutant: a plain store. *)
SwapMaxStores(s) ==
    /\ Move(s, "swap", "open")
    /\ global' = [global EXCEPT !.max = n[s]]
    /\ n' = [n EXCEPT ![s] = 0] /\ seen' = [seen EXCEPT ![s] = 0]
    /\ UNCHANGED <<route, h3, peak>>

SwapMax(s) ==
    /\ IF global.max = seen[s]
       THEN /\ Move(s, "swap", "open")
            /\ global' = [global EXCEPT !.max = n[s]]
            /\ n' = [n EXCEPT ![s] = 0] /\ seen' = [seen EXCEPT ![s] = 0]
       ELSE Move(s, "swap", "load") /\ UNCHANGED <<global, n, seen>>
    /\ UNCHANGED <<route, h3, peak>>

(* StreamClosed *)
RouteClosed(s) ==
    /\ Move(s, "open", "closing")
    /\ route' = [route EXCEPT !.active = @ - 1]
    /\ h3' = [h3 EXCEPT ![s] = FALSE]
    /\ UNCHANGED <<global, n, seen, peak>>

GlobalClosed(s) ==
    /\ Move(s, "closing", "closed")
    /\ global' = [global EXCEPT !.active = @ - 1]
    /\ UNCHANGED <<route, h3, n, seen, peak>>

StreamStep ==
    /\ \E s \in Stream :
        \/ RouteActive(s) \/ RouteTotal(s) \/ RouteTotalH3(s)
        \/ GlobalActive(s) \/ GlobalTotal(s) \/ LoadMax(s) \/ SwapMax(s)
        \/ RouteClosed(s) \/ GlobalClosed(s)
    /\ UNCHANGED <<tunnel, conn, scrape, snap, cleared>>

-----------------------------------------------------------------------------
(* The agent's session loop: SetConnected and SetDisconnected in turn. *)
Turned(from, to) == conn.step = from /\ conn' = [conn EXCEPT !.step = to]

StoreNano ==
    /\ conn.step = "down" /\ conn.number < MaxConnects
    /\ conn' = [step |-> "nano", number |-> conn.number + 1]
    /\ tunnel' = [tunnel EXCEPT !.nano = conn.number + 1]
    /\ UNCHANGED cleared

StoreFP ==
    /\ Turned("nano", "fp")
    /\ tunnel' = [tunnel EXCEPT !.fp = conn.number]
    /\ UNCHANGED cleared

StoreConnected ==
    /\ Turned("fp", "up")
    /\ tunnel' = [tunnel EXCEPT !.connected = TRUE]
    /\ UNCHANGED cleared

ClearConnected ==
    /\ Turned("up", "clearing")
    /\ tunnel' = [tunnel EXCEPT !.connected = FALSE]
    /\ cleared' = (scrape \notin {"idle", "total", "connected"})

ClearFP ==
    /\ Turned("clearing", "down")
    /\ tunnel' = [tunnel EXCEPT !.fp = 0]
    /\ UNCHANGED cleared

TunnelStep ==
    /\ StoreNano \/ StoreFP \/ StoreConnected \/ ClearConnected \/ ClearFP
    /\ UNCHANGED <<streamVars, scrape, snap>>

-----------------------------------------------------------------------------
(* Detail: routeSnapshots, then snapshot.  The other counters it reads     *)
(* stand alone.                                                            *)
Reads(from, to) == scrape = from /\ scrape' = to

ReadH3 ==
    /\ Reads("idle", "total")
    /\ snap' = [NoSnap EXCEPT !.h3 = route.totalH3]
    /\ cleared' = FALSE

ReadTotal ==
    /\ Reads("total", "connected")
    /\ snap' = [snap EXCEPT !.total = route.total]
    /\ UNCHANGED cleared

ReadConnected ==
    /\ Reads("connected", "fp")
    /\ snap' = [snap EXCEPT !.connected = tunnel.connected]
    /\ cleared' = FALSE

ReadFP ==
    /\ Reads("fp", "since")
    /\ snap' = [snap EXCEPT !.fp = tunnel.fp]
    /\ UNCHANGED cleared

ReadSince ==
    /\ Reads("since", "read")
    /\ snap' = [snap EXCEPT !.since = IF snap.connected THEN tunnel.nano ELSE 0]
    /\ UNCHANGED cleared

Reported ==
    /\ Reads("read", "idle")
    /\ snap' = NoSnap
    /\ cleared' = FALSE

ScrapeStep ==
    /\ ReadH3 \/ ReadTotal \/ ReadConnected \/ ReadFP \/ ReadSince \/ Reported
    /\ UNCHANGED <<streamVars, tunnel, conn>>

CountNext == StreamStep \/ TunnelStep \/ ScrapeStep

CountSpec == CountInit /\ [][CountNext]_countVars

-----------------------------------------------------------------------------
(***************************************************************************)
(* A scrape makes sense whatever it interleaves with: "a snapshot never    *)
(* sees more HTTP/3 streams than streams", and one that reports the tunnel *)
(* connected has the time it connected, and, unless it disconnects while   *)
(* the scrape is reading, the fingerprint of the same connection ("never   *)
(* observes connected=true with a not-yet-written since (epoch) or fp").   *)
(***************************************************************************)
SnapshotSound ==
    scrape = "read" =>
        /\ snap.h3 <= snap.total
        /\ snap.connected =>
            /\ snap.since > 0
            /\ ~cleared => snap.fp > 0 /\ snap.fp = snap.since

(***************************************************************************)
(* With no stream being opened or closed, the route's and the global view  *)
(* agree ("the two views cannot drift apart"), and max_streams is the most *)
(* streams that were ever open at a time, whatever the order concurrent    *)
(* openings raised it in.                                                  *)
(***************************************************************************)
PeakExact ==
    (\A s \in Stream : at[s] \in {"open", "closed"}) =>
        /\ route.active = global.active /\ route.total = global.total
        /\ global.active = Cardinality({ s \in Stream : at[s] = "open" })
        /\ global.max = peak

(* Both: what a scrape reports, and what it converges to. *)
CountersSound == SnapshotSound /\ PeakExact
=============================================================================

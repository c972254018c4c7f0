--------------------------- MODULE CountersProofs ---------------------------
(***************************************************************************)
(* The live counters for any number of streams, openings and connections,  *)
(* with streams, tunnel and scrape all interleaved.                        *)
(*                                                                         *)
(* Each counter is the number of streams between two points of their way.  *)
(* The high-water mark lags behind the peak only while a stream that has   *)
(* reached the peak is still on its way to raise it.                       *)
(***************************************************************************)
EXTENDS Counters, FiniteSetTheorems, TLAPS

Steps == {"closed", "active", "totalH3", "global", "total", "load", "swap", "open", "closing"}

\* The streams at one of the points P.
In(P) == { s \in Stream : at[s] \in P }

RouteHeld == {"active", "totalH3", "global", "total", "load", "swap", "open"}
GlobalHeld == {"total", "load", "swap", "open", "closing"}
Uncounted == {"totalH3", "global", "total"}
Raising == {"total", "load", "swap"}

Types ==
    /\ at \in [Stream -> Steps]
    /\ route \in [active : Int, total : Int, totalH3 : Int]
    /\ global \in [active : Int, total : Int, max : Int]
    /\ h3 \in [Stream -> BOOLEAN]
    /\ n \in [Stream -> Int] /\ seen \in [Stream -> Int]
    /\ peak \in Int

Counted ==
    /\ route.active = Cardinality(In(RouteHeld))
    /\ global.active = Cardinality(In(GlobalHeld))
    /\ route.total = global.total + Cardinality(In(Uncounted))
    /\ route.totalH3 + Cardinality(In({"totalH3"})) <= route.total

Raised ==
    /\ global.max <= peak
    /\ \A s \in Stream : at[s] \in Raising => n[s] <= peak
    /\ \A s \in Stream : at[s] = "swap" => seen[s] < n[s]
    /\ global.max = peak \/ \E s \in Stream : at[s] \in Raising /\ n[s] = peak

\* The tunnel's fields, and what a scrape has read of them and of the route.
Scraped ==
    /\ conn \in [step : {"down", "nano", "fp", "up", "clearing"}, number : Nat]
    /\ tunnel \in [connected : BOOLEAN, fp : Nat, nano : Nat]
    /\ scrape \in {"idle", "total", "connected", "fp", "since", "read"}
    /\ snap \in [h3 : Int, total : Int, connected : BOOLEAN, fp : Nat, since : Nat]
    /\ cleared \in BOOLEAN
    /\ tunnel.nano = conn.number
    /\ conn.step # "down" => conn.number > 0
    /\ conn.step \in {"fp", "up", "clearing"} => tunnel.fp = conn.number
    /\ tunnel.connected => conn.step = "up"
    /\ scrape = "total" => snap.h3 <= route.totalH3
    /\ scrape \in {"connected", "fp", "since", "read"} => snap.h3 <= snap.total
    /\ scrape \in {"fp", "since", "read"} /\ snap.connected =>
        conn.number > 0 /\ (cleared \/ conn.step = "up")
    /\ scrape \in {"since", "read"} /\ snap.connected => cleared \/ snap.fp = conn.number
    /\ scrape = "read" /\ snap.connected =>
        snap.since > 0 /\ (cleared \/ snap.since = conn.number)

Inv == Types /\ Counted /\ Raised /\ Scraped

USE CountersAssumption

LEMMA InFinite == \A P : IsFiniteSet(In(P)) /\ Cardinality(In(P)) \in Nat
BY FS_Subset, FS_CardinalityType DEF In

\* A stream that moves is one more where it arrives and one less where it was.
LEMMA MoveCounts ==
  ASSUME at \in [Stream -> Steps], NEW s \in Stream, NEW from, NEW to, Move(s, from, to), NEW P
  PROVE  Cardinality(In(P)') = Cardinality(In(P)) + (IF to \in P THEN 1 ELSE 0)
                                                  - (IF from \in P THEN 1 ELSE 0)
<1>0. Cardinality(In(P)) \in Nat
  BY InFinite
<1>1. at[s] = from /\ at'[s] = to /\ \A q \in Stream \ {s} : at'[q] = at[q]
  BY DEF Move
<1>2. CASE (from \in P) <=> (to \in P)
  <2>1. In(P)' = In(P)
    BY <1>1, <1>2 DEF In
  <2> QED  BY <1>0, <1>2, <2>1
<1>3. CASE from \notin P /\ to \in P
  <2>1. In(P)' = In(P) \cup {s} /\ s \notin In(P)
    BY <1>1, <1>3 DEF In
  <2>2. Cardinality(In(P)') = Cardinality(In(P)) + 1
    BY <2>1, InFinite, FS_AddElement
  <2> QED  BY <1>0, <1>3, <2>2
<1>4. CASE from \in P /\ to \notin P
  <2>1. In(P)' = In(P) \ {s} /\ s \in In(P)
    BY <1>1, <1>4 DEF In
  <2>2. Cardinality(In(P)') = Cardinality(In(P)) - 1
    BY <2>1, InFinite, FS_RemoveElement
  <2> QED  BY <1>0, <1>4, <2>2
<1> QED  BY <1>2, <1>3, <1>4

\* Every way a stream's goroutine goes on.
Goes(s) ==
    \/ RouteActive(s) \/ RouteTotal(s) \/ RouteTotalH3(s)
    \/ GlobalActive(s) \/ GlobalTotal(s) \/ LoadMax(s) \/ SwapMax(s)
    \/ RouteClosed(s) \/ GlobalClosed(s)

LEMMA CountedKept ==
  ASSUME Types, Counted, NEW s \in Stream, Goes(s)
  PROVE  Counted'
<1> DEFINE A == Cardinality(In(RouteHeld))
           B == Cardinality(In(GlobalHeld))
           C == Cardinality(In(Uncounted))
           D == Cardinality(In({"totalH3"}))
<1> USE DEF RouteHeld, GlobalHeld, Uncounted
<1>0. /\ A \in Nat /\ B \in Nat /\ C \in Nat /\ D \in Nat
      /\ route.active = A /\ global.active = B /\ route.total = global.total + C
      /\ route.totalH3 + D <= route.total
      /\ route \in [active : Int, total : Int, totalH3 : Int]
      /\ global \in [active : Int, total : Int, max : Int]
  BY InFinite DEF Types, Counted
<1>1. SUFFICES /\ route'.active = A' /\ global'.active = B'
               /\ route'.total = global'.total + C' /\ route'.totalH3 + D' <= route'.total
  BY DEF Counted
<1>2. ASSUME NEW from, NEW to, Move(s, from, to)
      PROVE  /\ A' = A + (IF to \in RouteHeld THEN 1 ELSE 0) - (IF from \in RouteHeld THEN 1 ELSE 0)
             /\ B' = B + (IF to \in GlobalHeld THEN 1 ELSE 0) - (IF from \in GlobalHeld THEN 1 ELSE 0)
             /\ C' = C + (IF to \in Uncounted THEN 1 ELSE 0) - (IF from \in Uncounted THEN 1 ELSE 0)
             /\ D' = D + (IF to = "totalH3" THEN 1 ELSE 0) - (IF from = "totalH3" THEN 1 ELSE 0)
  <2>1. \A P : Cardinality(In(P)') = Cardinality(In(P)) + (IF to \in P THEN 1 ELSE 0)
                                                        - (IF from \in P THEN 1 ELSE 0)
    BY <1>2, MoveCounts DEF Types
  <2>2. to \in {"totalH3"} <=> to = "totalH3"
    OBVIOUS
  <2>3. from \in {"totalH3"} <=> from = "totalH3"
    OBVIOUS
  <2> HIDE DEF RouteHeld, GlobalHeld, Uncounted
  <2> QED  BY <2>1, <2>2, <2>3
<1> HIDE DEF A, B, C, D
<1>3. CASE RouteActive(s)
  <2>1. A' = A + 1 /\ B' = B /\ C' = C /\ D' = D
    BY <1>0, <1>3, <1>2 DEF RouteActive
  <2> QED  BY <1>0, <1>3, <2>1 DEF RouteActive
<1>4. CASE RouteTotal(s)
  <2>1. A' = A /\ B' = B /\ C' = C + 1 /\ D' = D + 1
    BY <1>0, <1>4, <1>2 DEF RouteTotal
  <2> QED  BY <1>0, <1>4, <2>1 DEF RouteTotal
<1>5. CASE RouteTotalH3(s)
  <2>1. A' = A /\ B' = B /\ C' = C /\ D' = D - 1
    BY <1>0, <1>5, <1>2 DEF RouteTotalH3
  <2> QED  BY <1>0, <1>5, <2>1 DEF RouteTotalH3
<1>6. CASE GlobalActive(s)
  <2>1. A' = A /\ B' = B + 1 /\ C' = C /\ D' = D
    BY <1>0, <1>6, <1>2 DEF GlobalActive
  <2> QED  BY <1>0, <1>6, <2>1 DEF GlobalActive
<1>7. CASE GlobalTotal(s)
  <2>1. A' = A /\ B' = B /\ C' = C - 1 /\ D' = D
    BY <1>0, <1>7, <1>2 DEF GlobalTotal
  <2> QED  BY <1>0, <1>7, <2>1 DEF GlobalTotal
<1>8. CASE LoadMax(s)
  <2>1. PICK to \in {"open", "swap"} : Move(s, "load", to)
    BY <1>8 DEF LoadMax
  <2>2. A' = A /\ B' = B /\ C' = C /\ D' = D
    BY <1>0, <2>1, <1>2
  <2> QED  BY <1>0, <1>8, <2>2 DEF LoadMax
<1>9. CASE SwapMax(s)
  <2>1. PICK to \in {"open", "load"} : Move(s, "swap", to)
    BY <1>9 DEF SwapMax
  <2>2. A' = A /\ B' = B /\ C' = C /\ D' = D
    BY <1>0, <2>1, <1>2
  <2>3. route' = route /\ global'.active = global.active /\ global'.total = global.total
    BY <1>0, <1>9 DEF SwapMax
  <2> QED  BY <1>0, <2>2, <2>3
<1>10. CASE RouteClosed(s)
  <2>1. A' = A - 1 /\ B' = B /\ C' = C /\ D' = D
    BY <1>0, <1>10, <1>2 DEF RouteClosed
  <2> QED  BY <1>0, <1>10, <2>1 DEF RouteClosed
<1>11. CASE GlobalClosed(s)
  <2>1. A' = A /\ B' = B - 1 /\ C' = C /\ D' = D
    BY <1>0, <1>11, <1>2 DEF GlobalClosed
  <2> QED  BY <1>0, <1>11, <2>1 DEF GlobalClosed
<1> QED  BY <1>3, <1>4, <1>5, <1>6, <1>7, <1>8, <1>9, <1>10, <1>11 DEF Goes

LEMMA TypesKept ==
  ASSUME Types, NEW s \in Stream, Goes(s)
  PROVE  Types'
<1>1. at' \in [Stream -> Steps]
  BY DEF Goes, RouteActive, RouteTotal, RouteTotalH3, GlobalActive, GlobalTotal, LoadMax, SwapMax,
         RouteClosed, GlobalClosed, Move, Types, Steps
<1>2. route' \in [active : Int, total : Int, totalH3 : Int]
  BY DEF Goes, RouteActive, RouteTotal, RouteTotalH3, GlobalActive, GlobalTotal, LoadMax, SwapMax,
         RouteClosed, GlobalClosed, Types
<1>3. global' \in [active : Int, total : Int, max : Int] /\ peak' \in Int
  BY DEF Goes, RouteActive, RouteTotal, RouteTotalH3, GlobalActive, GlobalTotal, LoadMax, SwapMax,
         RouteClosed, GlobalClosed, Types
<1>4. h3' \in [Stream -> BOOLEAN]
  BY DEF Goes, RouteActive, RouteTotal, RouteTotalH3, GlobalActive, GlobalTotal, LoadMax, SwapMax,
         RouteClosed, GlobalClosed, Types
<1>5. n' \in [Stream -> Int] /\ seen' \in [Stream -> Int]
  BY DEF Goes, RouteActive, RouteTotal, RouteTotalH3, GlobalActive, GlobalTotal, LoadMax, SwapMax,
         RouteClosed, GlobalClosed, Types
<1> QED  BY <1>1, <1>2, <1>3, <1>4, <1>5 DEF Types

LEMMA RaisedKept ==
  ASSUME Types, Raised, NEW s \in Stream, Goes(s)
  PROVE  Raised'
<1> USE DEF Raising, Move
<1>1. CASE RouteActive(s) \/ RouteTotal(s) \/ RouteTotalH3(s) \/ RouteClosed(s)
  BY <1>1 DEF RouteActive, RouteTotal, RouteTotalH3, RouteClosed, Types, Raised
<1>2. CASE GlobalActive(s)
  <2>1. peak' >= peak /\ n'[s] <= peak' /\ (peak' # peak => n'[s] = peak') /\ global'.max = global.max
    BY <1>2 DEF GlobalActive, Types
  <2>2. /\ at[s] = "global" /\ at'[s] = "total"
        /\ \A q \in Stream \ {s} : at'[q] = at[q] /\ n'[q] = n[q]
        /\ seen' = seen
    BY <1>2 DEF GlobalActive, Types
  <2>3. peak' \in Int /\ peak \in Int /\ global.max \in Int /\ n \in [Stream -> Int]
    BY <1>2 DEF GlobalActive, Types
  <2>4. global'.max <= peak' /\ \A q \in Stream : at'[q] \in Raising => n'[q] <= peak'
    BY <2>1, <2>2, <2>3 DEF Raised
  <2>5. global'.max = peak' \/ \E q \in Stream : at'[q] \in Raising /\ n'[q] = peak'
    BY <2>1, <2>2 DEF Raised
  <2>6. \A q \in Stream : at'[q] = "swap" => seen'[q] < n'[q]
    BY <2>2 DEF Raised
  <2> QED  BY <2>4, <2>5, <2>6 DEF Raised
<1>3. CASE GlobalTotal(s) \/ GlobalClosed(s)
  <2>1. global'.max = global.max /\ UNCHANGED <<n, seen, peak>>
    BY <1>3 DEF GlobalTotal, GlobalClosed, Types
  <2>2. (at[s] = "total" /\ at'[s] = "load") \/ (at[s] = "closing" /\ at'[s] = "closed")
    BY <1>3 DEF GlobalTotal, GlobalClosed, Types
  <2>3. \A q \in Stream \ {s} : at'[q] = at[q]
    BY <1>3 DEF GlobalTotal, GlobalClosed, Types
  <2> QED  BY <2>1, <2>2, <2>3 DEF Raised
<1>4. CASE LoadMax(s)
  <2>1. \A q \in Stream \ {s} : at'[q] = at[q] /\ n'[q] = n[q] /\ seen'[q] = seen[q]
    BY <1>4 DEF LoadMax, Types
  <2>2. at[s] = "load" /\ UNCHANGED <<global, peak>>
    BY <1>4 DEF LoadMax
  <2>3. CASE n[s] <= global.max
    <3>1. at'[s] = "open"
      BY <1>4, <2>3 DEF LoadMax, Types
    <3>2. n[s] = peak => global.max = peak
      BY <2>2, <2>3 DEF Raised, Types
    <3> QED  BY <2>1, <2>2, <3>1, <3>2 DEF Raised
  <2>4. CASE ~(n[s] <= global.max)
    <3>1. at'[s] = "swap" /\ n'[s] = n[s] /\ seen'[s] = global.max
      BY <1>4, <2>4 DEF LoadMax, Types
    <3>2. global.max < n[s]
      BY <2>4 DEF Types
    <3> QED  BY <2>1, <2>2, <3>1, <3>2 DEF Raised
  <2> QED  BY <2>3, <2>4
<1>5. CASE SwapMax(s)
  <2>1. \A q \in Stream \ {s} : at'[q] = at[q] /\ n'[q] = n[q] /\ seen'[q] = seen[q]
    BY <1>5 DEF SwapMax, Types
  <2>2. at[s] = "swap" /\ peak' = peak
    BY <1>5 DEF SwapMax
  <2>3. CASE global.max = seen[s]
    <3>1. at'[s] = "open" /\ global'.max = n[s] /\ global.max < n[s] /\ n[s] <= peak
      BY <1>5, <2>2, <2>3 DEF SwapMax, Types, Raised
    <3>2. n[s] = peak \/ \E q \in Stream \ {s} : at[q] \in Raising /\ n[q] = peak
      BY <2>2, <3>1 DEF Raised, Types
    <3> QED  BY <2>1, <2>2, <3>1, <3>2 DEF Raised
  <2>4. CASE global.max # seen[s]
    <3>1. at'[s] = "load" /\ UNCHANGED <<global, n, seen>>
      BY <1>5, <2>4 DEF SwapMax, Types
    <3> QED  BY <2>1, <2>2, <3>1 DEF Raised
  <2> QED  BY <2>3, <2>4
<1> QED  BY <1>1, <1>2, <1>3, <1>4, <1>5 DEF Goes

\* The route's count of HTTP/3 streams only grows, and is within its total.
LEMMA RouteGrows ==
  ASSUME Types, Counted, NEW s \in Stream, Goes(s)
  PROVE  route'.totalH3 >= route.totalH3
BY DEF Goes, RouteActive, RouteTotal, RouteTotalH3, GlobalActive, GlobalTotal, LoadMax, SwapMax,
       RouteClosed, GlobalClosed, Types

LEMMA H3WithinTotal ==
  ASSUME Types, Counted
  PROVE  route.totalH3 <= route.total
<1>1. Cardinality(In({"totalH3"})) \in Nat
  BY InFinite
<1> QED  BY <1>1 DEF Types, Counted

LEMMA SnapTyped ==
  \A k \in Int : [NoSnap EXCEPT !.h3 = k] \in
                   [h3 : Int, total : Int, connected : BOOLEAN, fp : Nat, since : Nat]
<1>1. NoSnap \in [h3 : Int, total : Int, connected : BOOLEAN, fp : Nat, since : Nat]
  BY DEF NoSnap
<1> QED  BY <1>1

LEMMA ScrapedKept ==
  ASSUME Types, Counted, Scraped, [CountNext]_countVars
  PROVE  Scraped'
<1>1. CASE StreamStep
  <2>1. UNCHANGED <<tunnel, conn, scrape, snap, cleared>>
    BY <1>1 DEF StreamStep
  <2>2. PICK s \in Stream : Goes(s)
    BY <1>1 DEF StreamStep, Goes
  <2>3. route'.totalH3 >= route.totalH3 /\ route'.totalH3 \in Int /\ route.totalH3 \in Int
    BY <2>2, RouteGrows, TypesKept DEF Types
  <2> QED  BY <2>1, <2>3 DEF Scraped
<1>2. CASE TunnelStep
  <2>1. UNCHANGED <<route, scrape, snap>>
    BY <1>2 DEF TunnelStep, streamVars
  <2>2. CASE StoreNano
    BY <2>1, <2>2 DEF StoreNano, Scraped
  <2>3. CASE StoreFP
    BY <2>1, <2>3 DEF StoreFP, Turned, Scraped
  <2>4. CASE StoreConnected
    BY <2>1, <2>4 DEF StoreConnected, Turned, Scraped
  <2>5. CASE ClearConnected
    BY <2>1, <2>5 DEF ClearConnected, Turned, Scraped
  <2>6. CASE ClearFP
    BY <2>1, <2>6 DEF ClearFP, Turned, Scraped
  <2> QED  BY <1>2, <2>2, <2>3, <2>4, <2>5, <2>6 DEF TunnelStep
<1>3. CASE ScrapeStep
  <2>1. UNCHANGED <<route, tunnel, conn>>
    BY <1>3 DEF ScrapeStep, streamVars
  <2>2. route.totalH3 \in Int /\ route.total \in Int /\ route.totalH3 <= route.total
    BY H3WithinTotal DEF Types
  <2>3. CASE ReadH3
    <3>1. snap' \in [h3 : Int, total : Int, connected : BOOLEAN, fp : Nat, since : Nat]
      BY <2>2, <2>3, SnapTyped DEF ReadH3
    <3>2. scrape' = "total" /\ cleared' = FALSE
      BY <2>3 DEF ReadH3, Reads
    <3>3. snap'.h3 <= route'.totalH3
      <4>1. snap'.h3 = route.totalH3
        BY <2>3 DEF ReadH3, NoSnap
      <4> QED  BY <2>1, <2>2, <4>1
    <3> QED  BY <2>1, <3>1, <3>2, <3>3 DEF Scraped
  <2>4. CASE ReadTotal
    BY <2>1, <2>2, <2>4 DEF ReadTotal, Reads, Scraped
  <2>5. CASE ReadConnected
    BY <2>1, <2>5 DEF ReadConnected, Reads, Scraped
  <2>6. CASE ReadFP
    BY <2>1, <2>6 DEF ReadFP, Reads, Scraped
  <2>7. CASE ReadSince
    BY <2>1, <2>7 DEF ReadSince, Reads, Scraped
  <2>8. CASE Reported
    <3>1. snap' \in [h3 : Int, total : Int, connected : BOOLEAN, fp : Nat, since : Nat]
      BY <2>8 DEF Reported, NoSnap
    <3>2. scrape' = "idle" /\ cleared' = FALSE
      BY <2>8 DEF Reported, Reads
    <3> QED  BY <2>1, <3>1, <3>2 DEF Scraped
  <2> QED  BY <1>3, <2>3, <2>4, <2>5, <2>6, <2>7, <2>8 DEF ScrapeStep
<1>4. CASE UNCHANGED countVars
  BY <1>4 DEF countVars, Scraped
<1> QED  BY <1>1, <1>2, <1>3, <1>4 DEF CountNext

LEMMA InvInductive == Inv /\ [CountNext]_countVars => Inv'
<1> SUFFICES ASSUME Inv, [CountNext]_countVars PROVE Inv'
  OBVIOUS
<1>1. Scraped'
  BY ScrapedKept DEF Inv
<1>2. CASE StreamStep
  <2>1. PICK s \in Stream : Goes(s)
    BY <1>2 DEF StreamStep, Goes
  <2>2. Types' /\ Raised'
    BY <2>1, TypesKept, RaisedKept DEF Inv
  <2>3. Counted'
    BY <2>1, CountedKept DEF Inv
  <2> QED  BY <1>1, <2>2, <2>3 DEF Inv
<1>3. CASE UNCHANGED streamVars
  BY <1>1, <1>3 DEF streamVars, Inv, Types, Counted, Raised, In
<1> QED  BY <1>2, <1>3 DEF CountNext, TunnelStep, ScrapeStep, countVars, streamVars

LEMMA InvInitially == CountInit => Inv
<1> SUFFICES ASSUME CountInit PROVE Inv
  OBVIOUS
<1>1. Types
  BY DEF CountInit, Types, Steps
<1>2. Counted
  <2>1. /\ In(RouteHeld) = {} /\ In(GlobalHeld) = {} /\ In(Uncounted) = {}
        /\ In({"totalH3"}) = {}
    BY DEF CountInit, In, RouteHeld, GlobalHeld, Uncounted
  <2>2. Cardinality({}) = 0
    BY FS_EmptySet
  <2>3. route = [active |-> 0, total |-> 0, totalH3 |-> 0]
        /\ global = [active |-> 0, total |-> 0, max |-> 0]
    BY DEF CountInit
  <2> QED  BY <2>1, <2>2, <2>3 DEF Counted
<1>3. Raised
  BY DEF CountInit, Raised, Raising
<1>4. Scraped
  <2>1. snap \in [h3 : Int, total : Int, connected : BOOLEAN, fp : Nat, since : Nat]
    BY DEF CountInit, NoSnap
  <2>2. tunnel \in [connected : BOOLEAN, fp : Nat, nano : Nat] /\ ~tunnel.connected /\ tunnel.nano = 0
    BY DEF CountInit
  <2>3. conn \in [step : {"down", "nano", "fp", "up", "clearing"}, number : Nat]
        /\ conn.step = "down" /\ conn.number = 0
    BY DEF CountInit
  <2>4. scrape = "idle" /\ cleared = FALSE
    BY DEF CountInit
  <2> QED  BY <2>1, <2>2, <2>3, <2>4 DEF Scraped
<1> QED  BY <1>1, <1>2, <1>3, <1>4 DEF Inv

(***************************************************************************)
(* For any number of streams and connections, and with everything          *)
(* interleaved: a scrape reports no more HTTP/3 streams than streams and   *)
(* no connection without its time and fingerprint, and between openings    *)
(* the two views agree and the high-water mark is the true peak            *)
(* (obs.State's and RouteStats' atomics, streamOpened's CompareAndSwap).   *)
(***************************************************************************)
THEOREM CountersAreSound == CountSpec => []CountersSound
<1>1. Inv => SnapshotSound
  BY DEF Inv, Scraped, SnapshotSound
<1>2. Inv => PeakExact
  <2> SUFFICES ASSUME Inv, \A s \in Stream : at[s] \in {"open", "closed"}
               PROVE  /\ route.active = global.active /\ route.total = global.total
                      /\ global.active = Cardinality({ s \in Stream : at[s] = "open" })
                      /\ global.max = peak
    BY DEF PeakExact
  <2>1. /\ In(RouteHeld) = { s \in Stream : at[s] = "open" }
        /\ In(GlobalHeld) = { s \in Stream : at[s] = "open" }
        /\ In(Uncounted) = {}
    BY DEF In, RouteHeld, GlobalHeld, Uncounted
  <2>2. Cardinality({}) = 0
    BY FS_EmptySet
  <2>3. global.max = peak
    BY DEF Inv, Raised, Raising
  <2>4. route.total = global.total
    BY <2>1, <2>2 DEF Inv, Types, Counted
  <2> QED  BY <2>1, <2>3, <2>4 DEF Inv, Counted
<1> QED  BY <1>1, <1>2, InvInitially, InvInductive, PTL DEF CountSpec, CountersSound
=============================================================================

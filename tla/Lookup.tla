------------------------------- MODULE Lookup -------------------------------
(***************************************************************************)
(* The pure decisions on a request's way, checked against what they are    *)
(* for over bounded inputs: which configurations are accepted (Config),    *)
(* which route a host finds in one (RouteMatch), and which session of the  *)
(* route it is given to (Balance).  A behaviour asks one question, and     *)
(* the properties hold of every answer.                                    *)
(***************************************************************************)
EXTENDS Balance, Config

CONSTANTS
    MaxCands,       \* bound: candidates of a pick
    MaxLoad,        \* bound: streams open on each
    MaxLabels,      \* bound: labels of a host
    MaxRoutes       \* bound: routes of a configuration

ASSUME LookupAssumption ==
    /\ MaxCands \in Nat
    /\ MaxLoad \in Nat
    /\ MaxLabels \in Nat \ {0, 1}
    /\ MaxRoutes \in Nat

VARIABLE query      \* what is being asked

NoQuery == [ask |-> "nothing"]

(* A pick sees no more of a session than its place in the list, so the     *)
(* list is <<1, ..., n>>.                                                  *)
AskPick ==
    \E n \in 0 .. MaxCands : \E asked, cooling \in SUBSET (1 .. n), load \in [1 .. n -> 0 .. MaxLoad] :
        query' = [ask |-> "pick", n |-> n, asked |-> asked, cooling |-> cooling, load |-> load]

(* Patterns: the default, and hosts and wildcards, plain or written with a *)
(* final dot and a port.                                                   *)
Plain(n) == { h \in Written(n) : ~h.upper /\ h.dot = h.port }
Pattern == [kind : {"host", "wildcard"}, host : Plain(MaxLabels - 1)]
           \cup [kind : {"default"}, host : {CHOOSE h \in Plain(1) : TRUE}]
ListOf(S) == UNION { [1 .. k -> S] : k \in 0 .. MaxRoutes }

EdgeRoute(p, one, many, shared, http3) ==
    [pattern |-> p, agent |-> one, agents |-> many, shared |-> shared, http3 |-> http3]
EdgeConfig(mode, tls, ingress, tunnel, share, http3, metrics, routes) ==
    [mode |-> mode, tls |-> tls, ingress |-> ingress, tunnel |-> tunnel, share |-> share,
     http3 |-> http3, h3listen |-> {}, altsvc |-> TRUE, metrics |-> metrics, settings |-> TRUE,
     routes |-> routes]
OnPort(p) == {[host |-> "", port |-> p]}
Routed(routes) == EdgeConfig("standalone", TRUE, OnPort(1), OnPort(2), FALSE, FALSE, {}, routes)

(* Configurations that differ in the hosts of their routes... *)
AskHosts ==
    \E ps \in ListOf(Pattern) :
        query' = [ask |-> "edge", config |->
                    Routed([i \in DOMAIN ps |-> EdgeRoute(ps[i], "f1", <<>>, FALSE, TRUE)])]

(* ...in the agents of their routes, each for a longer suffix... *)
Longer(i) ==
    [kind |-> "wildcard",
     host |-> [name |-> [k \in 1 .. i |-> CHOOSE l \in Label : TRUE],
               upper |-> FALSE, dot |-> FALSE, port |-> FALSE]]
Agents == { <<"f1", <<>>>>, <<"", <<>>>>, <<"f1", <<"f2">>>>, <<"", <<"f2">>>>, <<"", <<"f1", "f2">>>>,
            <<"", <<"f1", "f1">>>>, <<"", <<"f2", "">>>> }
AskAgents ==
    \E as \in ListOf(Agents) : \E shared \in [DOMAIN as -> BOOLEAN] :
        query' = [ask |-> "edge", config |->
                    Routed([i \in DOMAIN as |-> EdgeRoute(Longer(i), as[i][1], as[i][2], shared[i], TRUE)])]

(* ...or in everything else.  An address is set or not. *)
Optional == { {a} : a \in Address } \cup {{}}
AskListeners ==
    \E mode \in {"standalone", "proxied", "other"}, tls, share, http3, served \in BOOLEAN,
       ingress \in {{}, OnPort(1), {[host |-> "name", port |-> 1]}}, tunnel, metrics \in Optional :
        query' = [ask |-> "edge", config |->
                    EdgeConfig(mode, tls, ingress, tunnel, share, http3, metrics,
                               <<EdgeRoute(Longer(1), "f1", <<>>, FALSE, served)>>)]

AskService ==
    \E metrics \in Optional, s \in Address :
        query' = [ask |-> "agent", config |->
                    [settings |-> TRUE, metrics |-> metrics,
                     routes |-> <<[pattern |-> Longer(1), service |-> s]>>]]

LookupInit == query = NoQuery
LookupNext ==
    /\ query = NoQuery
    /\ AskPick \/ AskHosts \/ AskAgents \/ AskListeners \/ AskService

-----------------------------------------------------------------------------
(* The sessions a request that has tried asked prefers. *)
Preferred(n, asked, cooling) ==
    LET rest == (1 .. n) \ asked
    IN  IF rest \ cooling # {} THEN rest \ cooling ELSE rest

(* Turns 0, 1, ...: enough for every pair of remainders a pick can use. *)
Turn == 0 .. (MaxCands * MaxCands)

(***************************************************************************)
(* pick returns nil exactly when every candidate was tried, and otherwise  *)
(* one that was not, a cooling one only when nothing else is left.  Under  *)
(* least_conn, whatever the turn, none of those it may choose from has     *)
(* fewer open streams.  Under round_robin, consecutive turns take every    *)
(* session once before any is taken again, those that are skipped left out *)
(* of the cycle ("a skipped session's turns spread evenly over the         *)
(* others").                                                               *)
(***************************************************************************)
PickIsBest ==
    query.ask = "pick" =>
        LET ready == Preferred(query.n, query.asked, query.cooling)
            m == Cardinality(ready)
            at(robin, turn) == Pick(robin, [i \in 1 .. query.n |-> i], query.asked, query.cooling,
                                    query.load, turn)
        IN  \A turn \in Turn :
                /\ at(FALSE, turn) \subseteq ready
                /\ at(FALSE, turn) = {} <=> ready = {}
                /\ \A d \in at(FALSE, turn), c \in ready : query.load[d] <= query.load[c]
                /\ UNION { at(TRUE, turn + k) : k \in 0 .. m - 1 } = ready
                /\ at(TRUE, turn + m) = at(TRUE, turn)

(* What a pattern says: its host, every host under it, or every host. *)
Covers(p, h) ==
    CASE p.kind = "host" -> p.host.name = h.name
      [] p.kind = "wildcard" ->
            \E k \in 1 .. Len(h.name) - 1 : p.host.name = SubSeq(h.name, k + 1, Len(h.name))
      [] OTHER -> TRUE

(* The host itself is more specific than any wildcard, a longer suffix     *)
(* than a shorter one, and all of them than the default.                   *)
Rank(p) ==
    CASE p.kind = "host" -> MaxLabels + 1
      [] p.kind = "wildcard" -> Len(p.host.name)
      [] OTHER -> 0

AskedHost == Plain(MaxLabels) \cup { [g EXCEPT !.upper = TRUE] : g \in Plain(1) }

(***************************************************************************)
(* Whatever the order an accepted configuration lists its routes in, and   *)
(* however host and pattern are written, a host goes to the one most       *)
(* specific route that covers it, and nowhere only when none does: Build   *)
(* relies on patterns being unique, which is LoadEdge's to guarantee.      *)
(***************************************************************************)
MostSpecificRoute ==
    (query.ask = "edge" /\ LoadEdge(query.config)) =>
        LET routes == query.config.routes
            p(i) == routes[i].pattern
            table == [i \in DOMAIN routes |-> [kind |-> p(i).kind, host |-> p(i).host, value |-> i]]
        IN  \A h \in AskedHost :
                LET m == Match(table, h)
                    covering == { i \in DOMAIN routes : Covers(p(i), h) }
                IN  IF covering = {} THEN m = 0
                    ELSE m \in covering /\ \A i \in covering \ {m} : Rank(p(i)) < Rank(p(m))

(* The addresses of this machine a listener on a takes, and those a dial   *)
(* to a gets to.  A name is whatever DNS makes of it: not known.           *)
Bound(a) == IF IsWildcardHost(a.host) THEN Local ELSE HostIPs(a.host) \cap Local
Dialled(a) == IF IsWildcardHost(a.host) THEN Loopback ELSE HostIPs(a.host) \cap Local
Known(a) == a.port # 0 /\ a.host \notin {"name", "NAME"}

(***************************************************************************)
(* What the daemons rely on holds of every accepted configuration.  Agents *)
(* have a way in.  Whether a certificate may be shared (which decides      *)
(* whether a second session displaces nobody or is refused) does not       *)
(* depend on the route one looks at.  A route lists some agent, and none   *)
(* twice.  The metrics listener takes no address of the tunnel or the      *)
(* ingress.  An agent's configuration is refused exactly when its own      *)
(* metrics listener would answer for a service, as far as the addresses    *)
(* are known without a lookup.                                             *)
(***************************************************************************)
ConfigSound ==
    LET c == query.config
    IN  /\ (query.ask = "edge" /\ LoadEdge(c)) =>
            /\ c.tunnel # {} \/ (c.share /\ c.mode = "standalone")
            /\ \A i \in DOMAIN c.routes :
                LET fps == Fingerprints(c.routes[i])
                IN  /\ fps # <<>> /\ Cardinality(ToSet(fps)) = Len(fps)
                    /\ ToSet(fps) \subseteq AllowedFingerprints(c) \ {""}
                    /\ \A k \in DOMAIN fps : fps[k] \in SharedFingerprints(c) <=> c.routes[i].shared
            /\ \A m \in c.metrics, a \in c.tunnel \cup c.ingress :
                (Known(m) /\ Known(a) /\ m.port = a.port) => Bound(m) \cap Bound(a) = {}
        /\ query.ask = "agent" =>
            \A m \in c.metrics, i \in DOMAIN c.routes :
                LET s == c.routes[i].service
                IN  (Known(m) /\ Known(s)) =>
                        (LoadAgent(c) <=> m.port # s.port \/ Bound(m) \cap Dialled(s) = {})
=============================================================================

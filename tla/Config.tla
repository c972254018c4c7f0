------------------------------- MODULE Config -------------------------------
(***************************************************************************)
(* What a configuration file must satisfy before a daemon runs with it     *)
(* (internal/config/load.go, dropin.go, config.go): LoadEdge, LoadAgent    *)
(* and their Validate, as the set of configurations they accept.           *)
(*                                                                         *)
(* The routes are those of the file followed by those of its drop-in       *)
(* files: where one came from only matters to an error's wording.  A       *)
(* setting of which only the presence or the syntax is checked is ok or    *)
(* not.                                                                    *)
(***************************************************************************)
EXTENDS RouteMatch, FiniteSets

-----------------------------------------------------------------------------
(* Addresses.  IP are this machine's addresses and one of another machine. *)
(* A host is written as an IP, twice as the unspecified one, as localhost  *)
(* or as a name, in two cases; "4in6" is an IPv4 address in IPv6 form.     *)

Loopback == {"127.0.0.1", "::1"}
Local == Loopback \cup {"10.0.0.1"}
IP == Local \cup {"192.0.2.1"}
Host == IP \cup {"", "::", "4in6", "localhost", "name", "NAME"}

(* host:port; port 0 stands for whatever SplitListen rejects. *)
Address == [host : Host, port : 0..2]

IsWildcardHost(h) == h \in {"", "::"}

(* hostIPs: the addresses of a host that needs no lookup. *)
Resolved(h) == h \in IP \cup {"4in6", "localhost"}
HostIPs(h) ==
    CASE h = "localhost" -> Loopback
      [] h = "4in6"      -> {"127.0.0.1"}
      [] OTHER           -> {h}

EqualFold(g, h) == g = h \/ {g, h} = {"name", "NAME"}

ParseEndpoint(a) ==
    [host |-> a.host, port |-> a.port, wildcard |-> IsWildcardHost(a.host),
     resolved |-> ~IsWildcardHost(a.host) /\ Resolved(a.host),
     ips |-> IF Resolved(a.host) THEN HostIPs(a.host) ELSE {}]

(* endpoint.overlaps *)
Overlaps(e, o) ==
    /\ e.port = o.port
    /\ \/ e.wildcard \/ o.wildcard
       \/ (~e.resolved \/ ~o.resolved) /\ EqualFold(e.host, o.host)
       \/ e.resolved /\ o.resolved /\ e.ips \cap o.ips # {}

(* An unset address is {}, a set one {a}. *)
Parses(A) == \A a \in A : a.port # 0
ListenersOverlap(A, B) ==
    \E a \in A, b \in B : a.port # 0 /\ b.port # 0 /\ Overlaps(ParseEndpoint(a), ParseEndpoint(b))

(* serviceOnMetricsSocket: a dial to an unspecified host reaches loopback, *)
(* and only what is on this machine can be the metrics listener.           *)
ServiceOnMetricsSocket(m, s) ==
    LET svc == ParseEndpoint(s)
        onHost == (IF svc.wildcard THEN Loopback ELSE svc.ips) \cap Local
    IN  /\ m.port # 0 /\ s.port # 0
        /\ onHost # {}
        /\ Overlaps(ParseEndpoint(m),
                    [svc EXCEPT !.wildcard = FALSE, !.resolved = TRUE, !.ips = onHost])

-----------------------------------------------------------------------------
(* Routes.  An edge route has a pattern, the fingerprint it names alone    *)
(* ("" for none), the list of those it names, allow_shared_cert, and       *)
(* whether its hosts may be served over HTTP/3.                            *)

Fingerprints(r) == IF r.agent # "" THEN <<r.agent>> ELSE r.agents

(* The balance setting is one of the two: it is only looked up. *)
ValidateAgents(r) ==
    /\ r.agent # "" <=> r.agents = <<>>
    /\ "" \notin ToSet(r.agents)
    /\ IsInjective(r.agents)

(* checkDuplicateHosts: no pattern twice, once normalized. *)
SameHost(p, q) ==
    /\ p.kind = q.kind
    /\ p.kind # "default" => Normalize(p.host) = Normalize(q.host)
UniqueHosts(routes) ==
    \A i, j \in DOMAIN routes : i < j => ~SameHost(routes[i].pattern, routes[j].pattern)

(* The fingerprints of the routes that share them, or do not. *)
Named(routes, shared) ==
    UNION { ToSet(Fingerprints(routes[i])) : i \in { k \in DOMAIN routes : routes[k].shared = shared } }

(* Mutant: only a route against the next one. *)
ConsistentNeighbours(routes) ==
    \A i \in 1 .. Len(routes) - 1 :
        routes[i].shared # routes[i + 1].shared =>
            ToSet(Fingerprints(routes[i])) \cap ToSet(Fingerprints(routes[i + 1])) = {}

(* The second pass of Validate over the routes. *)
SharingConsistent(routes) == Named(routes, TRUE) \cap Named(routes, FALSE) = {}

SharedFingerprints(c) == Named(c.routes, TRUE)
AllowedFingerprints(c) == Named(c.routes, TRUE) \cup Named(c.routes, FALSE)

-----------------------------------------------------------------------------
(* validateHTTP3; the address is ingress.listen unless the block has one.  *)
ValidateHTTP3(c) ==
    c.http3 =>
        /\ c.mode = "standalone"
        /\ Parses(IF c.h3listen # {} THEN c.h3listen ELSE c.ingress)
        /\ c.altsvc

(* EdgeConfig.Validate.  settings: the tunnel's files are named,           *)
(* agent_wait is not negative, and each route has a well-formed host.      *)
EdgeValidate(c) ==
    /\ c.mode \in {"standalone", "proxied"}
    /\ c.mode = "standalone" => c.tls
    /\ c.ingress # {}
    /\ ValidateHTTP3(c)
    /\ c.settings
    /\ ~c.share => c.tunnel # {}
    /\ c.share => c.mode = "standalone"
    /\ Parses(c.metrics)
    /\ ~ListenersOverlap(c.metrics, c.tunnel) /\ ~ListenersOverlap(c.metrics, c.ingress)
    /\ c.routes # <<>>
    /\ \A i \in DOMAIN c.routes :
        ValidateAgents(c.routes[i]) /\ (c.routes[i].http3 \/ c.mode # "proxied")
    /\ SharingConsistent(c.routes)

LoadEdge(c) == EdgeValidate(c) /\ UniqueHosts(c.routes)

(* AgentConfig.Validate.  settings: the edge's address and files are       *)
(* named, its proxy and each route's host well-formed, each service named. *)
(* A route has a pattern and a service address.                            *)
AgentValidate(c) ==
    /\ c.settings
    /\ Parses(c.metrics)
    /\ c.routes # <<>>
    /\ \A i \in DOMAIN c.routes : \A m \in c.metrics : ~ServiceOnMetricsSocket(m, c.routes[i].service)

LoadAgent(c) == AgentValidate(c) /\ UniqueHosts(c.routes)
=============================================================================

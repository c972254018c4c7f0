# TLA+ specifications of coen

coen is a reverse tunnel. An **edge** accepts client requests over TCP and
HTTP/3 and tunnel connections from **agents**; it hands each request to one of
the agents of the request's route, over a stream of the agent's yamux session,
and the agent pipes the stream to a local service. Both are long-running
daemons that are drained, replaced and killed while traffic goes on. What is
hard about the code is not any single function: it is what a session, a
stream, a slot or a process may be doing when something else happens to it.
These specifications are about that.

## Parts of the system

| Part | Code | Module | Abstract specification |
|---|---|---|---|
| Agent registry and admission | `edge/registry.go`, `serveAgent`, `retire`, `evict` | `Registry` | `AgentPool` |
| Opening streams on a session | `openUnlessRetired`, `retireForDrain` | `StreamOpen` | |
| Graceful drain, edge and agent | `agent/agent.go`, `tunnel/control.go`, `tunnel/accept.go` | `DrainHandoff` (extends `StreamOpen`) | |
| Dispatch of a request | `dispatch`, `dispatchOnce`, `tryAgent` | `Dispatch` (extends `Balance`) | `Delivery` |
| Balancer | `pick`, `pickReserve` | `Balance` | its definition, in `Lookup` |
| Cooldown of a session | `coolDownFor`, the swap in `dispatchOnce` | `Cooldown` | |
| Route table | `route/route.go` | `RouteMatch` | its definition, in `Lookup` |
| Configuration | `config/load.go`, `dropin.go`, `config.go` | `Config` (extends `RouteMatch`) | what the daemons rely on, in `Lookup` |
| HTTP/3 stream pool, route cap | `edge/h3pool.go`, `limit.go`, parts of `http3.go` | `H3Pool` | |
| One HTTP/3 request and its stream | `serveHTTP3`, `h3Exchange`, `holdBody`, `peekBody`, `http3ws.go` | `H3Exchange` | |
| Alt-Svc line of a response | `edge/altsvc.go` | `AltSvc` | the bytes a client should get |
| Ingress, global cap, shutdown | `ServeWithHTTP3`, `handleIngress`, `cappedListener`, `connActivity`, `serveHTTP3Until` | `EdgeServe` | |
| Live counters and their scrape | `obs/state.go`, `obs/routes.go` | `Counters` | |
| Agent main loop | `Run`, `connectOnce`, `shutdownSession` | `AgentRun` (extends `Replace`) | `Replace` |
| Process replacement on SIGHUP | `cli/replace.go`, `handoff/handoff.go` | `Replace` | |
| Admin socket file | `admin/admin.go`, `lock_unix.go` | `AdminSocket` | |
| Daemons and the metrics port | `cli/run.go`, `metrics/probe.go`, `server.go` | `Daemons` (extends `AdminSocket`) | |

`MCParts` puts the parts that stand alone (`Lookup`, `AltSvc`, `Cooldown`,
`Counters`) side by side for one run; `XProofs` holds the proofs about `X`.
`PROJECT.json` lists every part of the repository, modelled or not, the source
lines of every definition, and the hazards with the properties that watch them.

How the parts interact, and how the modules divide it:

* A tunnel connection becomes a session of `Registry`. `Dispatch` picks from
  the registry's pool; what `Registry` does in several critical sections
  (join, retire, evict) is one step there.
* An attempt of `Dispatch` opens a stream: one step there, two goroutines and a
  timer in `StreamOpen`. A stream is accepted and served by an agent that may be
  shutting down: `DrainHandoff` composes both ends.
* A stream of an HTTP/3 request is kept for the next one: `H3Pool`, whose slots
  TCP connections of the same route compete for. `H3Exchange` has the inside of
  these requests, one after the other on one connection: there a kept stream is
  simply there for the next request, or was dropped.
* A configuration that `Config` accepts gives `RouteMatch` its table and says which
  certificates are shared, which is the constant `Shared` of `Registry`.
* `AgentRun` composes the agent's loop with the replacement of its process.
  `DrainHandoff` has the same `shutdownSession` in the detail of frames, for one
  version 2 session; `AgentRun` has it for both protocol versions, across
  sessions, without the frames.
* `Daemons` composes the metrics port with the admin socket, both of which a
  daemon takes over from the one it replaces.

## How the state corresponds to the code

Variables have the names of the Go fields wherever there is a field (`pool` is
`registry.byFP`; `all`, `joined`, `pending`, `closing`, `opening`, `stuck`,
`idle`, `coolUntil`, `busy`, `retiredDone`, `onRetired` are themselves).
A variable `pc`, `call`, `run`, `main` and the like says where a goroutine is.
Variables marked *history* in their declaration are read by properties only.

A step is what other goroutines can see as one: a critical section of a mutex,
an atomic operation, a channel operation, a system call, a frame. Where a
handler calls another that changes state under the same lock, the call is part
of the step. Steps of libraries (yamux, quic-go, the kernel, systemd) are
marked external in the map and modelled from how the code uses them.

Time is abstract. A timer that runs may fire at any moment, so what is shown
holds for every value of the time constants; the drain budget appears as the
three classes that `shutdownSession` distinguishes. The exceptions are
`Cooldown`, which is about timestamps and has a clock, and the backoff of
`AgentRun`, which is computed.

## What the runs check

States are distinct states. Every cfg turns deadlock checking off: every one of
these systems may come to rest (all sessions gone, all requests answered, the
process exited); that nothing hangs on the way there is what the liveness
properties say.

| Run | Question | Bounds |
|---|---|---|
| `registry` | Do agents that compete with one certificate ever share the pool, displace each other, or leave counters or entries behind? Is the registry an `AgentPool`? | 3 sessions (1 of version 2), 1 exclusive certificate, cap 2 |
| `registry_live` | Does a shutdown close everything; is a dead session always dropped? | 2 sessions of version 2 |
| `handoff` | Does a graceful handoff lose, repeat or cut a request; does it end? | 2 opens, 1 drain request, 3 budgets |
| `handoff_replaceable` | *Violated:* does the callback imply that the edge has retired the session? | 1 open, short budget |
| `dispatch` | Are stream counts and failure counts exact? With `agent_wait`: is a request delivered at most once, does it never sleep past an agent, is it always answered? | 2 sessions (1 of version 2), 1 request, 1 retry timer |
| `h3pool` | Are slots exact, is a reused stream clean, is no idle stream kept in anybody's way, is a drain never held up? | 2 HTTP/3 requests, 1 TCP connection, cap 2, 2 streams, 1 agent, 1 kept stream per connection |
| `h3_exchange` | Do messages on a reused stream ever mix; is a request repeated that must not be; is the service blamed for what the client did; does every handler return? | 2 requests of any form, a send window of 2 tokens |
| `edge_serve` | Are the slots of the global cap exact; is a request ever cut by a shutdown or an idle timer; does a shutdown end? | 2 TCP and 1 QUIC connection, cap 2, 2 requests at once |
| `agent_run` | Does a reload ever lose the service; does a shutdown end, from wherever; does the agent process implement `Replace`? | 2 SIGHUPs, 1 stream, backoff 2 to 3 |
| `replace_stop` | *Violated:* is no handover registered once the shutdown has begun? | 2 SIGHUPs |
| `daemons` | Does the newest daemon keep its socket, get its port, and exit when told? | 2 daemons, another program |
| `parts` | Do the balancer, the route table and the configuration check do what they are for? Does a client get the right bytes with its Alt-Svc line, and none too late? Are the lock-free counters and the cooldown right? | 3 candidates with loads to 2; 3 routes, hosts of 3 labels, all pairs of listen addresses; every head of up to 3 fields with a bare line feed anywhere, cut anywhere, header limit of 8 symbols; 3 streams, 3 openings, 2 connections; 3 requests, clock to 3, cooldowns of 1 and 6 |

Type invariants are part of the property that relates the state they type:
`JoinNotMissed` of `Dispatch`, `SlotsExact` of `H3Pool` and of `EdgeServe`,
`HandoffLosesNothing`, `ShutdownInOrder`, `SocketPathRight`, `DrainIsVisible`. Some
properties are conjunctions of parts that are defined and commented one by one
(`SessionsEnd`, `ServeEnds`, `ReloadIsSafe`, `RunNeverHangs`, `AltSvcExact`,
`CountersSound`).

Why the bounds are enough to meet the interesting cases:

* `registry`: the races on a certificate are between an incumbent, a newcomer
  that has passed its first check, and a second newcomer; that is three
  sessions. The cap of 2 is reached with the third. The proofs below remove
  these bounds.
* `handoff`: one open that is abandoned and one that is live, against a drain
  request that waits for either. The streams are independent of each other but
  for the counters, the queue and the wire, whose order two streams already
  show. The proofs remove the bound.
* `dispatch`: a request meets a session that fails and one that joined since.
  Requests meet only in the counts of a session and in the pool, and the proofs
  are for any number of them. The rotation is kept modulo the number of
  sessions, which is all that `pick` uses of it.
* `parts`: the questions of `Lookup` are all inputs up to the bounds. One label
  is three characters wide so that suffixes of different depth can have the
  same length, which is what the sort by length has to get right. A third
  route is what a check of neighbours only would miss. The hosts of `Config` are
  one of each kind that `hostIPs` and `overlaps` tell apart. The responses of
  `AltSvc` have each kind of line that the code tells apart, next to each
  other; the limit of 8 lies among their lengths. Three streams are needed for
  a swap to fail twice.
* `h3_exchange`: the second request is the one that can meet what the first left
  on a kept stream; each can have no body, one that is held, one with a length,
  a chunked one, one of unknown length, or be an upgrade. A window of two is
  filled by a head and one token, so that every write can block.
* `h3pool`: with the cap at 2 and two streams, a slot can be held by an idle
  stream while requests of both kinds wait. Streams are not used again by
  number once closed.
* `edge_serve`: TCP and QUIC compete for two slots; one of the TCP hosts is kept
  off HTTP/3.
* `agent_run`: two SIGHUPs give a reload that runs into another. The history
  variable `waits` is capped where the backoff has reached its maximum, so
  the cap hides nothing.
* `daemons`: each daemon lives once, so two of them give one handover of port
  and socket with every kill and every contended lock in it.

Symmetry is used in `registry` (within each protocol version) and `parts` (the
goroutines), neither of which checks liveness.

### Fairness

Liveness is checked under weak fairness of the steps that a goroutine takes
without waiting for anybody, and of timers that were started. In particular:

* A call that blocks in yamux (`OpenStream`, a handshake with an agent) is not
  fair. `DrainIsAcked` and `EveryRequestAnswered` hold because the code bounds
  those calls by timers.
* The environment (clients, agents that come and go, signals, crashes, services
  that answer or not) has no fairness. `RunNeverHangs` does not say that dialling
  ever succeeds, and `EveryRequestAnswered` holds if sessions never join, or
  join and fail. Every session of `Dispatch` joins once: that an endless
  supply of sessions that join and refuse does not hold a request for ever is
  the work of its two deadlines, whose passing is not made fair.
* `ShutBacklogEnds` of `AgentRun` is fair by itself: after GoAway yamux queues no
  further stream, and the wait for the next one is bounded by `backlogQuiet`.
* `H3Pool`: the read of a watcher ends because a deadline is set on it; that is
  the step the mutant of `DrainNotHeldUp` takes away.
* `H3Exchange`: handler, upload, abort and the directions of a WebSocket are fair,
  and so are the timers that bound them; a read of the client's body is fair
  only once the body is closed or has something to give. The service has no
  fairness. This takes `ingress.idle_timeout` to be set; by
  default it is off, and a handler then waits for a silent service as long as
  the client does. The safety properties do not depend on it: without the
  timer there are only fewer behaviours.
* `Daemons`: fair steps are those of the process, the metrics goroutine and the
  admin server. The wait for the file lock is bounded in the code and may end
  either way.

`DrainHandoff` and `EdgeServe` include timers of the drain budget among the fair
steps; without them a shutdown would depend on the clients.

## What is proved

Eight modules hold proofs; TLAPS checks them for every value of the constants,
under the assumptions named in the modules that declare these. They say that
sets of sessions, requests, streams and connections are finite, that caps are
positive, and what the constants are functions of. Two say more:
`HandoffAssumption` lists the three classes of drain budget, and
`CooldownAssumption` has the long cooldown outlast the short one by more than the
time that passes, so that no two cooldowns end at one moment (the clock of the
model moves with every reading; in the code two readings in one nanosecond
could be alike).

| Module | Theorems that state a property of a run |
|---|---|
| `RegistryProofs` | `Exclusive`, `CountersAreExact`, `LeftNowhere`, `NobodyDisplaced`, `Implements` |
| `StreamOpenProofs` | `AckComesLast` |
| `HandoffProofs` | `HandoffIsLossless`, `RetriesAreSafe` |
| `DispatchProofs` | `AccountsAreExact`, `DispatchDelivers` |
| `EdgeServeProofs` | `CapIsExact`, `NothingIsCut`, `NotAdvertised` |
| `CountersProofs` | `CountersAreSound` |
| `CooldownProofs` | `KeepsCooldown` |
| `AgentRunProofs` | `ReloadsAreSafe` (of `Replace`), `RunImplements` |

Others (`PooledIsTracked`, `PooledIsListed`, `RetiredStaysOut`, `ClosingAdmitsNone`,
`CountsExact`, `NoLostWakeup`, `AbandonedIsUnused`, `NoOpenAfterRetire`) are proved and
left out of the runs.

**Registry** (`THEOREM Invariance` and what follows from it). None of the
properties is inductive: that a live session is listed, say, depends on nobody
evicting a session that has not been pooled yet. The invariant `Inv` has three
parts per session. `Life` says that the position of a session's `serveAgent`
determines whether the session is tracked, has joined, may be listed and may be
open. `Pooled` says what is known of a session in the pool. `FromPool` says that
whoever else holds a session (a retirement, an eviction, a list of candidates to
probe) got it from the pool, so that its `serveAgent` has come that far. `Inv`
also contains `ExclusivePool`, which is kept because `registerConn` looks for a
live session under the lock that it adds the newcomer under.

From `Inv`: type correctness with both counters within the cap (`TypeCorrect`),
`Exclusive`, `Tracked`, `Listed`, `LeftNowhere`, `StaysOut`; the action
properties `NobodyDisplaced` and `ClosedToNewcomers`; and the refinement
`Implements`, that every step of the registry is a step of `AgentPool` or changes
nothing in it. `CountersAreExact` needs an induction of its own on top of `Inv`,
because it is about cardinalities: every change of a counter is matched by one
session entering or leaving the set that is counted.

**StreamOpen**. The point of the handshake is `AckComesLast`: an opening frame
that follows a timely acknowledgement belongs to an open that was given up on.
It is kept because of `Settled`: from the moment a drain request has been woken
(or did not have to wait), the opens still in flight are all abandoned ones, and
no new one starts since the session is retired. That a wakeup means this rests
on the counters being exact (`CountersAreExact`), which is where the race between
a timer and a late return of `OpenStream` is settled: `opening - stuck` is zero
exactly when every open in flight was given up on. `WakeupsKept` (no lost wakeup),
`AbandonedUnused` and the action property `NoLateOpen` come from the same
invariant.

**DrainHandoff**. `HandoffIsLossless` is the result the drain handshake exists for,
and an argument about order. `StreamOpen` gives that an acknowledgement in time
follows, on the wire, the opening frame of every stream that will be used;
the agent reads the wire in order, so that once it has the acknowledgement it
has those streams (`AllArrived`). `Phased` says what the agent does when: until it
has sent GoAway it refuses nothing, and when it stops looking for streams its
queue is empty. So what it refuses was not one of them. None of this is visible
in the property itself, hence the invariant `HInv`: frames are unique (`Framed`),
what is queued has arrived (`Received`), the phases, and that only a request that
was sent is run (`RunsSent`), which is `RetriesAreSafe`. The proof uses the
invariant of `StreamOpenProofs` as it is: every step of the edge here is one of
`StreamOpen`'s (`EdgeSteps`).

**Dispatch**. For accounts and delivery everything a request does is one of a few
moves: it takes a stream, gives one back or neither, and is answered or not.
`ActionMoves` shows this of every action; the induction is over moves. `Life` ties
the stream and the answer of a request to where it is, without which giving
back could not be shown to follow taking. Which session is picked does not
matter, so nothing is needed of the balancer. `DispatchDelivers` maps every move
to a step of `Delivery` or to none.

**EdgeServe**. The count of the semaphore is kept because a step moves at most one
connection, and the stages that hold a slot are entered with an acquire and
left with a release. `NothingIsCut` and `NotAdvertised` need `Ordered` in addition:
when the wait for handlers is over none is left unless time ran out, and the
advertisement stands only while HTTP/3 is up or draining.

**Counters**. Each counter is the number of streams between two points of their
way (`Counted`). The high-water mark is behind the peak only while a stream that
saw the peak is still on its way to raise it (`Raised`): a swap fails only when
another one raised the mark, and the loop looks again. `Scraped` says what a
scrape may have read, by the order of stores and loads.

**Cooldown**. Every `coolDownFor` wants an expiry of its own; so a success that finds
the expiry it read before its attempt knows that nobody has set another since
(`Apart`).

**Replace and AgentRun**. `busy` is a lock: one `replace()` at a time is past it, its
successor alone may be alive and its handover alone registered (`Alone`).
`HandedOver` follows a handover from the callback to the exit: one that ended
without a word to systemd failed, which the exit status tells, or there was
none, which means a stop (`Cause`). `ReloadsAreSafe` follows. `RunImplements` shows
that a step of `Run` or of a session's shutdown is a step of `Replace` only where
it calls `retired()`, and none otherwise, so that the process has the same safety
(`RunReloadsSafely`). `ShutsDownInOrder` is the part of `ShutdownInOrder` about the
order of callback, drain and close; its invariant `Ordered` ties the session,
the protocol version and the refusal of streams to what the shutdown goroutine
has come to.

## What is only model-checked

* Liveness: every `~>`, `<>` and `[]<>` property. TLAPS does not prove these here.
* `JoinNotMissed` of `Dispatch`: it depends on what the balancer makes of the
  candidate list, a filter over a sequence, which would need induction.
* `H3Pool`: the lists of idle streams are filtered sequences as well.
* `H3Exchange`, `Daemons` and `AdminSocket`: on the instances above.
* The backoff of `AgentRun` (`BackoffExact`): a power of two, of which the provers
  know nothing.
* The definitions of `Balance`, `RouteMatch` and `Config`, and `AltSvc`: for all inputs
  up to the bounds. They are about scans, sorts and folds, and a proof would
  need induction over the input.
* `Registry` with shared certificates: proved, but the runs have one exclusive
  certificate.

## Where code and comments disagree

Two disagreements are shown by runs that are expected to end in a violation:

* `replace_stop`: `SetOnRetired` refuses the callback only once the callback's
  moment has passed, not, as its comment says, once the shutdown has begun. A
  SIGTERM between the last look at the context and `SetOnRetired` leads to a
  handover during a stop (`agent.go:56-61`, `replace.go:127-131`).
* `handoff_replaceable`: with a `drain_timeout` under `minHandoff` the callback runs
  before the edge has retired the session, so a replacement can be refused as a
  duplicate and has to reconnect (`agent.go:243-245`, `267`).

Others were met while reading the code for the models and are only noted here:

* `edge.go:570-572` says that a session that is going away does not count as a
  duplicate; one that sends GoAway after its probe, and before
  `hasLiveExclusive`, does (`edge.go:577`).
* `edge.go:54-55` says that ties under `least_conn` spread evenly. The scan starts at
  the turn modulo the number of all candidates, so that the session after a
  skipped or busier one gets that one's turns as well (`edge.go:88-91`).
  `round_robin` spreads evenly, see `PickIsBest`.
* `edge.go:1195-1197`: a cooldown that was extended and one that was set anew are
  told apart by the timestamp only; a concurrent failure that leaves a longer
  cooldown in place as it is leaves no trace, and the success clears it.
* `admin.go:95` takes a file with the inode number of its own for its own.
  `AdminSocket` assumes that the file system does not reuse the number.
* `run.go:139-149`: if a draining predecessor exits between the failed `Listen` and
  the probe, the start fails although the port is free. The waiting in `await`
  has a second `Listen` for the same race. `Daemons` has the behaviour.
* `http3.go:196-204`: an idle timer that has fired and waits for the lock while a
  short request begins and ends closes the connection right after it, not after
  another idle time. `EdgeServe` has the behaviour; no request is cut by it.
* Alt-Svc goes on being sent while HTTP/3 drains normally; it is withdrawn only
  when HTTP/3 fails (`http3.go:1078-1086`).
* `edge.go:342`: `acceptIngress` may also return because the context ended, before
  the listener is closed.
* `admin.go:119-125`: an error of `Accept` ends the admin server for good, whereas
  the accept loops of the edge retry.

## What is not modelled, and assumptions

* Text: the fields of heads that are added, removed or translated (`http1Lines` and
  its like in `http3.go`, `http.go`, `wire.go`), trailers, error pages, the preamble's
  encoding, metrics text and logs. These functions keep no state beyond one
  call; what a property could say of them is a table of their cases.
* Certificates (`pki`), TLS set-up, dialling through a proxy: calls into libraries.
* `doctor`, `install`, `cert`, `status` and the rest of the command line: sequential,
  each run by hand, with checks that are independent of each other.
* YAML and defaults of the configuration: `Config` starts from the decoded
  settings. Those of which only presence or syntax is checked are one Boolean.
* yamux keeps frames in order and delivers a prefix of them; a session that dies
  is closed at both ends sooner or later. quic-go's server drops connections it
  is handed after it stopped. systemd accepts `MAINPID`.
* `Registry`: only agents of version 2 are retired for GoAway, since older ones
  never send it.
* `H3Exchange`: a service sends nothing unasked on a kept stream once the next
  request is on its way (before that, the watcher of `H3Pool` sees it). A head
  over the size limit is one of the answers that cannot be relayed. The branch of
  `holdBody` for a writer without read deadlines is left out: the HTTP/3 server's
  has them. Requests of one connection run one after the other; those that run
  together share only the pool, which is `H3Pool`.
* `AdminSocket`: file locking is available (`lock_unix.go:24-27` and `36-39`, where it
  is not, are left out).
* `Daemons`: a daemon that is up answers a probe within `probeTimeout`, and its
  metrics listener does not fail under it.
* `AgentRun`: a failure to set up the yamux client counts as a session that was not
  stable, which in the code depends on the time it took.
* `EdgeServe` abstracts a request to the way its handler ends; `Dispatch`, `H3Pool`
  and `EdgeServe` are not composed with each other, only through the assumptions
  each states about the others.

## What could follow

* Composition of `Registry` with `Dispatch`: that the one-step join, retire and
  evict of `Dispatch` are implemented by `Registry`. Each refines its own abstract
  specification now.
* A proof for `AdminSocket` (`SocketPathRight`).
* Inode numbers that are used again (`admin.go:95`), once it is settled which file
  systems are supported.

## Running

    tlc -config Registry.cfg MCRegistry      # and so on, see PROJECT.json
    tlapm RegistryProofs.tla                 # and the other *Proofs.tla

The longest run takes about two and a half minutes with two workers, the proofs
a few minutes each at most.

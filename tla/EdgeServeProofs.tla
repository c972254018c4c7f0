-------------------------- MODULE EdgeServeProofs ---------------------------
(***************************************************************************)
(* The edge's ingress for any number of connections and any cap: the       *)
(* semaphore's count is exact, a request is not cut short by the edge      *)
(* itself, and HTTP/3 is not advertised once it has failed.                *)
(*                                                                         *)
(* For the count, a step moves at most one connection, which takes or      *)
(* gives back a slot as it enters or leaves the stages that hold one.      *)
(***************************************************************************)
EXTENDS EdgeServe, FiniteSetTheorems, TLAPS

TcpStage == {"none", "new", "full", "shake", "head", "pipe", "agent", "done"}
QuicStage == {"none", "offered", "checked", "held", "served", "gone"}

\* A connection being accepted is nowhere yet.  No handler is left once
\* the wait for them is over, unless time ran out.  The advertisement is there
\* only while HTTP/3 is served or drains.
Ordered ==
    /\ \A c \in cur : tcp[c] = "none"
    /\ main \in {"await", "join", "returned"} => spent \/ Handlers = {}
    /\ altSvc => h3 \in {"serving", "draining", "shutdown", "done"}

Inv == SlotsExact /\ Ordered

USE EdgeServeAssumption

LEMMA SlotsFinite ==
  /\ IsFiniteSet(TcpSlots) /\ Cardinality(TcpSlots) \in Nat
  /\ IsFiniteSet(QuicSlots) /\ Cardinality(QuicSlots) \in Nat
BY FS_Subset, FS_CardinalityType DEF TcpSlots, QuicSlots

(***************************************************************************)
(* What one connection's step does to the slots.                           *)
(***************************************************************************)
LEMMA TcpTakes ==
  ASSUME tcp \in [Tcp -> TcpStage], NEW c \in Tcp, NEW to \in {"shake", "head", "pipe"},
         c \notin TcpSlots, tcp' = [tcp EXCEPT ![c] = to]
  PROVE  Cardinality(TcpSlots') = Cardinality(TcpSlots) + 1
<1>1. TcpSlots' = TcpSlots \cup {c}
  BY DEF TcpSlots
<1> QED  BY <1>1, SlotsFinite, FS_AddElement

LEMMA TcpGives ==
  ASSUME tcp \in [Tcp -> TcpStage], NEW c \in TcpSlots, NEW to \in {"agent", "done"},
         tcp' = [tcp EXCEPT ![c] = to]
  PROVE  Cardinality(TcpSlots') = Cardinality(TcpSlots) - 1 /\ Cardinality(TcpSlots) > 0
<1>1. TcpSlots' = TcpSlots \ {c}
  BY DEF TcpSlots
<1>2. Cardinality(TcpSlots') = Cardinality(TcpSlots) - 1
  BY <1>1, SlotsFinite, FS_RemoveElement
<1>3. Cardinality(TcpSlots) # 0
  BY SlotsFinite, FS_EmptySet
<1> QED  BY <1>2, <1>3, SlotsFinite

LEMMA QuicTakes ==
  ASSUME quic \in [Quic -> QuicStage], NEW q \in Quic, q \notin QuicSlots,
         quic' = [quic EXCEPT ![q] = "held"]
  PROVE  Cardinality(QuicSlots') = Cardinality(QuicSlots) + 1
<1>1. QuicSlots' = QuicSlots \cup {q}
  BY DEF QuicSlots
<1> QED  BY <1>1, SlotsFinite, FS_AddElement

LEMMA QuicGives ==
  ASSUME quic \in [Quic -> QuicStage], NEW q \in QuicSlots, quic' = [quic EXCEPT ![q] = "gone"]
  PROVE  Cardinality(QuicSlots') = Cardinality(QuicSlots) - 1 /\ Cardinality(QuicSlots) > 0
<1>1. QuicSlots' = QuicSlots \ {q}
  BY DEF QuicSlots
<1>2. Cardinality(QuicSlots') = Cardinality(QuicSlots) - 1
  BY <1>1, SlotsFinite, FS_RemoveElement
<1>3. Cardinality(QuicSlots) # 0
  BY SlotsFinite, FS_EmptySet
<1> QED  BY <1>2, <1>3, SlotsFinite

(***************************************************************************)
(* The count is kept.                                                      *)
(***************************************************************************)

\* Steps after which the slots are held by whom they were.
Idle == UNCHANGED sem /\ TcpSlots' = TcpSlots /\ QuicSlots' = QuicSlots

\* The types, step by step.
LEMMA MainTypes ==
  ASSUME TypeOK, Ordered, MainStep \/ Cancel \/ CloseListeners \/ BudgetEnds
  PROVE  TypeOK' /\ Idle
<1> USE DEF Idle, TypeOK, mainVars, env, tcpVars, server, activity, TcpSlots, QuicSlots
<1>1. CASE Start \/ StartFails
  BY <1>1 DEF Start, StartFails, H3Enabled
<1>2. ASSUME NEW c \in Tcp, Accept(c) PROVE TypeOK' /\ Idle
  BY <1>2 DEF Accept
<1>3. CASE AcceptError \/ Pause
  BY <1>3 DEF AcceptError, Pause, Loop
<1>4. CASE Handle
  BY <1>4 DEF Handle, Loop, Ordered
<1>5. CASE DrainEnds \/ CloseAll \/ Return
  BY <1>5 DEF DrainEnds, CloseAll, Return
<1>6. CASE Cancel \/ CloseListeners \/ BudgetEnds
  BY <1>6 DEF Cancel, CloseListeners, BudgetEnds
<1> QED  BY <1>1, <1>2, <1>3, <1>4, <1>5, <1>6 DEF MainStep

LEMMA H3Types ==
  ASSUME TypeOK, H3Step \/ H3TimesOut \/ ServeFails
  PROVE  TypeOK' /\ Idle
BY DEF H3Step, H3Fails, H3Drain, H3Shutdown, H3Drained, H3TimesOut, H3Stop, CloseTransport,
       ServeFails, Idle, TypeOK, mainVars, env, tcpVars, server, activity, TcpSlots, QuicSlots

\* Steps of a TCP connection: the types, but for the count itself.
TypesButSem ==
    /\ main' \in {"start", "accept", "handle", "pause", "drain", "await", "join",
                  "returned", "failed"}
    /\ cur' \subseteq Tcp
    /\ {ctx', listening', spent', sessions', serving', altSvc', draining'} \subseteq BOOLEAN
    /\ tcp' \in [Tcp -> TcpStage]
    /\ adv' \in [Tcp -> {"none", "h3", "clear"}]
    /\ h3' \in {"off", "new", "serving", "failed", "draining", "shutdown", "done"}
    /\ quic' \in [Quic -> QuicStage]
    /\ up' \subseteq Quic
    /\ active' \in [Quic -> 0 .. MaxActive]
    /\ armed' \subseteq Quic
    /\ firing' \subseteq Quic

LEMMA TcpKeeps ==
  ASSUME SlotsExact, NEW c \in Tcp,
         \/ TakeSlot(c) \/ Full(c) \/ TakeAgent(c) \/ Client(c) \/ Refuse(c)
         \/ Pipe(c) \/ PipeEnds(c)
  PROVE  SlotsExact'
<1> USE DEF TcpStage, QuicStage, mainVars, env, tcpVars, server, activity
<1>0. /\ TypeOK /\ tcp \in [Tcp -> TcpStage]
      /\ sem = Cardinality(TcpSlots) + Cardinality(QuicSlots)
      /\ sem \in 0..Cap
      /\ Cardinality(TcpSlots) \in Nat /\ Cardinality(QuicSlots) \in Nat
  BY SlotsFinite DEF SlotsExact, TypeOK
<1>1. QuicSlots' = QuicSlots
  BY DEF TakeSlot, Full, TakeAgent, Client, Refuse, Pipe, PipeEnds, QuicSlots
<1>2. TypesButSem
  BY DEF TakeSlot, Full, TakeAgent, Client, Refuse, Pipe, PipeEnds, SlotsExact, TypeOK,
         TypesButSem, AltSvcFor
<1>3. SUFFICES sem' \in 0..Cap /\ sem' = Cardinality(TcpSlots') + Cardinality(QuicSlots)
  BY <1>1, <1>2 DEF SlotsExact, TypeOK, TypesButSem
<1>4. CASE TakeSlot(c) /\ sem < Cap
  <2>1. Cardinality(TcpSlots') = Cardinality(TcpSlots) + 1
    BY <1>0, <1>4, TcpTakes DEF TakeSlot, TcpSlots
  <2> QED  BY <1>0, <1>4, <2>1 DEF TakeSlot
<1>5. CASE TakeAgent(c) \/ Refuse(c) \/ PipeEnds(c)
  <2>1. c \in TcpSlots /\ sem' = sem - 1 /\ \E to \in {"agent", "done"} : tcp' = [tcp EXCEPT ![c] = to]
    BY <1>5 DEF TakeAgent, Refuse, PipeEnds, TcpSlots
  <2>2. Cardinality(TcpSlots') = Cardinality(TcpSlots) - 1 /\ Cardinality(TcpSlots) > 0
    BY <1>0, <2>1, TcpGives
  <2> QED  BY <1>0, <2>1, <2>2
<1>6. CASE (TakeSlot(c) /\ ~(sem < Cap)) \/ Full(c) \/ Client(c) \/ Pipe(c)
  <2>1. TcpSlots' = TcpSlots /\ sem' = sem
    BY <1>0, <1>6 DEF TakeSlot, Full, Client, Pipe, TcpSlots
  <2> QED  BY <1>0, <2>1
<1> QED  BY <1>4, <1>5, <1>6

QuicStep(q) ==
    \/ GoAway(q) \/ Connect(q) \/ Lost(q) \/ AcceptQuic(q) \/ AcquireQuic(q)
    \/ ServeConn(q) \/ AfterClose(q) \/ RequestBegins(q) \/ RequestEnds(q)
    \/ TimerFires(q) \/ CloseIdle(q)

LEMMA QuicKeeps ==
  ASSUME SlotsExact, NEW q \in Quic, QuicStep(q)
  PROVE  SlotsExact'
<1> USE DEF TcpStage, QuicStage, mainVars, env, tcpVars, server, activity
<1>0. /\ TypeOK /\ quic \in [Quic -> QuicStage]
      /\ sem = Cardinality(TcpSlots) + Cardinality(QuicSlots)
      /\ sem \in 0..Cap
      /\ Cardinality(TcpSlots) \in Nat /\ Cardinality(QuicSlots) \in Nat
  BY SlotsFinite DEF SlotsExact, TypeOK
<1>1. TcpSlots' = TcpSlots
  BY DEF QuicStep, GoAway, Connect, Lost, AcceptQuic, AcquireQuic, ServeConn, AfterClose,
         RequestBegins, RequestEnds, TimerFires, CloseIdle, TcpSlots
<1>2. TypesButSem
  <2>1. quic' \in [Quic -> QuicStage] /\ up' \subseteq Quic /\ armed' \subseteq Quic
        /\ firing' \subseteq Quic
    BY <1>0 DEF QuicStep, GoAway, Connect, Lost, AcceptQuic, AcquireQuic, ServeConn, AfterClose,
         RequestBegins, RequestEnds, TimerFires, CloseIdle, TypeOK
  <2>2. active' \in [Quic -> 0 .. MaxActive]
    BY <1>0 DEF QuicStep, GoAway, Connect, Lost, AcceptQuic, AcquireQuic, ServeConn, AfterClose,
         RequestBegins, RequestEnds, TimerFires, CloseIdle, TypeOK
  <2>3. UNCHANGED <<mainVars, env, tcpVars, server>>
    BY DEF QuicStep, GoAway, Connect, Lost, AcceptQuic, AcquireQuic, ServeConn, AfterClose,
         RequestBegins, RequestEnds, TimerFires, CloseIdle
  <2> QED  BY <1>0, <2>1, <2>2, <2>3 DEF TypesButSem, TypeOK
<1>3. SUFFICES sem' \in 0..Cap /\ sem' = Cardinality(TcpSlots) + Cardinality(QuicSlots')
  BY <1>1, <1>2 DEF SlotsExact, TypeOK, TypesButSem
<1>4. CASE AcquireQuic(q) /\ sem < Cap
  <2>1. Cardinality(QuicSlots') = Cardinality(QuicSlots) + 1
    BY <1>0, <1>4, QuicTakes DEF AcquireQuic, QuicSlots
  <2> QED  BY <1>0, <1>4, <2>1 DEF AcquireQuic
<1>5. CASE AfterClose(q)
  <2>1. Cardinality(QuicSlots') = Cardinality(QuicSlots) - 1 /\ Cardinality(QuicSlots) > 0
    BY <1>0, <1>5, QuicGives DEF AfterClose
  <2> QED  BY <1>0, <1>5, <2>1 DEF AfterClose
<1>6. CASE \/ GoAway(q) \/ Connect(q) \/ Lost(q) \/ AcceptQuic(q) \/ (AcquireQuic(q) /\ ~(sem < Cap))
           \/ ServeConn(q) \/ RequestBegins(q) \/ RequestEnds(q) \/ TimerFires(q) \/ CloseIdle(q)
  <2>1. QuicSlots' = QuicSlots /\ sem' = sem
    BY <1>0, <1>6 DEF GoAway, Connect, Lost, AcceptQuic, AcquireQuic, ServeConn, RequestBegins,
         RequestEnds, TimerFires, CloseIdle, QuicSlots
  <2> QED  BY <1>0, <2>1
<1> QED  BY <1>4, <1>5, <1>6 DEF QuicStep

(***************************************************************************)
(* The order of a shutdown is kept.                                        *)
(***************************************************************************)
LEMMA OrderKept ==
  ASSUME TypeOK, Ordered, [Next]_vars
  PROVE  Ordered'
<1> USE DEF Ordered, Handlers, mainVars, env, tcpVars, server, activity
<1>1. CASE UNCHANGED vars
  BY <1>1 DEF vars
<1>2. CASE Start \/ StartFails \/ AcceptError \/ Pause \/ DrainEnds \/ CloseAll \/ Return
           \/ Cancel \/ CloseListeners \/ BudgetEnds
  BY <1>2 DEF Start, StartFails, AcceptError, Pause, Loop, DrainEnds, CloseAll, Return, Cancel,
         CloseListeners, BudgetEnds, H3Enabled, TypeOK
<1>3. ASSUME NEW c \in Tcp, Accept(c) PROVE Ordered'
  BY <1>3 DEF Accept, TypeOK
<1>4. CASE Handle
  BY <1>4 DEF Handle, Loop, TypeOK
<1>5. ASSUME NEW c \in Tcp, \/ TakeSlot(c) \/ Full(c) \/ TakeAgent(c) \/ Client(c) \/ Refuse(c)
                            \/ Pipe(c) \/ PipeEnds(c)
      PROVE  Ordered'
  BY <1>5 DEF TakeSlot, Full, TakeAgent, Client, Refuse, Pipe, PipeEnds, TypeOK
<1>6. CASE H3Step \/ H3TimesOut \/ ServeFails
  BY <1>6 DEF H3Step, H3Fails, H3Drain, H3Shutdown, H3Drained, H3TimesOut, H3Stop, ServeFails, TypeOK
<1>7. ASSUME NEW q \in Quic, QuicStep(q) PROVE Ordered'
  BY <1>7 DEF QuicStep, GoAway, Connect, Lost, AcceptQuic, AcquireQuic, ServeConn, AfterClose,
         RequestBegins, RequestEnds, TimerFires, CloseIdle
<1> QED  BY <1>1, <1>2, <1>3, <1>4, <1>5, <1>6, <1>7 DEF Next, MainStep, QuicStep

LEMMA InvInductive == Inv /\ [Next]_vars => Inv'
<1> SUFFICES ASSUME Inv, [Next]_vars PROVE SlotsExact'
  BY OrderKept DEF Inv, SlotsExact
<1>1. ASSUME TypeOK' /\ Idle PROVE SlotsExact'
  BY <1>1 DEF Inv, SlotsExact, Idle
<1>2. CASE MainStep \/ Cancel \/ CloseListeners \/ BudgetEnds
  BY <1>1, <1>2, MainTypes DEF Inv, SlotsExact
<1>3. CASE H3Step \/ H3TimesOut \/ ServeFails
  BY <1>1, <1>3, H3Types DEF Inv, SlotsExact
<1>4. ASSUME NEW c \in Tcp, \/ TakeSlot(c) \/ Full(c) \/ TakeAgent(c) \/ Client(c) \/ Refuse(c)
                            \/ Pipe(c) \/ PipeEnds(c)
      PROVE  SlotsExact'
  BY <1>4, TcpKeeps DEF Inv
<1>5. ASSUME NEW q \in Quic, QuicStep(q) PROVE SlotsExact'
  BY <1>5, QuicKeeps DEF Inv
<1>6. CASE UNCHANGED vars
  BY <1>6 DEF vars, mainVars, env, tcpVars, server, activity, Inv, SlotsExact, TypeOK, TcpSlots,
         QuicSlots
<1> QED  BY <1>2, <1>3, <1>4, <1>5, <1>6 DEF Next, QuicStep

LEMMA InvInitially == Init => Inv
<1> SUFFICES ASSUME Init PROVE Inv
  OBVIOUS
<1>1. TypeOK
  <2>1. {ctx, listening, spent, sessions, serving, altSvc, draining} \subseteq BOOLEAN
    BY DEF Init
  <2>2. sem \in 0 .. Cap /\ active \in [Quic -> 0 .. MaxActive]
    BY DEF Init
  <2>3. /\ tcp \in [Tcp -> TcpStage] /\ adv \in [Tcp -> {"none", "h3", "clear"}]
        /\ quic \in [Quic -> QuicStage]
    BY DEF Init, TcpStage, QuicStage
  <2>4. /\ main = "start" /\ cur = {} /\ up = {} /\ armed = {} /\ firing = {}
        /\ h3 \in {"off", "new"}
    BY DEF Init
  <2> QED  BY <2>1, <2>2, <2>3, <2>4 DEF TypeOK, TcpStage, QuicStage
<1>2. Ordered
  BY DEF Init, Ordered, Handlers
<1>3. TcpSlots = {} /\ QuicSlots = {}
  BY DEF Init, TcpSlots, QuicSlots
<1>4. Cardinality({}) = 0 /\ sem = 0
  BY FS_EmptySet DEF Init
<1> QED  BY <1>1, <1>2, <1>3, <1>4 DEF Inv, SlotsExact

THEOREM InvHolds == Spec => []Inv
BY InvInitially, InvInductive, PTL DEF Spec

(***************************************************************************)
(* For any number of connections and any max_connections, the global cap   *)
(* counts the TCP handlers that serve a client and the QUIC connections    *)
(* given to the server, and nothing else: no path of handleIngress,        *)
(* takeAgent or cappedListener loses a slot or gives one back twice.       *)
(***************************************************************************)
THEOREM CapIsExact == Spec => []SlotsExact
BY InvHolds, PTL DEF Inv

(***************************************************************************)
(* For any number of connections, ServeWithHTTP3 closes the agents'        *)
(* sessions only when nothing runs on them or the budget is spent, and     *)
(* closeIdle never closes a connection that has a request.                 *)
(***************************************************************************)
THEOREM NothingIsCut == Spec => RequestsNotCut
<1>1. Inv /\ [Next]_vars =>
        [/\ sessions /\ ~sessions' => spent \/ (Handlers = {} /\ H3Done)
         /\ \A q \in firing \ firing' : active[q] > 0 => (q \in up => q \in up')]_vars
  <2> SUFFICES ASSUME Inv, Next
               PROVE  /\ sessions /\ ~sessions' => spent \/ (Handlers = {} /\ H3Done)
                      /\ \A q \in firing \ firing' : active[q] > 0 => (q \in up => q \in up')
    OBVIOUS
  <2> USE DEF mainVars, env, tcpVars, server, activity
  <2>1. CASE MainStep \/ Cancel \/ CloseListeners \/ BudgetEnds
    BY <2>1 DEF MainStep, Start, StartFails, Accept, AcceptError, Pause, Handle, DrainEnds, CloseAll,
         Return, Cancel, CloseListeners, BudgetEnds, Inv, Ordered
  <2>2. ASSUME NEW c \in Tcp, \/ TakeSlot(c) \/ Full(c) \/ TakeAgent(c) \/ Client(c) \/ Refuse(c)
                              \/ Pipe(c) \/ PipeEnds(c)
        PROVE  UNCHANGED <<sessions, firing>>
    BY <2>2 DEF TakeSlot, Full, TakeAgent, Client, Refuse, Pipe, PipeEnds
  <2>3. CASE H3Step \/ H3TimesOut \/ ServeFails
    BY <2>3 DEF H3Step, H3Fails, H3Drain, H3Shutdown, H3Drained, H3TimesOut, H3Stop, ServeFails
  <2>4. ASSUME NEW p \in Quic, QuicStep(p)
        PROVE  UNCHANGED sessions /\ (firing \ firing' = {} \/ CloseIdle(p))
    <3>1. UNCHANGED sessions
      BY <2>4 DEF QuicStep, GoAway, Connect, Lost, AcceptQuic, AcquireQuic, ServeConn, AfterClose,
         RequestBegins, RequestEnds, TimerFires, CloseIdle
    <3>2. firing \subseteq firing' \/ CloseIdle(p)
      BY <2>4 DEF QuicStep, GoAway, Connect, Lost, AcceptQuic, AcquireQuic, ServeConn, AfterClose,
         RequestBegins, RequestEnds, TimerFires
    <3> QED  BY <3>1, <3>2
  <2>5. ASSUME NEW p \in Quic, CloseIdle(p), NEW q \in firing \ firing', active[q] > 0, q \in up
        PROVE  q \in up'
    <3>1. q = p /\ active[p] # 0 /\ active[p] \in Int
      BY <2>5 DEF CloseIdle, Inv, SlotsExact, TypeOK
    <3> QED  BY <2>5, <3>1 DEF CloseIdle
  <2> QED  BY <2>1, <2>2, <2>3, <2>4, <2>5 DEF Next, QuicStep
<1> QED  BY <1>1, InvHolds, PTL DEF Spec, RequestsNotCut

(***************************************************************************)
(* For any number of connections, altSvcFor offers no browser an HTTP/3    *)
(* that has failed, and withdraws it for a host kept off it.               *)
(***************************************************************************)
THEOREM NotAdvertised == Spec => FailedIsNotAdvertised
<1>1. Inv /\ [Next]_vars =>
        [\A c \in Tcp : tcp[c] = "head" /\ tcp'[c] = "pipe" =>
          /\ h3 = "failed" => adv'[c] # "h3"
          /\ c \in OffHTTP3 => adv'[c] = (IF h3 = "off" THEN "none" ELSE "clear")]_vars
  <2> SUFFICES ASSUME Inv, Next, NEW c \in Tcp, tcp[c] = "head", tcp'[c] = "pipe"
               PROVE  /\ h3 = "failed" => adv'[c] # "h3"
                      /\ c \in OffHTTP3 => adv'[c] = (IF h3 = "off" THEN "none" ELSE "clear")
    OBVIOUS
  <2> USE DEF mainVars, env, tcpVars, server, activity
  <2>0. cur \subseteq Tcp /\ tcp \in [Tcp -> TcpStage] /\ adv \in [Tcp -> {"none", "h3", "clear"}]
    BY DEF Inv, SlotsExact, TypeOK, TcpStage
  <2>1. CASE MainStep \/ Cancel \/ CloseListeners \/ BudgetEnds
    BY <2>0, <2>1 DEF MainStep, Start, StartFails, Accept, AcceptError, Pause, Handle, DrainEnds,
         CloseAll, Return, Cancel, CloseListeners, BudgetEnds
  <2>2. CASE H3Step \/ H3TimesOut \/ ServeFails
    BY <2>2 DEF H3Step, H3Fails, H3Drain, H3Shutdown, H3Drained, H3TimesOut, H3Stop, ServeFails
  <2>3. ASSUME NEW q \in Quic, QuicStep(q) PROVE FALSE
    BY <2>3 DEF QuicStep, GoAway, Connect, Lost, AcceptQuic, AcquireQuic, ServeConn, AfterClose,
         RequestBegins, RequestEnds, TimerFires, CloseIdle
  <2>4. ASSUME NEW d \in Tcp, \/ TakeSlot(d) \/ Full(d) \/ TakeAgent(d) \/ Client(d) \/ Refuse(d)
                              \/ Pipe(d) \/ PipeEnds(d)
        PROVE  Pipe(c)
    BY <2>0, <2>4 DEF TakeSlot, Full, TakeAgent, Client, Refuse, Pipe, PipeEnds
  <2>5. CASE Pipe(c)
    <3>1. adv'[c] = AltSvcFor(c)
      BY <2>0, <2>5 DEF Pipe
    <3>2. altSvc => h3 \notin {"off", "failed"}
      BY DEF Inv, Ordered
    <3> QED  BY <3>1, <3>2 DEF AltSvcFor, H3Enabled
  <2> QED  BY <2>1, <2>2, <2>3, <2>4, <2>5 DEF Next, QuicStep
<1> QED  BY <1>1, InvHolds, PTL DEF Spec, FailedIsNotAdvertised
=============================================================================

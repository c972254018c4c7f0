--------------------------- MODULE HandoffProofs ----------------------------
(***************************************************************************)
(* The graceful handoff for any number of streams and drain requests: a    *)
(* retried request was never run, and a handoff that was acknowledged in   *)
(* time loses no request.                                                  *)
(*                                                                         *)
(* The argument is about order.  An acknowledgement follows, on the wire,  *)
(* the opening frame of every stream that will be used (StreamOpenProofs), *)
(* and the agent reads the wire in order: so when it has the               *)
(* acknowledgement it has the streams.  Until then it refuses nothing, and *)
(* from then on what it refuses is not one of them.                        *)
(***************************************************************************)
EXTENDS DrainHandoff, StreamOpenProofs

\* The opens that ended with a stream for their caller.
Used == { o \in Open : bg[o] = "stream" }

\* Each stream is opened by one frame.
Framed ==
    /\ \A i, j \in DOMAIN wire : wire[i] = wire[j] /\ wire[i] \in Open => i = j
    /\ \A o \in Open : bg[o] \in {"sent", "stream", "unused"} => \E i \in DOMAIN wire : wire[i] = o
    /\ \A o \in Open : call[o] = "ok" => o \in Used

InTime == \A d \in Drain : drain[d] # "ackedEarly"

\* What has reached the agent.
Arrived(o) == \E i \in 1..delivered : wire[i] = o
Received ==
    /\ acked => \E i \in 1..delivered : wire[i] \in Drain
    /\ \A o \in Open : stream[o] = "queued" => \E k \in DOMAIN queue : queue[k] = o

\* The phases of a full handoff, while the session lives.
Early == {"running", "asked", "goaway"}
Late == {"backlog", "drain", "waiting", "closed"}
Phased ==
    /\ phase \in {"asked", "goaway", "stopping", "backlog"} => budget = "long"
    /\ ackInTime => budget = "long" /\ acked /\ phase \notin {"running", "asked"}
    /\ budget = "long" /\ phase \in Early => ~goAway /\ ~draining
    /\ budget = "long" /\ draining => phase \in {"waiting", "closed"}
    /\ budget = "long" /\ ~died /\ phase \in Early =>
        \A o \in Open : stream[o] \notin {"refused", "cut"}
    /\ ~died /\ phase # "closed" => up
    /\ budget = "long" /\ ~died /\ phase \in Late => ~mainUp /\ goAway
    /\ budget = "long" /\ phase = "stopping" => goAway
    /\ budget = "long" /\ ~died /\ phase \in {"drain", "waiting", "closed"} => queue = <<>>

\* Only a request that was sent is run, and only the end of the budget or of the
\* session cuts one.
RunsSent == \A o \in Open : stream[o] \in {"running", "served", "cut"} => req[o] = "sent"
CutsLate == \A o \in Open : stream[o] = "cut" => spent \/ died

NoneLost ==
    ackInTime /\ ~spent /\ ~died /\ InTime =>
        \A o \in Used : stream[o] \notin {"refused", "cut"}

HInv ==
    /\ Inv /\ Framed
    /\ HandoffTypeOK
    /\ Received /\ Phased /\ RunsSent /\ CutsLate /\ NoneLost

USE StreamOpenAssumption, HandoffAssumption

(***************************************************************************)
(* The edge.                                                               *)
(***************************************************************************)

\* Every step of the edge here is one of StreamOpen's.
LEMMA EdgeSteps == EdgeStep => Next
BY DEF EdgeStep, Next

LEMMA FramedInductive == Inv /\ Framed /\ [Next]_vars => Framed'
<1> SUFFICES ASSUME Inv, Framed, [Next]_vars PROVE Framed'
  OBVIOUS
<1>0. /\ TypeOK /\ wire \in Seq(Open \cup Drain)
      /\ bg \in [Open -> {"none", "opening", "sent", "failed", "stream", "unused"}]
      /\ \A i \in DOMAIN wire : Sent(i)
      /\ \A o \in Open : OpenLife(o)
  BY DEF Inv, TypeOK
<1>1. ASSUME UNCHANGED <<call, bg, wire>> PROVE Framed'
  BY <1>1 DEF Framed, Used
<1>2. ASSUME NEW o \in Open, OpenStart(o) PROVE Framed'
  <2>1. wire' = wire /\ \A x \in Open : (bg'[x] = bg[x] /\ call'[x] = call[x]) \/
                         (x = o /\ call'[x] # "ok" /\ bg'[x] \in {"none", "opening"})
    BY <1>0, <1>2 DEF OpenStart, TypeOK, OpenLife
  <2>2. \A x \in Open : call'[x] = "ok" => bg'[x] = "stream"
    BY <2>1 DEF Framed, Used
  <2>3. \A x \in Open : bg'[x] \in {"sent", "stream", "unused"} => bg[x] = bg'[x]
    BY <2>1
  <2> QED  BY <2>1, <2>2, <2>3 DEF Framed, Used
<1>3. ASSUME NEW o \in Open, OpenSends(o) PROVE Framed'
  <2>1. /\ bg[o] = "opening" /\ bg' = [bg EXCEPT ![o] = "sent"] /\ call' = call
        /\ wire' = Append(wire, o)
    BY <1>3 DEF OpenSends
  <2>2. \A i \in DOMAIN wire : wire[i] # o
    BY <1>0, <2>1 DEF Sent
  <2>3. /\ DOMAIN wire = 1..Len(wire) /\ DOMAIN wire' = 1..(Len(wire) + 1) /\ Len(wire) \in Nat
        /\ wire'[Len(wire) + 1] = o /\ \A i \in DOMAIN wire : wire'[i] = wire[i]
    BY <1>0, <2>1
  <2>4. \A i, j \in DOMAIN wire' : wire'[i] = wire'[j] /\ wire'[i] \in Open => i = j
    BY <2>2, <2>3 DEF Framed
  <2>5. \A x \in Open : bg'[x] \in {"sent", "stream", "unused"} => \E i \in DOMAIN wire' : wire'[i] = x
    <3> TAKE x \in Open
    <3>1. CASE x = o
      BY <2>3, <3>1
    <3>2. CASE x # o
      <4>1. bg'[x] = bg[x]
        BY <1>0, <2>1, <3>2
      <4> QED  BY <2>3, <4>1 DEF Framed
    <3> QED  BY <3>1, <3>2
  <2>6. \A x \in Open : call'[x] = "ok" => bg'[x] = "stream"
    BY <1>0, <2>1 DEF Framed, Used
  <2> QED  BY <2>4, <2>5, <2>6 DEF Framed, Used
<1>4. ASSUME NEW o \in Open, OpenFinishes(o) PROVE Framed'
  <2>1. /\ wire' = wire /\ call' = call /\ bg[o] \in {"opening", "sent"}
        /\ \A x \in Open \ {o} : bg'[x] = bg[x]
        /\ bg'[o] = (IF bg[o] = "opening" THEN "failed" ELSE IF o \in abandoned THEN "unused" ELSE "stream")
    BY <1>0, <1>4 DEF OpenFinishes
  <2>2. \A x \in Open : bg'[x] \in {"sent", "stream", "unused"} => \E i \in DOMAIN wire : wire[i] = x
    <3>1. \A x \in Open : bg'[x] \in {"sent", "stream", "unused"} => bg[x] \in {"sent", "stream", "unused"}
      BY <2>1
    <3> QED  BY <3>1 DEF Framed
  <2>3. \A x \in Open : call[x] = "ok" => bg'[x] = "stream"
    BY <2>1 DEF Framed, Used
  <2> QED  BY <2>1, <2>2, <2>3 DEF Framed, Used
<1>5. ASSUME NEW o \in Open, OpenReturns(o) \/ OpenTimesOut(o) PROVE Framed'
  <2>1. wire' = wire /\ bg' = bg
        /\ \A x \in Open : call'[x] = call[x] \/ (call'[x] = "ok" => bg[x] = "stream")
    BY <1>0, <1>5 DEF OpenReturns, OpenTimesOut, TypeOK
  <2> QED  BY <2>1 DEF Framed, Used
<1>6. ASSUME NEW d \in Drain, DrainAcks(d) PROVE Framed'
  <2>1. bg' = bg /\ call' = call /\ wire' = Append(wire, d) /\ d \notin Open
    BY <1>6 DEF DrainAcks
  <2>2. /\ DOMAIN wire = 1..Len(wire) /\ DOMAIN wire' = 1..(Len(wire) + 1) /\ Len(wire) \in Nat
        /\ wire'[Len(wire) + 1] = d /\ \A i \in DOMAIN wire : wire'[i] = wire[i]
    BY <1>0, <2>1
  <2>3. \A i, j \in DOMAIN wire' : wire'[i] = wire'[j] /\ wire'[i] \in Open => i = j
    BY <2>1, <2>2 DEF Framed
  <2>4. DOMAIN wire \subseteq DOMAIN wire'
    BY <2>2
  <2> QED  BY <2>1, <2>2, <2>3, <2>4 DEF Framed, Used
<1>7. CASE Retire \/ (\E d \in Drain : DrainRetires(d) \/ DrainWaits(d) \/ DrainTimesOut(d))
  BY <1>1, <1>7 DEF Retire, DrainRetires, DrainWaits, DrainTimesOut
<1>8. CASE UNCHANGED vars
  BY <1>1, <1>8 DEF vars
<1> QED  BY <1>2, <1>3, <1>4, <1>5, <1>6, <1>7, <1>8 DEF Next

(***************************************************************************)
(* When the agent has the acknowledgement it has the streams.              *)
(***************************************************************************)
LEMMA AllArrived ==
  ASSUME Inv, Framed, Received, delivered \in 0..Len(wire), acked, InTime, NEW o \in Used
  PROVE  Arrived(o)
<1>0. wire \in Seq(Open \cup Drain) /\ DOMAIN wire = 1..Len(wire) /\ Len(wire) \in Nat
  BY DEF Inv, TypeOK
<1>1. PICK i \in 1..delivered : wire[i] \in Drain
  BY DEF Received
<1>2. PICK j \in DOMAIN wire : wire[j] = o
  BY DEF Framed, Used
<1>3. o \in Open /\ o \notin abandoned
  BY DEF Used, Inv, OpenLife
<1>4. i \in DOMAIN wire /\ drain[wire[i]] # "ackedEarly"
  BY <1>0, <1>1 DEF InTime
<1>5. ~(i < j)
  BY <1>1, <1>2, <1>3, <1>4 DEF Inv, AckFollowsOpens
<1>6. j \in 1..delivered
  BY <1>0, <1>1, <1>2, <1>5
<1> QED  BY <1>2, <1>6 DEF Arrived

\* From then on there are no more of them, whatever the edge does.
LEMMA UsedFixed ==
  ASSUME Inv, Received, delivered \in 0..Len(wire), acked, InTime', [Next]_vars
  PROVE  Used' \subseteq Used /\ InTime
<1>0. /\ wire \in Seq(Open \cup Drain) /\ DOMAIN wire = 1..Len(wire) /\ Len(wire) \in Nat
      /\ bg \in [Open -> {"none", "opening", "sent", "failed", "stream", "unused"}]
      /\ drain \in [Drain -> {"new", "retired", "waiting", "woken", "early", "acked", "ackedEarly"}]
  BY DEF Inv, TypeOK
<1>1. InTime
  <2> SUFFICES ASSUME NEW d \in Drain, drain[d] = "ackedEarly" PROVE drain'[d] = "ackedEarly"
    BY DEF InTime
  <2> QED  BY <1>0 DEF Next, vars, connVars, Retire, OpenStart, OpenSends, OpenFinishes, OpenReturns,
                OpenTimesOut, WakeIfIdle, DrainRetires, DrainWaits, DrainTimesOut, DrainAcks
<1>2. PICK i \in 1..delivered : wire[i] \in Drain
  BY DEF Received
<1>3. drain[wire[i]] = "acked"
  BY <1>0, <1>1, <1>2 DEF Inv, Sent, InTime
<1>4. InFlight \subseteq abandoned
  BY <1>2, <1>3 DEF Inv, Settled
<1>5. ASSUME NEW o \in Open, bg'[o] = "stream" PROVE bg[o] = "stream"
  <2>1. CASE \E x \in Open : OpenFinishes(x)
    BY <1>0, <1>4, <1>5, <2>1 DEF OpenFinishes, InFlight
  <2>2. CASE ~\E x \in Open : OpenFinishes(x)
    BY <1>0, <1>5, <2>2 DEF Next, vars, connVars, Retire, OpenStart, OpenSends, OpenReturns,
         OpenTimesOut, DrainRetires, DrainWaits, DrainTimesOut, DrainAcks
  <2> QED  BY <2>1, <2>2
<1> QED  BY <1>1, <1>5 DEF Used

\* The frames sent so far stay where they are.
LEMMA WireGrows ==
  ASSUME Inv, [Next]_vars
  PROVE  /\ Len(wire') >= Len(wire) /\ Len(wire') \in Nat /\ Len(wire) \in Nat
         /\ \A i \in 1..Len(wire) : wire'[i] = wire[i]
<1>0. wire \in Seq(Open \cup Drain)
  BY DEF Inv, TypeOK
<1>1. CASE \E x \in Open \cup Drain : wire' = Append(wire, x)
  BY <1>0, <1>1
<1>2. CASE wire' = wire
  BY <1>0, <1>2
<1> QED  BY <1>1, <1>2 DEF Next, vars, connVars, Retire, OpenStart, OpenSends, OpenFinishes,
              OpenReturns, OpenTimesOut, DrainRetires, DrainWaits, DrainTimesOut, DrainAcks

LEMMA EdgeKeeps ==
  ASSUME HInv, EdgeStep
  PROVE  HInv'
<1>0. Next /\ UNCHANGED agentVars
  BY EdgeSteps DEF EdgeStep
<1>1. Inv' /\ Framed'
  BY <1>0, NextInv, FramedInductive DEF HInv
<1>2. HandoffTypeOK'
  <2>1. delivered' \in 0..Len(wire')
    BY <1>0, WireGrows DEF HInv, HandoffTypeOK, agentVars
  <2> QED  BY <1>0, <1>1, <2>1 DEF HInv, HandoffTypeOK, Inv, agentVars
<1>3. Received'
  <2>1. \A i \in 1..delivered : wire'[i] = wire[i]
    BY <1>0, WireGrows DEF HInv, HandoffTypeOK
  <2> QED  BY <1>0, <2>1 DEF HInv, Received, agentVars
<1>4. Phased' /\ RunsSent' /\ CutsLate'
  BY <1>0 DEF HInv, Phased, RunsSent, CutsLate, agentVars
<1>5. NoneLost'
  <2> SUFFICES ASSUME ackInTime', ~spent', ~died', InTime', NEW o \in Used'
               PROVE  stream'[o] \notin {"refused", "cut"}
    BY DEF NoneLost
  <2>1. acked /\ ackInTime /\ ~spent /\ ~died
    BY <1>0 DEF HInv, Phased, agentVars
  <2>2. o \in Used /\ InTime
    BY <1>0, <2>1, UsedFixed DEF HInv, HandoffTypeOK
  <2> QED  BY <1>0, <2>1, <2>2 DEF HInv, NoneLost, agentVars
<1> QED  BY <1>1, <1>2, <1>3, <1>4, <1>5 DEF HInv

(***************************************************************************)
(* The agent: its steps leave the edge's state alone.                      *)
(***************************************************************************)
LEMMA EdgeAlone ==
  ASSUME HInv, UNCHANGED vars
  PROVE  /\ Inv' /\ Framed' /\ (InTime' <=> InTime) /\ Used' = Used /\ TypeOK' /\ wire' = wire
         /\ wire \in Seq(Open \cup Drain) /\ Len(wire) \in Nat
<1>1. Inv' /\ Framed'
  BY NextInv, FramedInductive DEF HInv
<1> QED  BY <1>1 DEF HInv, Inv, TypeOK, vars, connVars, InTime, Used

StreamState == {"none", "queued", "taken", "accepted", "running", "served", "ended", "refused", "cut"}

LEMMA DeliverKeeps == ASSUME HInv, Deliver PROVE HInv'
<1> DEFINE frame == wire[delivered + 1]
<1>0. /\ UNCHANGED vars /\ up /\ delivered < Len(wire) /\ delivered' = delivered + 1
      /\ UNCHANGED <<budget, up, mainUp, req, phase, asked, ackInTime, goAway, draining, callback,
                     spent, died>>
  BY DEF Deliver
<1>1. /\ Inv' /\ Framed' /\ (InTime' <=> InTime) /\ Used' = Used /\ TypeOK' /\ wire' = wire
      /\ wire \in Seq(Open \cup Drain) /\ Len(wire) \in Nat
  BY <1>0, EdgeAlone
<1>2. /\ delivered \in 0..Len(wire) /\ delivered + 1 \in 1..Len(wire) /\ frame \in Open \cup Drain
      /\ queue \in Seq(Open) /\ stream \in [Open -> StreamState]
  BY <1>0, <1>1 DEF HInv, HandoffTypeOK, StreamState
<1> HIDE DEF frame
<1>3. \/ /\ frame \in Drain /\ acked' = TRUE /\ UNCHANGED <<queue, stream>>
      \/ /\ frame \in Open /\ acked' = acked /\ goAway
         /\ stream' = [stream EXCEPT ![frame] = "refused"] /\ queue' = queue
      \/ /\ frame \in Open /\ acked' = acked /\ ~goAway
         /\ stream' = [stream EXCEPT ![frame] = "queued"] /\ queue' = Append(queue, frame)
  BY <1>2 DEF Deliver, frame
<1>4. HandoffTypeOK'
  <2>0. acked \in BOOLEAN
    BY DEF HInv, HandoffTypeOK
  <2>1. queue' \in Seq(Open) /\ stream' \in [Open -> StreamState] /\ acked' \in BOOLEAN
    <3>1. queue' \in Seq(Open)
      BY <1>2, <1>3
    <3>2. stream' \in [Open -> StreamState]
      BY <1>2, <1>3 DEF StreamState
    <3>3. acked' \in BOOLEAN
      BY <1>3, <2>0
    <3> QED  BY <3>1, <3>2, <3>3
  <2>2. delivered' \in 0..Len(wire')
    BY <1>0, <1>1, <1>2
  <2> QED  BY <1>0, <1>1, <2>1, <2>2 DEF HInv, HandoffTypeOK, StreamState
<1>5. Received'
  <2>1. acked' => \E i \in 1..delivered' : wire'[i] \in Drain
    <3>1. CASE acked
      BY <1>0, <1>1, <1>2, <3>1 DEF HInv, Received
    <3>2. CASE frame \in Drain
      <4>1. delivered + 1 \in 1..delivered'
        BY <1>0, <1>2
      <4> QED  BY <1>1, <3>2, <4>1 DEF frame
    <3> QED  BY <1>3, <3>1, <3>2
  <2>2. ASSUME NEW o \in Open, stream'[o] = "queued" PROVE \E k \in DOMAIN queue' : queue'[k] = o
    <3>1. CASE queue' = queue
      <4>1. stream[o] = "queued"
        BY <1>2, <1>3, <2>2, <3>1
      <4> QED  BY <3>1, <4>1 DEF HInv, Received
    <3>2. CASE queue' = Append(queue, frame) /\ frame \in Open /\ stream' = [stream EXCEPT ![frame] = "queued"]
      <4>1. /\ DOMAIN queue = 1..Len(queue) /\ DOMAIN queue' = 1..(Len(queue) + 1) /\ Len(queue) \in Nat
            /\ queue'[Len(queue) + 1] = frame /\ \A k \in DOMAIN queue : queue'[k] = queue[k]
        BY <1>2, <3>2
      <4>2. CASE o = frame
        BY <4>1, <4>2
      <4>3. CASE o # frame
        <5>1. stream[o] = "queued"
          BY <1>2, <2>2, <3>2, <4>3
        <5> QED  BY <4>1, <5>1 DEF HInv, Received
      <4> QED  BY <4>2, <4>3
    <3> QED  BY <1>3, <3>1, <3>2
  <2> QED  BY <2>1, <2>2 DEF Received
<1>6. Phased'
  <2>1. \A o \in Open : stream'[o] \in {"refused", "cut"} => stream[o] \in {"refused", "cut"} \/ goAway
    BY <1>2, <1>3
  <2>2. goAway => queue' = queue
    BY <1>3
  <2>3. acked => acked'
    BY <1>3
  <2> QED  BY <1>0, <2>1, <2>2, <2>3 DEF HInv, Phased, Early, Late
<1>7. RunsSent' /\ CutsLate'
  BY <1>0, <1>2, <1>3 DEF HInv, RunsSent, CutsLate
<1>8. NoneLost'
  <2> SUFFICES ASSUME ackInTime, ~spent, ~died, InTime, NEW o \in Used
               PROVE  stream'[o] \notin {"refused", "cut"}
    BY <1>0, <1>1 DEF NoneLost
  <2>1. Arrived(o)
    BY <1>2, AllArrived DEF HInv, Phased
  <2>2. o # frame
    <3>1. PICK i \in 1..delivered : wire[i] = o
      BY <2>1 DEF Arrived
    <3>2. i \in DOMAIN wire /\ delivered + 1 \in DOMAIN wire /\ i # delivered + 1 /\ o \in Open
      BY <1>1, <1>2, <3>1 DEF Used
    <3> QED  BY <3>1, <3>2 DEF HInv, Framed, frame
  <2> QED  BY <1>2, <1>3, <2>2 DEF HInv, NoneLost, Used
<1> QED  BY <1>1, <1>4, <1>5, <1>6, <1>7, <1>8 DEF HInv

\* A stream is taken from the accept queue.
LEMMA TakenFromQueue ==
  ASSUME queue \in Seq(Open), queue # <<>>, stream \in [Open -> StreamState],
         \A o \in Open : stream[o] = "queued" => \E k \in DOMAIN queue : queue[k] = o,
         NEW s \in {"taken", "refused"}, stream' = [stream EXCEPT ![Head(queue)] = s],
         queue' = Tail(queue)
  PROVE  /\ Head(queue) \in Open /\ queue' \in Seq(Open) /\ stream' \in [Open -> StreamState]
         /\ \A o \in Open : stream'[o] = "queued" => \E k \in DOMAIN queue' : queue'[k] = o
         /\ \A o \in Open : stream'[o] = stream[o] \/ stream'[o] = s
<1>1. Head(queue) \in Open /\ queue' \in Seq(Open)
  OBVIOUS
<1>2. stream' \in [Open -> StreamState] /\ \A o \in Open : stream'[o] = stream[o] \/ stream'[o] = s
  BY <1>1 DEF StreamState
<1>3. ASSUME NEW o \in Open, stream'[o] = "queued" PROVE \E k \in DOMAIN queue' : queue'[k] = o
  <2>1. stream[o] = "queued" /\ o # Head(queue)
    BY <1>1, <1>3
  <2>2. PICK k \in DOMAIN queue : queue[k] = o
    BY <2>1
  <2>3. k # 1 /\ k \in 1..Len(queue) /\ Len(queue) \in Nat /\ DOMAIN queue' = 1..(Len(queue) - 1)
    BY <2>1, <2>2
  <2>4. k - 1 \in DOMAIN queue' /\ queue'[k - 1] = queue[k]
    BY <2>3
  <2> QED  BY <2>2, <2>4
<1> QED  BY <1>1, <1>2, <1>3

\* What a step that only moves streams along must show.
LEMMA StreamsMove ==
  ASSUME HInv, UNCHANGED vars,
         UNCHANGED <<budget, up, delivered, acked, mainUp, phase, asked, ackInTime, goAway, draining,
                     callback, died>>,
         queue' \in Seq(Open), queue = <<>> => queue' = <<>>,
         stream' \in [Open -> StreamState], req' \in [Open -> {"none", "sent", "retry"}],
         spent' \in BOOLEAN, spent => spent',
         \A o \in Open : stream'[o] = "queued" => \E k \in DOMAIN queue' : queue'[k] = o,
         RunsSent',
         \A o \in Open : stream'[o] = "cut" => stream[o] = "cut",
         \A o \in Open : stream'[o] = "refused" =>
            stream[o] = "refused" \/ (draining /\ mainUp) \/ (spent' /\ phase = "backlog")
  PROVE  HInv'
<1>0. /\ Inv' /\ Framed' /\ (InTime' <=> InTime) /\ Used' = Used /\ TypeOK' /\ wire' = wire
  BY EdgeAlone
<1>1. HandoffTypeOK'
  BY <1>0 DEF HInv, HandoffTypeOK, StreamState
<1>2. Received'
  BY <1>0 DEF HInv, Received
<1>3. Phased'
  <2>1. budget = "long" /\ ~died /\ phase \in Early =>
          \A o \in Open : stream'[o] \notin {"refused", "cut"}
    BY DEF HInv, Phased, Early
  <2> QED  BY <2>1 DEF HInv, Phased
<1>4. CutsLate'
  BY DEF HInv, CutsLate
<1>5. NoneLost'
  <2> SUFFICES ASSUME ackInTime, ~spent', ~died, InTime, NEW o \in Used
               PROVE  stream'[o] \notin {"refused", "cut"}
    BY <1>0 DEF NoneLost
  <2>1. o \in Open /\ stream[o] \notin {"refused", "cut"} /\ ~spent
    BY DEF HInv, NoneLost, Used
  <2>2. ~(draining /\ mainUp)
    BY DEF HInv, Phased, Late
  <2> QED  BY <2>1, <2>2
<1> QED  BY <1>0, <1>1, <1>2, <1>3, <1>4, <1>5 DEF HInv

LEMMA AcceptKeeps ==
  ASSUME HInv, MainAccepts \/ Backlog
  PROVE  HInv'
<1>0. /\ UNCHANGED vars
      /\ UNCHANGED <<budget, up, delivered, acked, mainUp, req, phase, asked, ackInTime, goAway,
                     draining, callback, died>>
      /\ queue # <<>> /\ queue' = Tail(queue)
  BY DEF MainAccepts, Backlog
<1>1. PICK s \in {"taken", "refused"} :
        /\ stream' = [stream EXCEPT ![Head(queue)] = s]
        /\ s = "refused" => (draining /\ mainUp) \/ (spent' /\ phase = "backlog")
  BY DEF MainAccepts, Backlog, ServeStream, HInv, Phased
<1>2. spent \in BOOLEAN /\ spent' \in BOOLEAN /\ (spent => spent')
  <2>1. spent \in BOOLEAN
    BY DEF HInv, HandoffTypeOK
  <2>2. spent' = spent \/ spent' = TRUE
    BY DEF MainAccepts, Backlog
  <2> QED  BY <2>1, <2>2
<1>3. queue \in Seq(Open) /\ stream \in [Open -> StreamState] /\ req \in [Open -> {"none", "sent", "retry"}]
  BY DEF HInv, HandoffTypeOK, StreamState
<1>4. /\ Head(queue) \in Open /\ queue' \in Seq(Open) /\ stream' \in [Open -> StreamState]
      /\ \A o \in Open : stream'[o] = "queued" => \E k \in DOMAIN queue' : queue'[k] = o
      /\ \A o \in Open : stream'[o] = stream[o] \/ stream'[o] = s
  BY <1>0, <1>1, <1>3, TakenFromQueue DEF HInv, Received
<1>5. RunsSent'
  BY <1>0, <1>4 DEF HInv, RunsSent
<1>6. \A o \in Open : stream'[o] = "cut" => stream[o] = "cut"
  BY <1>4
<1>7. \A o \in Open : stream'[o] = "refused" =>
        stream[o] = "refused" \/ (draining /\ mainUp) \/ (spent' /\ phase = "backlog")
  BY <1>1, <1>4
<1> QED  BY <1>0, <1>2, <1>3, <1>4, <1>5, <1>6, <1>7, StreamsMove

LEMMA RequestKeeps ==
  ASSUME HInv, NEW o \in Open, SendHead(o) \/ Retry(o) \/ HandleStream(o)
  PROVE  HInv'
<1>0. /\ UNCHANGED vars
      /\ UNCHANGED <<budget, up, delivered, acked, mainUp, phase, asked, ackInTime, goAway,
                     draining, callback, died, queue, spent>>
  BY DEF SendHead, Retry, HandleStream
<1>1. /\ queue \in Seq(Open) /\ stream \in [Open -> StreamState]
      /\ req \in [Open -> {"none", "sent", "retry"}] /\ spent \in BOOLEAN
  BY DEF HInv, HandoffTypeOK, StreamState
<1>2. stream' \in [Open -> StreamState] /\ req' \in [Open -> {"none", "sent", "retry"}]
  BY <1>1 DEF SendHead, Retry, HandleStream, StreamState
<1>3. RunsSent'
  BY <1>1 DEF SendHead, Retry, HandleStream, HInv, RunsSent
<1>4. \A x \in Open : stream'[x] \in {"cut", "queued", "refused"} => stream[x] = stream'[x]
  BY <1>1 DEF SendHead, Retry, HandleStream
<1>5. \A x \in Open : stream'[x] = "queued" => \E k \in DOMAIN queue' : queue'[k] = x
  BY <1>0, <1>4 DEF HInv, Received
<1> QED  BY <1>0, <1>1, <1>2, <1>3, <1>4, <1>5, StreamsMove

\* The end of the session, when the budget is spent or nothing runs.
LEMMA CloseKeeps ==
  ASSUME HInv, SessionDies \/ DrainEnds
  PROVE  HInv'
<1>0. /\ UNCHANGED vars /\ CloseSession
      /\ UNCHANGED <<budget, delivered, acked, req, asked, ackInTime, goAway, draining, callback>>
  BY DEF SessionDies, DrainEnds
<1>1. /\ Inv' /\ Framed' /\ (InTime' <=> InTime) /\ Used' = Used /\ TypeOK' /\ wire' = wire
  BY <1>0, EdgeAlone
<1>2. /\ stream \in [Open -> StreamState] /\ queue' = <<>> /\ up' = FALSE /\ mainUp' = FALSE
      /\ stream' = [o \in Open |->
                      CASE stream[o] = "running"               -> "cut"
                        [] stream[o] \in {"taken", "accepted"} -> "ended"
                        [] stream[o] = "queued"                -> "refused"
                        [] OTHER                               -> stream[o]]
  BY <1>0 DEF CloseSession, HInv, HandoffTypeOK, StreamState
<1>3. \A o \in Open :
        /\ stream'[o] \in StreamState /\ stream'[o] \notin {"queued", "running"}
        /\ stream'[o] \in {"cut", "served"} => stream[o] \in {"running", "cut", "served"}
        /\ stream'[o] = "cut" => stream[o] \in {"running", "cut"}
        /\ stream'[o] = "refused" => stream[o] \in {"queued", "refused"}
  BY <1>2 DEF StreamState
<1>4. CASE SessionDies
  <2>1. died' = TRUE /\ phase' = phase /\ spent' = spent
    BY <1>4 DEF SessionDies
  <2>2. HandoffTypeOK'
    <3>1. stream' \in [Open -> StreamState] /\ queue' \in Seq(Open)
      BY <1>2, <1>3
    <3> QED  BY <1>0, <1>1, <1>2, <2>1, <3>1 DEF HInv, HandoffTypeOK, StreamState
  <2>3. Received' /\ RunsSent' /\ CutsLate' /\ NoneLost'
    BY <1>0, <1>1, <1>3, <2>1 DEF HInv, Received, RunsSent, CutsLate, NoneLost
  <2>4. Phased'
    BY <1>0, <1>2, <2>1 DEF HInv, Phased, Early, Late
  <2> QED  BY <1>1, <2>2, <2>3, <2>4 DEF HInv
<1>5. CASE DrainEnds
  <2>1. /\ phase = "waiting" /\ phase' = "closed" /\ died' = died
        /\ (Inflight = {} /\ spent' = spent) \/ spent' = TRUE
    BY <1>5 DEF DrainEnds
  <2>2. HandoffTypeOK'
    <3>1. stream' \in [Open -> StreamState] /\ queue' \in Seq(Open)
      BY <1>2, <1>3
    <3>2. spent' \in BOOLEAN
      BY <2>1 DEF HInv, HandoffTypeOK
    <3> QED  BY <1>0, <1>1, <1>2, <2>1, <3>1, <3>2 DEF HInv, HandoffTypeOK, StreamState
  <2>3. Received' /\ RunsSent'
    BY <1>0, <1>1, <1>3 DEF HInv, Received, RunsSent
  <2>4. CutsLate'
    BY <1>3, <2>1 DEF HInv, CutsLate, Inflight
  <2>5. Phased'
    BY <1>0, <1>2, <2>1 DEF HInv, Phased, Early, Late
  <2>6. NoneLost'
    <3> SUFFICES ASSUME ackInTime, ~spent', ~died, InTime, NEW o \in Used
                 PROVE  stream'[o] \notin {"refused", "cut"}
      BY <1>0, <1>1, <2>1 DEF NoneLost
    <3>1. o \in Open /\ Inflight = {} /\ ~spent /\ stream[o] \notin {"refused", "cut"}
      BY <2>1 DEF Used, HInv, NoneLost
    <3>2. stream[o] # "running"
      BY <3>1 DEF Inflight
    <3>3. queue = <<>>
      BY <2>1 DEF HInv, Phased
    <3>4. stream[o] # "queued"
      BY <3>1, <3>3 DEF HInv, Received
    <3> QED  BY <1>3, <3>1, <3>2, <3>4
  <2> QED  BY <1>1, <2>2, <2>3, <2>4, <2>5, <2>6 DEF HInv
<1> QED  BY <1>4, <1>5

\* The steps of shutdownSession between taking streams and closing.
LEMMA PhaseKeeps ==
  ASSUME HInv,
         Shutdown \/ BackgroundGoAway \/ AckWaitEnds \/ GoAway \/ MainStops \/ BacklogQuiet \/ RefuseNew
  PROVE  HInv'
<1>0. /\ UNCHANGED vars
      /\ UNCHANGED <<budget, up, delivered, acked, queue, stream, req, spent, died>>
  BY DEF Shutdown, BackgroundGoAway, AckWaitEnds, GoAway, MainStops, BacklogQuiet, RefuseNew
<1>1. /\ Inv' /\ Framed' /\ (InTime' <=> InTime) /\ Used' = Used /\ TypeOK' /\ wire' = wire
  BY <1>0, EdgeAlone
<1>2. HandoffTypeOK'
  <2>0. {acked, mainUp, asked, ackInTime, goAway, draining, callback} \subseteq BOOLEAN
    BY DEF HInv, HandoffTypeOK
  <2>1. {mainUp', asked', goAway', draining', callback'} \subseteq BOOLEAN
    BY <2>0 DEF Shutdown, BackgroundGoAway, AckWaitEnds, GoAway, MainStops, BacklogQuiet, RefuseNew
  <2>2. ackInTime' \in BOOLEAN
    <3>1. ackInTime' = ackInTime \/ ackInTime' = FALSE \/ ackInTime' = acked
      BY DEF Shutdown, BackgroundGoAway, AckWaitEnds, GoAway, MainStops, BacklogQuiet, RefuseNew
    <3> QED  BY <2>0, <3>1
  <2>3. phase' \in {"running", "asked", "goaway", "stopping", "backlog", "drain", "waiting", "closed"}
    <3>1. phase' = phase \/ phase' \in {"asked", "goaway", "stopping", "backlog", "drain", "waiting"}
      BY DEF Shutdown, BackgroundGoAway, AckWaitEnds, GoAway, MainStops, BacklogQuiet, RefuseNew
    <3> QED  BY <3>1 DEF HInv, HandoffTypeOK
  <2> QED  BY <1>0, <1>1, <2>1, <2>2, <2>3 DEF HInv, HandoffTypeOK
<1>3. Received' /\ RunsSent' /\ CutsLate'
  BY <1>0, <1>1 DEF HInv, Received, RunsSent, CutsLate
<1>4. Phased'
  <2>0. Phased
    BY DEF HInv
  <2>1. CASE Shutdown
    BY <1>0, <2>0, <2>1 DEF Phased, Early, Late, Shutdown
  <2>2. CASE BackgroundGoAway
    BY <1>0, <2>0, <2>2 DEF Phased, Early, Late, BackgroundGoAway
  <2>3. CASE AckWaitEnds
    <3>1. ackInTime' => acked
      <4>1. ackInTime' = FALSE \/ ackInTime' = acked
        BY <2>3 DEF AckWaitEnds
      <4> QED  BY <4>1
    <3> QED  BY <1>0, <2>0, <2>3, <3>1 DEF Phased, Early, Late, AckWaitEnds
  <2>4. CASE GoAway
    BY <1>0, <2>0, <2>4 DEF Phased, Early, Late, GoAway
  <2>5. CASE MainStops
    BY <1>0, <2>0, <2>5 DEF Phased, Early, Late, MainStops
  <2>6. CASE BacklogQuiet
    BY <1>0, <2>0, <2>6 DEF Phased, Early, Late, BacklogQuiet
  <2>7. CASE RefuseNew
    BY <1>0, <2>0, <2>7 DEF Phased, Early, Late, RefuseNew
  <2> QED  BY <2>1, <2>2, <2>3, <2>4, <2>5, <2>6, <2>7
<1>5. NoneLost'
  <2>1. CASE ackInTime' = ackInTime
    BY <1>0, <1>1, <2>1 DEF HInv, NoneLost
  <2>2. CASE AckWaitEnds
    <3>1. phase = "asked" /\ budget = "long"
      BY <2>2 DEF AckWaitEnds, HInv, Phased
    <3>2. ~died => \A o \in Open : stream[o] \notin {"refused", "cut"}
      BY <3>1 DEF HInv, Phased, Early
    <3> QED  BY <1>0, <1>1, <3>2 DEF NoneLost, Used
  <2> QED  BY <2>1, <2>2 DEF Shutdown, BackgroundGoAway, GoAway, MainStops, BacklogQuiet, RefuseNew
<1> QED  BY <1>1, <1>2, <1>3, <1>4, <1>5 DEF HInv

LEMMA InitHInv == HandoffInit => HInv
<1> SUFFICES ASSUME HandoffInit PROVE HInv
  OBVIOUS
<1>1. Inv /\ Init
  BY InitInv DEF HandoffInit
<1>2. wire = <<>> /\ DOMAIN wire = {} /\ Len(wire) = 0
  BY <1>1 DEF Init
<1>3. Framed
  BY <1>1, <1>2 DEF Framed, Init, Used
<1>4. HandoffTypeOK
  <2>1. queue \in Seq(Open) /\ delivered \in 0..Len(wire)
    BY <1>2 DEF HandoffInit
  <2>2. stream \in [Open -> StreamState] /\ req \in [Open -> {"none", "sent", "retry"}]
    BY DEF HandoffInit, StreamState
  <2>3. {up, acked, mainUp, asked, ackInTime, goAway, draining, callback, spent, died} \subseteq BOOLEAN
    BY DEF HandoffInit
  <2>4. TypeOK
    BY <1>1 DEF Inv
  <2> QED  BY <2>1, <2>2, <2>3, <2>4 DEF HandoffInit, HandoffTypeOK, StreamState
<1>5. Received /\ Phased /\ RunsSent /\ CutsLate /\ NoneLost
  BY DEF HandoffInit, Received, Phased, Early, Late, RunsSent, CutsLate, NoneLost, Used
<1> QED  BY <1>1, <1>3, <1>4, <1>5 DEF HInv

LEMMA NextHInv == HInv /\ [HandoffNext]_handoffVars => HInv'
<1> SUFFICES ASSUME HInv, [HandoffNext]_handoffVars PROVE HInv'
  OBVIOUS
<1>1. CASE EdgeStep
  BY <1>1, EdgeKeeps
<1>2. CASE Deliver
  BY <1>2, DeliverKeeps
<1>3. CASE MainAccepts \/ Backlog
  BY <1>3, AcceptKeeps
<1>4. CASE SessionDies \/ DrainEnds
  BY <1>4, CloseKeeps
<1>5. CASE Shutdown \/ BackgroundGoAway \/ AckWaitEnds \/ GoAway \/ MainStops \/ BacklogQuiet \/ RefuseNew
  BY <1>5, PhaseKeeps
<1>6. CASE \E o \in Open : SendHead(o) \/ Retry(o) \/ HandleStream(o)
  BY <1>6, RequestKeeps
<1>7. CASE UNCHANGED handoffVars
  <2>1. UNCHANGED vars /\ UNCHANGED agentVars
    BY <1>7 DEF handoffVars
  <2>2. /\ Inv' /\ Framed' /\ (InTime' <=> InTime) /\ Used' = Used /\ TypeOK' /\ wire' = wire
    BY <2>1, EdgeAlone
  <2>3. HandoffTypeOK' /\ Received' /\ Phased' /\ RunsSent' /\ CutsLate' /\ NoneLost'
    BY <2>1, <2>2 DEF HInv, HandoffTypeOK, Received, Phased, RunsSent, CutsLate, NoneLost, agentVars
  <2> QED  BY <2>2, <2>3 DEF HInv
<1> QED  BY <1>1, <1>2, <1>3, <1>4, <1>5, <1>6, <1>7 DEF HandoffNext, ShutdownStep

\* The invariant of the handoff: the edge's bookkeeping, the order of frames on
\* the wire, what the agent has received, and what it may refuse in each phase
\* of shutdownSession.
THEOREM HandoffInv == HandoffSpec => []HInv
<1> QED  BY InitHInv, NextHInv, PTL DEF HandoffSpec

\* shutdownSession, with any number of streams being opened, any number of drain
\* requests and every order of events: the agent cuts a request only when its
\* budget has run out, and a handoff acknowledged in time loses no stream.
THEOREM HandoffIsLossless == HandoffSpec => []HandoffLosesNothing
<1>1. HInv => HandoffLosesNothing
  BY DEF HInv, HandoffLosesNothing, CutsLate, NoneLost, InTime, Framed
<1> QED  BY <1>1, HandoffInv, PTL

\* tryAgent: a request retried on another agent was not run by this one, for any
\* number of requests.
THEOREM RetriesAreSafe == HandoffSpec => []RetryIsSafe
<1>1. HInv => RetryIsSafe
  BY DEF HInv, RetryIsSafe, RunsSent
<1> QED  BY <1>1, HandoffInv, PTL
=============================================================================
